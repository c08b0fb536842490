----------------------------- MODULE TeddySched -----------------------------
(***************************************************************************)
(* The struct_ops callbacks of scx_teddy (src/bpf/main.bpf.c) and the      *)
(* sched_ext core that calls them: tasks wake, are queued in the           *)
(* per-priority dispatch queues (DSQs), are pulled by the CPUs, run, and   *)
(* block or lose the CPU, while userspace writes new settings into         *)
(* update_map.                                                             *)
(*                                                                         *)
(* The callbacks are translated from the source.  The kernel around them   *)
(* (external) is modelled by the order in which it calls them: a wakeup is *)
(* select_cpu and, later, under the lock of the chosen run queue, either   *)
(* the direct dispatch select_cpu asked for or enqueue; a CPU that loses   *)
(* its task calls dispatch first and only then puts a still runnable task  *)
(* back with stopping and enqueue; an insertion into a DSQ wakes no CPU,   *)
(* the wakeup itself reschedules the task's own run queue if it is idle.   *)
(***************************************************************************)
EXTENDS Integers, Sequences, FiniteSets, SequencesExt

CONSTANTS Tasks, Cpus,
          None,            \* no task, no entry, no request
          PriorityNum,     \* PRIORITY_NUM
          CriticalPrio,    \* CRITICAL_PRIO: prio < CriticalPrio is critical
          KindNum,         \* cpu_kind_num
          KindOf,          \* cpu_info[cpu].cpu_kind
          FastToSlow,      \* cpus_fast_to_slow
          DefaultSlice,    \* DEFAULT_SLICE
          Settings,        \* the sched_info_t values userspace writes
          Affinities,      \* the CPU sets tasks are bound to
          StorageFails     \* may bpf_task_storage_get fail to allocate?

DsqBase     == 200
DefaultPrio == PriorityNum - 1
Prios       == 0 .. PriorityNum - 1
Kinds       == 0 .. KindNum
FastestKind == 1
SlowestKind == KindNum
Prefers     == 0 .. 2
NoPrefer    == 0
FastPrefer  == 1
SlowPrefer  == 2

Ctxs == [prio : Prios, kind : Kinds, prefer : Prefers, slice : Nat]

ASSUME PrioAssumption ==
  PriorityNum \in Nat \ {0} /\ CriticalPrio \in 0 .. PriorityNum
ASSUME TopologyAssumption ==
  /\ KindNum \in Nat \ {0}
  /\ KindOf \in [Cpus -> 1 .. KindNum]
  /\ \A k \in 1 .. KindNum : \E c \in Cpus : KindOf[c] = k
  /\ FastToSlow \in Seq(Cpus)
  /\ \A c \in Cpus : \E i \in DOMAIN FastToSlow : FastToSlow[i] = c
ASSUME CpusAssumption == IsFiniteSet(Cpus)
ASSUME SettingAssumption ==
  Settings \subseteq Ctxs /\ DefaultSlice \in Nat
ASSUME AffinityAssumption ==
  /\ Affinities \subseteq SUBSET Cpus
  /\ {} \notin Affinities
ASSUME NoneAssumption ==
  None \notin Tasks /\ None \notin Ctxs /\ None \notin Cpus /\ None \notin Nat
ASSUME StorageAssumption == StorageFails \in BOOLEAN

(* dsq_id: slot kind of the block of prio *)
DsqId(prio, kind) == DsqBase + prio * (1 + KindNum) + kind
(* teddy_init creates PRIORITY_NUM blocks of 1 + cpu_kind_num DSQs *)
DsqIds == DsqBase .. DsqBase + PriorityNum * (1 + KindNum) - 1

VARIABLES
  ctx,         \* task_ctx: the prio, kind, cpu_prefer and slice of a task
  update_map,  \* the setting written by userspace and not yet applied
  allowed,     \* p->cpus_ptr
  home,        \* the run queue the task is on (task_cpu)
  where,       \* "asleep", "waking", "dsq", "local" or "running"
  verdict,     \* what select_cpu inserted, until the wakeup completes
  slice,       \* p->scx.slice: the slice of the last dsq_insert
  dsq,         \* the user DSQs, FIFO
  local,       \* the local DSQ of every CPU
  curr,        \* rq->curr, None when the CPU runs its idle task
  idle,        \* the built-in idle mask
  resched,     \* the CPUs whose idle task was told to reschedule
  walk         \* position of teddy_dispatch on a CPU, None outside schedule()

taskVars == <<ctx, update_map, allowed, home, where, verdict, slice>>
cpuVars  == <<dsq, local, curr, idle, resched, walk>>
vars     == <<ctx, update_map, allowed, home, where, verdict, slice,
              dsq, local, curr, idle, resched, walk>>

DefaultCtx == [prio |-> DefaultPrio, kind |-> 0, prefer |-> NoPrefer,
               slice |-> DefaultSlice]

(* get_target_storage: the task's context, created with the defaults on    *)
(* first use; an allocation may fail, and then every callback does without *)
Storage(t) ==
  IF ctx[t] # None THEN {ctx[t]}
  ELSE {DefaultCtx} \cup (IF StorageFails THEN {None} ELSE {})

(* the DSQ a context asks for; without one, the lowest shared DSQ *)
QueueOf(x) == IF x = None THEN DsqId(DefaultPrio, 0) ELSE DsqId(x.prio, x.kind)
SliceOf(x) == IF x = None THEN DefaultSlice ELSE x.slice

IsCritical(x) == x # None /\ x.prio < CriticalPrio

KindOk(c, x) == x.kind = 0 \/ KindOf[c] = x.kind
PreferOk(c, x) ==
  CASE x.prefer = FastPrefer -> KindOf[c] = FastestKind
    [] x.prefer = SlowPrefer -> KindOf[c] = SlowestKind
    [] OTHER                 -> TRUE

Rank(c) == CHOOSE i \in DOMAIN FastToSlow : FastToSlow[i] = c
Before(c, d, prefer) ==
  IF prefer = FastPrefer THEN Rank(c) <= Rank(d) ELSE Rank(d) <= Rank(c)

(* slip: the kind test is missing *)
PickIdleAnyKind(t, x) ==
  LET fits == idle \cap allowed[t]
  IN  {c \in fits : \A d \in fits : Before(c, d, x.prefer)}

(* pick_idle_in_order: the first idle CPU of the preferred speed order that *)
(* fits kind and affinity                                                   *)
PickIdleInOrder(t, x) ==
  LET fits == {c \in idle \cap allowed[t] : KindOk(c, x)}
  IN  {c \in fits : \A d \in fits : Before(c, d, x.prefer)}

(* scx_bpf_select_cpu_dfl with is_idle (external): some allowed idle CPU *)
PickDefault(t) == idle \cap allowed[t]

PickIdle(t, x) ==
  IF x.prefer = NoPrefer /\ x.kind = 0 THEN PickDefault(t) ELSE PickIdleInOrder(t, x)

(* the waker's own CPU, taken when the wakeup is WAKE_SYNC and it is idle *)
PickSync(t, x) ==
  {c \in idle \cap allowed[t] : KindOk(c, x) /\ PreferOk(c, x)}

NoVerdict == [cpu |-> None, q |-> None]

TypeOK ==
  /\ ctx \in [Tasks -> Ctxs \cup {None}]
  /\ update_map \in [Tasks -> Settings \cup {None}]
  /\ allowed \in [Tasks -> Affinities]
  /\ home \in [Tasks -> Cpus]
  /\ where \in [Tasks -> {"asleep", "waking", "dsq", "local", "running"}]
  /\ verdict \in [Tasks -> [cpu : Cpus \cup {None}, q : DsqIds \cup {None}]]
  /\ slice \in [Tasks -> Nat]
  /\ dsq \in [DsqIds -> Seq(Tasks)]
  /\ local \in [Cpus -> Seq(Tasks)]
  /\ curr \in [Cpus -> Tasks \cup {None}]
  /\ idle \subseteq Cpus
  /\ resched \subseteq Cpus
  /\ walk \in [Cpus -> (0 .. 2 * PriorityNum) \cup {None}]

Init ==
  /\ ctx = [t \in Tasks |-> None]
  /\ update_map = [t \in Tasks |-> None]
  /\ allowed \in [Tasks -> Affinities]
  /\ home \in {h \in [Tasks -> Cpus] : \A t \in Tasks : h[t] \in allowed[t]}
  /\ where = [t \in Tasks |-> "asleep"]
  /\ verdict = [t \in Tasks |-> NoVerdict]
  /\ slice = [t \in Tasks |-> DefaultSlice]
  /\ dsq = [q \in DsqIds |-> <<>>]
  /\ local = [c \in Cpus |-> <<>>]
  /\ curr = [c \in Cpus |-> None]
  /\ idle = Cpus
  /\ resched = {}
  /\ walk = [c \in Cpus |-> None]

(***************************************************************************)
(* Wakeup, first half: the kernel calls select_cpu for a task that may run *)
(* on several CPUs.                                                        *)
(***************************************************************************)
(* A CPU returned by select_cpu that the task may not use is replaced by an *)
(* allowed one (external).                                                  *)
HomeFor(t, c) == IF c \in allowed[t] THEN {c} ELSE allowed[t]

(* prio >= CRITICAL_PRIO, or no context: queue at once on a shared or       *)
(* kind-only DSQ, with the default slice                                    *)
SelectQueue(t, x) ==
  /\ ~IsCritical(x)
  /\ verdict' = [verdict EXCEPT ![t] = [cpu |-> None, q |-> QueueOf(x)]]
  /\ slice' = [slice EXCEPT ![t] = DefaultSlice]
  /\ \E h \in HomeFor(t, home[t]) : home' = [home EXCEPT ![t] = h]
  /\ UNCHANGED idle

(* A critical task claims an idle CPU (test_and_clear takes it out of the   *)
(* idle mask) and is inserted into that CPU's local DSQ.                    *)
SelectIdle(t, x) ==
  /\ IsCritical(x)
  /\ \E c \in PickSync(t, x) \cup PickIdle(t, x) :
       /\ idle' = idle \ {c}
       /\ verdict' = [verdict EXCEPT ![t] = [cpu |-> c, q |-> None]]
       /\ home' = [home EXCEPT ![t] = c]
  /\ slice' = [slice EXCEPT ![t] = x.slice]

(* slip: the idle bit is cleared before the other tests, and forgotten *)
SelectNoneClaimed(t, x) ==
  /\ IsCritical(x)
  /\ PickIdle(t, x) = {}
  /\ \E h \in HomeFor(t, home[t]) : home' = [home EXCEPT ![t] = h]
  /\ idle' = {}
  /\ UNCHANGED <<verdict, slice>>

(* No idle CPU for a critical task: nothing inserted, enqueue will be called *)
SelectNone(t, x) ==
  /\ IsCritical(x)
  /\ PickIdle(t, x) = {}
  /\ \E h \in HomeFor(t, home[t]) : home' = [home EXCEPT ![t] = h]
  /\ UNCHANGED <<verdict, slice, idle>>

SelectCpu(t) ==
  /\ where[t] = "asleep"
  /\ Cardinality(allowed[t]) > 1
  /\ \E x \in Storage(t) :
       /\ ctx' = [ctx EXCEPT ![t] = x]
       /\ SelectQueue(t, x) \/ SelectIdle(t, x) \/ SelectNone(t, x)
  /\ where' = [where EXCEPT ![t] = "waking"]
  /\ UNCHANGED <<update_map, allowed, dsq, local, curr, resched, walk>>

(* A task bound to one CPU is woken there without select_cpu (external).    *)
WakeBound(t) ==
  /\ where[t] = "asleep"
  /\ Cardinality(allowed[t]) = 1
  /\ \E h \in allowed[t] : home' = [home EXCEPT ![t] = h]
  /\ where' = [where EXCEPT ![t] = "waking"]
  /\ UNCHANGED <<ctx, update_map, allowed, verdict, slice, dsq, local, curr,
                 idle, resched, walk>>

(***************************************************************************)
(* Wakeup, second half, under the lock of the run queue: runnable, then    *)
(* the insertion select_cpu asked for, or teddy_enqueue.  An idle run      *)
(* queue is told to reschedule; an insertion into a DSQ tells nobody else. *)
(***************************************************************************)
Kick(c) == resched' = IF curr[c] = None THEN resched \cup {c} ELSE resched

(* dsq_insert into a user DSQ, at the tail *)
InsertDsq(t, q) ==
  /\ dsq' = [dsq EXCEPT ![q] = Append(@, t)]
  /\ where' = [where EXCEPT ![t] = "dsq"]

(* teddy_enqueue *)
Enqueue(t, x) ==
  /\ InsertDsq(t, QueueOf(x))
  /\ slice' = [slice EXCEPT ![t] = SliceOf(x)]

WakeLocal(t) ==
  LET c == verdict[t].cpu
  IN  /\ c # None
      /\ local' = [local EXCEPT ![c] = Append(@, t)]
      /\ where' = [where EXCEPT ![t] = "local"]
      /\ UNCHANGED <<ctx, slice, dsq>>

(* slip: select_cpu inserts and does not return, so the task is queued twice *)
WakeDsqTwice(t) ==
  /\ verdict[t].q # None
  /\ dsq' = [dsq EXCEPT ![verdict[t].q] = @ \o <<t, t>>]
  /\ where' = [where EXCEPT ![t] = "dsq"]
  /\ UNCHANGED <<ctx, slice, local>>

WakeDsq(t) ==
  /\ verdict[t].q # None
  /\ InsertDsq(t, verdict[t].q)
  /\ UNCHANGED <<ctx, slice, local>>

WakeEnqueue(t) ==
  /\ verdict[t] = NoVerdict
  /\ \E x \in Storage(t) : ctx' = [ctx EXCEPT ![t] = x] /\ Enqueue(t, x)
  /\ UNCHANGED local

Wake(t) ==
  /\ where[t] = "waking"
  /\ walk[home[t]] = None
  /\ WakeLocal(t) \/ WakeDsq(t) \/ WakeEnqueue(t)
  /\ verdict' = [verdict EXCEPT ![t] = NoVerdict]
  /\ Kick(home[t])
  /\ UNCHANGED <<update_map, allowed, home, curr, idle, walk>>

(***************************************************************************)
(* teddy_stopping, the part that changes scheduling: a pending setting is  *)
(* applied and deleted.  cpu_kind only applies to a task that may use      *)
(* every CPU; cpu_prefer follows the kind when userspace left it at 0.     *)
(***************************************************************************)
(* slip: the affinity is not looked at *)
AppliedToBound(t, x, s) ==
  [prio |-> s.prio, slice |-> s.slice, kind |-> s.kind,
   prefer |-> IF s.prefer # NoPrefer THEN s.prefer
              ELSE IF s.kind = FastestKind THEN FastPrefer
              ELSE IF s.kind = SlowestKind THEN SlowPrefer ELSE NoPrefer]

Applied(t, x, s) ==
  LET kind == IF Cardinality(allowed[t]) = Cardinality(Cpus) THEN s.kind ELSE x.kind
      derived == IF kind = FastestKind THEN FastPrefer
                 ELSE IF kind = SlowestKind THEN SlowPrefer ELSE NoPrefer
  IN  [prio |-> s.prio, slice |-> s.slice, kind |-> kind,
       prefer |-> IF s.prefer = NoPrefer THEN derived ELSE s.prefer]

(* the context of t after stopping, and the entry it leaves behind *)
AfterStopping(t, x) ==
  IF x # None /\ update_map[t] # None THEN Applied(t, x, update_map[t]) ELSE x

Stopping(t, x) ==
  /\ ctx' = [ctx EXCEPT ![t] = AfterStopping(t, x)]
  /\ update_map' = [update_map EXCEPT ![t] = IF x = None THEN @ ELSE None]

(* The running task blocks: stopping(p, FALSE), and the CPU schedules. *)
Block(c) ==
  LET t == curr[c]
  IN  /\ t # None /\ walk[c] = None
      /\ \E x \in Storage(t) : Stopping(t, x)
      /\ where' = [where EXCEPT ![t] = "asleep"]
      /\ curr' = [curr EXCEPT ![c] = None]
      /\ walk' = [walk EXCEPT ![c] = 0]
      /\ UNCHANGED <<allowed, home, verdict, slice, dsq, local, idle, resched>>

(* A higher scheduling class takes the CPU while slice is left (external):  *)
(* stopping(p, TRUE), and the task waits at the head of the local DSQ.      *)
Preempt(c) ==
  LET t == curr[c]
  IN  /\ t # None /\ walk[c] = None
      /\ \E x \in Storage(t) : Stopping(t, x)
      /\ where' = [where EXCEPT ![t] = "local"]
      /\ curr' = [curr EXCEPT ![c] = None]
      /\ local' = [local EXCEPT ![c] = <<t>> \o @]
      /\ walk' = [walk EXCEPT ![c] = 0]
      /\ UNCHANGED <<allowed, home, verdict, slice, dsq, idle, resched>>

(* The slice of the running task is used up: the CPU schedules. *)
SliceEnd(c) ==
  /\ curr[c] # None /\ walk[c] = None
  /\ walk' = [walk EXCEPT ![c] = 0]
  /\ UNCHANGED <<ctx, update_map, allowed, home, where, verdict, slice, dsq,
                 local, curr, idle, resched>>

(* An idle CPU that was told to reschedule does so. *)
Resched(c) ==
  /\ c \in resched /\ walk[c] = None
  /\ resched' = resched \ {c}
  /\ walk' = [walk EXCEPT ![c] = 0]
  /\ UNCHANGED <<ctx, update_map, allowed, home, where, verdict, slice, dsq,
                 local, curr, idle>>

(***************************************************************************)
(* schedule(): if the local DSQ is empty, teddy_dispatch walks the DSQs -- *)
(* priorities from 0, and in each the shared slot before the slot of this  *)
(* CPU's kind -- one scx_bpf_dsq_move_to_local a step, so that insertions  *)
(* and the walks of other CPUs interleave with it.                         *)
(***************************************************************************)
(* slips: the shared slot is skipped, or comes after the kind's; the loop   *)
(* ends one priority early, or begins one late                              *)
WalkDsqKindFirst(c, i) == DsqId(i \div 2, IF i % 2 = 0 THEN KindOf[c] ELSE 0)
WalkDsqKindOnly(c, i) == DsqId(i \div 2, KindOf[c])
WalkDsqStopsEarly(c, i) ==
  DsqId(IF i \div 2 = PriorityNum - 1 THEN 0 ELSE i \div 2,
        IF i % 2 = 0 THEN 0 ELSE KindOf[c])

WalkDsqStartsLate(c, i) ==
  DsqId(IF i \div 2 = 0 THEN PriorityNum - 1 ELSE i \div 2,
        IF i % 2 = 0 THEN 0 ELSE KindOf[c])

(* the DSQ the walk of CPU c looks at in step i *)
WalkDsq(c, i) == DsqId(i \div 2, IF i % 2 = 0 THEN 0 ELSE KindOf[c])

(* the tasks of DSQ q that may run on c; move_to_local takes the first one *)
Takable(c, q) == {i \in DOMAIN dsq[q] : c \in allowed[dsq[q][i]]}

Dispatch(c) ==
  /\ walk[c] # None /\ walk[c] < 2 * PriorityNum
  /\ local[c] = <<>>
  /\ LET q == WalkDsq(c, walk[c])
     IN  \/ /\ Takable(c, q) = {}
            /\ walk' = [walk EXCEPT ![c] = @ + 1]
            /\ UNCHANGED <<dsq, local, where, home>>
         \/ \E i \in Takable(c, q) :
              /\ \A j \in Takable(c, q) : i <= j
              /\ dsq' = [dsq EXCEPT ![q] = RemoveAt(@, i)]
              /\ local' = [local EXCEPT ![c] = <<dsq[q][i]>>]
              /\ where' = [where EXCEPT ![dsq[q][i]] = "local"]
              /\ home' = [home EXCEPT ![dsq[q][i]] = c]
              /\ UNCHANGED walk
  /\ UNCHANGED <<ctx, update_map, allowed, verdict, slice, curr, idle, resched>>

(* The CPU switches to the head of its local DSQ; a task that was running   *)
(* is put back: stopping(p, TRUE), then teddy_enqueue.                      *)
SwitchTo(c) ==
  LET t == Head(local[c])
      prev == curr[c]
  IN  /\ walk[c] # None /\ local[c] # <<>>
      /\ local' = [local EXCEPT ![c] = Tail(@)]
      /\ curr' = [curr EXCEPT ![c] = t]
      /\ idle' = idle \ {c}
      /\ walk' = [walk EXCEPT ![c] = None]
      /\ \/ /\ prev = None
            /\ where' = [where EXCEPT ![t] = "running"]
            /\ UNCHANGED <<ctx, update_map, slice, dsq>>
         \/ /\ prev # None
            /\ \E x \in Storage(prev) :
                 LET y == AfterStopping(prev, x)
                 IN  /\ Stopping(prev, x)
                     /\ dsq' = [dsq EXCEPT ![QueueOf(y)] = Append(@, prev)]
                     /\ slice' = [slice EXCEPT ![prev] = SliceOf(y)]
            /\ where' = [where EXCEPT ![t] = "running", ![prev] = "dsq"]
      /\ UNCHANGED <<allowed, home, verdict, resched>>

(* Nothing found: a task that only used up its slice keeps the CPU,         *)
(* otherwise the CPU goes idle and enters the idle mask.                    *)
NothingFound(c) ==
  /\ walk[c] = 2 * PriorityNum
  /\ local[c] = <<>>
  /\ walk' = [walk EXCEPT ![c] = None]
  /\ idle' = IF curr[c] = None THEN idle \cup {c} ELSE idle
  /\ UNCHANGED <<ctx, update_map, allowed, home, where, verdict, slice, dsq,
                 local, curr, resched>>

(***************************************************************************)
(* The environment: userspace classifies a task (write_sched_info), and    *)
(* sched_setaffinity changes where a sleeping or a queued task may run; a  *)
(* queued task is dequeued and goes through teddy_enqueue again (external).*)
(***************************************************************************)
WriteSchedInfo(t, s) ==
  /\ update_map' = [update_map EXCEPT ![t] = s]
  /\ UNCHANGED <<ctx, allowed, home, where, verdict, slice, dsq, local, curr,
                 idle, resched, walk>>

SetAffinityAsleep(t, a) ==
  /\ where[t] = "asleep"
  /\ allowed' = [allowed EXCEPT ![t] = a]
  /\ UNCHANGED <<ctx, update_map, home, where, verdict, slice, dsq, local, curr,
                 idle, resched, walk>>

SetAffinityQueued(t, a) ==
  /\ where[t] = "dsq"
  /\ allowed' = [allowed EXCEPT ![t] = a]
  /\ \E q \in DsqIds, x \in Storage(t) : \E i \in DOMAIN dsq[q] :
       /\ dsq[q][i] = t
       /\ LET out == [dsq EXCEPT ![q] = RemoveAt(@, i)]
          IN  dsq' = [out EXCEPT ![QueueOf(x)] = Append(@, t)]
       /\ ctx' = [ctx EXCEPT ![t] = x]
       /\ slice' = [slice EXCEPT ![t] = SliceOf(x)]
  /\ \E h \in (IF home[t] \in a THEN {home[t]} ELSE a) :
       /\ walk[h] = None
       /\ home' = [home EXCEPT ![t] = h]
       /\ Kick(h)
  /\ UNCHANGED <<update_map, where, verdict, local, curr, idle, walk>>

SetAffinity(t, a) ==
  /\ a # allowed[t]
  /\ SetAffinityAsleep(t, a) \/ SetAffinityQueued(t, a)

KernelNext ==
  \/ \E t \in Tasks : SelectCpu(t) \/ WakeBound(t) \/ Wake(t)
  \/ \E c \in Cpus : \/ Block(c) \/ Preempt(c) \/ SliceEnd(c) \/ Resched(c)
                     \/ Dispatch(c) \/ SwitchTo(c) \/ NothingFound(c)
  \/ \E t \in Tasks, s \in Settings : WriteSchedInfo(t, s)

Next == KernelNext \/ \E t \in Tasks, a \in Affinities : SetAffinity(t, a)

(* Affinities chosen once, before the tasks run *)
StaticSpec == Init /\ [][KernelNext]_vars
Spec       == Init /\ [][Next]_vars

(***************************************************************************)
(* Fairness: a CPU that entered schedule() leaves it, an idle CPU that was *)
(* told to reschedule does, and the timer tick ends the slice of a task    *)
(* that keeps the CPU -- strongly fair, because a preemption in between    *)
(* does not refill the slice.  Nothing makes a task block or wake.         *)
(***************************************************************************)
Fairness ==
  \A c \in Cpus : /\ WF_vars(Resched(c)) /\ WF_vars(Dispatch(c))
                  /\ WF_vars(SwitchTo(c)) /\ WF_vars(NothingFound(c))
                  /\ SF_vars(SliceEnd(c))

FairSpec == StaticSpec /\ Fairness

-----------------------------------------------------------------------------
(* Every task is in exactly one place, once, and a queued task is in the    *)
(* DSQ its context names: an insertion of select_cpu is never repeated by   *)
(* enqueue, and no step applies a setting to a task that waits in a DSQ.    *)
PlacedOnce ==
  /\ \A q \in DsqIds :
       /\ IsInjective(dsq[q])
       /\ ToSet(dsq[q]) = {t \in Tasks : where[t] = "dsq" /\ QueueOf(ctx[t]) = q}
  /\ \A c \in Cpus :
       /\ IsInjective(local[c])
       /\ ToSet(local[c]) = {t \in Tasks : where[t] = "local" /\ home[t] = c}
       /\ {curr[c]} \ {None} = {t \in Tasks : where[t] = "running" /\ home[t] = c}

(* select_cpu, enqueue and dispatch never send a task to a CPU outside its  *)
(* affinity: sched_ext aborts a scheduler that does.                        *)
AffinityRespected ==
  \A t \in Tasks :
    /\ where[t] \in {"local", "running"} => home[t] \in allowed[t]
    /\ verdict[t].cpu # None => verdict[t].cpu \in allowed[t]

(* A CPU claimed by test_and_clear_cpu_idle is not lost: while it stays     *)
(* idle outside the idle mask, the task that claimed it is on its way or    *)
(* the CPU is about to look for work.                                       *)
ClaimedCpuGetsTask ==
  \A c \in Cpus :
    curr[c] = None /\ walk[c] = None /\ c \notin idle
      => c \in resched \/ \E t \in Tasks : where[t] = "waking" /\ verdict[t].cpu = c

(* CPU c will look at the DSQs again, or still has slot i of its walk ahead *)
Attends(c, i) ==
  \/ curr[c] # None /\ walk[c] = None
  \/ walk[c] # None /\ walk[c] <= i
  \/ walk[c] # None /\ curr[c] # None
  \/ local[c] # <<>>
  \/ c \in resched

(* No wakeup is lost on a shared DSQ: the run queue of a task waiting in a  *)
(* shared DSQ may serve it and is running, resched, or in a dispatch walk   *)
(* that has not passed the task's DSQ, so it never parks and forgets it.    *)
InSharedDsq(t) == where[t] = "dsq" /\ (ctx[t] = None \/ ctx[t].kind = 0)
PrioOf(x) == IF x = None THEN DefaultPrio ELSE x.prio
SharedTaskAttended ==
  \A t \in Tasks :
    InSharedDsq(t) => home[t] \in allowed[t] /\ Attends(home[t], 2 * PrioOf(ctx[t]))

(* What select_cpu asked for is still right when the wakeup completes: the  *)
(* claimed CPU is the task's run queue and fits its affinity and kind, the  *)
(* queue is the one of its context.                                         *)
WakeConsistent ==
  \A t \in Tasks :
    /\ where[t] # "waking" => verdict[t] = NoVerdict
    /\ where[t] # "asleep" => home[t] \in allowed[t]
    /\ verdict[t].cpu # None
         => /\ verdict[t].q = None /\ verdict[t].cpu = home[t]
            /\ ctx[t] # None /\ ctx[t].kind \in {0, KindOf[home[t]]}
    /\ verdict[t].q # None => verdict[t].q = QueueOf(ctx[t])

(* The inductive invariant of the proofs *)
SchedInv ==
  TypeOK /\ PlacedOnce /\ WakeConsistent /\ ClaimedCpuGetsTask /\ SharedTaskAttended

(* What the watchdog would report as a stall nobody caused: the machine is  *)
(* idle, no wakeup is under way, and a task waits in a DSQ.                 *)
NoStallWithoutHog ==
  (\E t \in Tasks : where[t] = "dsq")
    => \/ \E c \in Cpus : curr[c] # None \/ walk[c] # None \/ c \in resched
       \/ \E t \in Tasks : where[t] = "waking"

(* No CPU the task may use looks at the DSQ of its kind *)
Stranded(t) == ctx[t] # None /\ \A c \in allowed[t] : ctx[t].kind \notin {0, KindOf[c]}

(* A queued task can be pulled by some CPU it is allowed on: a task bound   *)
(* to some CPUs is not left in a kind-only DSQ none of them looks at.       *)
Servable == \A t \in Tasks : where[t] = "dsq" => ~Stranded(t)

(* A setting never strands its task: stopping applies a kind only to a task *)
(* that may use every CPU, and every kind has one.  What does is a change   *)
(* of the affinity, after which nobody looks at the kind again.             *)
StrandedByAffinityOnly ==
  [][\A t \in Tasks : Stranded(t)' /\ ~Stranded(t) => allowed'[t] # allowed[t]]_vars

(* A task only enters the local DSQ of a CPU of its kind, whether by a      *)
(* claim of select_cpu or by dispatch; the one exception is the kernel's    *)
(* own put-back of a preempted task.                                        *)
PlacementFits ==
  [][\A t \in Tasks :
       where[t] \in {"waking", "dsq"} /\ where'[t] = "local" /\ ctx[t] # None
         => ctx[t].kind \in {0, KindOf[home'[t]]}]_vars

(* The strict priority order does not starve its own top: a task in the     *)
(* shared DSQ of priority 0 eventually runs, whatever the others do.        *)
TopPrioRuns ==
  \A t \in Tasks :
    (where[t] = "dsq" /\ ctx[t] # None /\ ctx[t].prio = 0 /\ ctx[t].kind = 0)
      ~> where[t] = "running"

=============================================================================
