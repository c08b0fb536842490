------------------------------ MODULE Sampler ------------------------------
(***************************************************************************)
(* The sampler of the Overall tab (gui/sys_metrics.py, gui/tabs/           *)
(* overall.py): rates as differences between two readings of the counters  *)
(* in /proc, while CPUs go off- and online and threads come and go.        *)
(*                                                                         *)
(* /proc/stat is read in one go; then the threads are visited one by one,  *)
(* and the machine runs on meanwhile.  A thread whose name is no UTF-8     *)
(* (the kernel cuts names after 15 bytes) ends the sample: read_text       *)
(* raises what nobody catches.  The unit of time is the jiffy: in each,    *)
(* every online CPU runs one thread or none; one that runs a guest is busy, *)
(* and counts the jiffy in two fields.  The machine and its /proc are      *)
(* external.                                                               *)
(***************************************************************************)
EXTENDS Integers, Sequences, FiniteSets

CONSTANTS CpuCount,  \* the CPUs are 1 .. CpuCount
          Tids,
          Worlds     \* bounds, of which a behaviour has one: see World

CpuIds == 1 .. CpuCount

(* the jiffies, the times a CPU goes off- or online, the tids in use, the    *)
(* threads that use one of them, one after the other, whether some threads  *)
(* have names that cannot be read, and whether some are virtual CPUs        *)
World == [jiffies : Nat, plugs : Nat, tids : SUBSET Tids, lives : Nat \ {0},
          odd : BOOLEAN, vm : BOOLEAN]

ASSUME SamplerAssumption ==
  CpuCount \in Nat \ {0} /\ IsFiniteSet(Tids) /\ Worlds \subseteq World

VARIABLES
  world,    \* see World
  time,     \* time.monotonic(), in jiffies; it does not begin at 0
  online,   \* the CPUs that are online
  cpu,      \* the fields of every CPU's line in /proc/stat
  life,     \* how many threads have used a tid
  alive,    \* the tids in use
  used,     \* utime + stime of the thread of a tid
  plugs,    \* how often a CPU has gone off- or online
  prevCpu,  \* _prev_cpu: the aggregate, then a line per online CPU
  prevTask, \* _prev_task
  prevWall, \* _prev_wall
  wallDt,   \* wall_dt
  todo,     \* the tids the scan has yet to visit
  newTask,  \* new_task_ticks
  rows,     \* d_jiffies of each row
  bars,     \* cpu_total and per_cpu: busy jiffies of all
  scanning, \* a sample is under way
  since,    \* history: see Since
  visits    \* history: see Visits

machineVars == <<world, time, online, cpu, life, alive, used, plugs>>
samplerVars == <<prevCpu, prevTask, prevWall, wallDt, todo, newTask, rows, bars,
                 scanning>>
overallVars == <<machineVars, samplerVars, since, visits>>

(* user to steal without idle and iowait; these two; guest and guest_nice,   *)
(* whose jiffies are in user and nice as well                               *)
StatLine == [busy : Nat, idle : Nat, guest : Nat]

(* of all, the busy ones, and of these the ones of a guest *)
Jiffies == [busy : Nat, all : Nat, guest : Nat]
NoJiffies == [busy |-> 0, all |-> 0, guest |-> 0]

(* what has passed on every CPU since /proc/stat was read, and which CPUs    *)
(* were online then                                                         *)
Since == [cpu : [CpuIds -> Jiffies], online : SUBSET CpuIds]

(* by this scan, and by the last one that came to its end: the thread it met *)
(* under each tid (0 if none) and the jiffies a thread of the tid has used  *)
(* since; and whether the last scan came to its end                         *)
Visits(lives) ==
  LET Met == [Tids -> [life : 0 .. lives, used : Nat]]
  IN  [now : Met, before : Met, ended : BOOLEAN]

OverallTypeOK ==
  /\ world \in Worlds /\ time \in 1 .. 1 + world.jiffies /\ online \in (SUBSET CpuIds) \ {{}}
  /\ cpu \in [CpuIds -> StatLine]
  /\ life \in [Tids -> 0 .. world.lives] /\ alive \in SUBSET Tids
  /\ used \in [Tids -> Nat] /\ plugs \in 0 .. world.plugs
  /\ prevCpu \in Seq([total : Nat, idle : Nat])
  /\ DOMAIN prevTask \subseteq Tids /\ DOMAIN newTask \subseteq Tids
  /\ DOMAIN rows = DOMAIN newTask /\ todo \subseteq Tids \ DOMAIN rows
  /\ prevWall \in 0 .. time /\ wallDt \in 0 .. time
  /\ scanning \in BOOLEAN /\ (~scanning => todo = {})
  /\ since \in Since /\ visits \in Visits(world.lives)

-----------------------------------------------------------------------------
(* The machine. *)

Plus(b) == IF b THEN 1 ELSE 0

(* A jiffy passes.  The threads in ran have run, each on a CPU of its own. *)
Tick(ran) ==
  /\ time <= world.jiffies /\ time' = time + 1
  /\ Cardinality(ran) <= Cardinality(online)
  /\ used' = [t \in Tids |-> used[t] + Plus(t \in ran)]
  /\ \E busy \in SUBSET online : \E guests \in SUBSET busy :
       /\ Cardinality(busy) = Cardinality(ran) /\ (world.vm \/ guests = {})
       /\ cpu' = [c \in CpuIds |->
                    [busy |-> cpu[c].busy + Plus(c \in busy),
                     idle |-> cpu[c].idle + Plus(c \in online \ busy),
                     guest |-> cpu[c].guest + Plus(c \in guests)]]
       /\ since' = [since EXCEPT
            !.cpu = [c \in CpuIds |-> [busy |-> @[c].busy + Plus(c \in busy),
                                      all |-> @[c].all + Plus(c \in online),
                                      guest |-> @[c].guest + Plus(c \in guests)]]]
  /\ LET Ran(met) == [t \in Tids |-> [met[t] EXCEPT !.used = @ + Plus(t \in ran)]]
     IN  visits' = [visits EXCEPT !.now = Ran(@), !.before = Ran(@)]
  /\ UNCHANGED <<world, online, life, alive, plugs, samplerVars>>

Plug(c) ==
  /\ plugs < world.plugs /\ plugs' = plugs + 1
  /\ online' = IF c \in online THEN online \ {c} ELSE online \cup {c}
  /\ online' # {}
  /\ UNCHANGED <<world, time, cpu, life, alive, used, samplerVars, since, visits>>

Exit(t) ==
  /\ t \in alive /\ alive' = alive \ {t}
  /\ UNCHANGED <<world, time, online, cpu, life, used, plugs, samplerVars, since, visits>>

(* a new thread, under a tid that was never used or is free again *)
Fork(t) ==
  /\ t \in world.tids \ alive /\ life[t] < world.lives
  /\ alive' = alive \cup {t}
  /\ life' = [life EXCEPT ![t] = @ + 1] /\ used' = [used EXCEPT ![t] = 0]
  /\ visits' = [visits EXCEPT !.now[t].used = 0, !.before[t].used = 0]
  /\ UNCHANGED <<world, time, online, cpu, plugs, samplerVars, since>>

InOrder(cpus) ==
  CHOOSE f \in [1 .. Cardinality(cpus) -> cpus] : \A i, j \in DOMAIN f : i < j => f[i] < f[j]

(* the sum over all CPUs *)
Total(f) ==
  LET upto[c \in 0 .. CpuCount] == IF c = 0 THEN 0 ELSE upto[c - 1] + f[c]
  IN  upto[CpuCount]

Sums(fields) ==
  [busy |-> Total([c \in CpuIds |-> fields[c].busy]),
   idle |-> Total([c \in CpuIds |-> fields[c].idle]),
   guest |-> Total([c \in CpuIds |-> fields[c].guest])]

(* total = sum(fields): all of them, a guest's jiffies a second time *)
CpuTicks(f) == [total |-> f.busy + f.idle + f.guest, idle |-> f.idle]

(* _read_proc_stat: the sum over all CPUs, then the online ones.  That of    *)
(* CPU n is at n + 1 only if all the CPUs below n are online.               *)
Lines ==
  [i \in 1 .. Cardinality(online) + 1 |->
     CpuTicks(IF i = 1 THEN Sums(cpu) ELSE cpu[InOrder(online)[i - 1]])]

-----------------------------------------------------------------------------
(* The sampler. *)
AtLeast(a, b) == IF a < b THEN b ELSE a
AtMost(a, b)  == IF a > b THEN b ELSE a

Nothing == [busy |-> 0, all |-> 1]
NoVisit == [t \in Tids |-> [life |-> 0, used |-> 0]]

(* slip: the counters are compared with nothing *)
DeltaSinceBoot(prev, now) == [busy |-> now.total - now.idle, all |-> now.total]

(* _delta_pct, as a fraction *)
Delta(prev, now) ==
  LET all == now.total - prev.total
      busy == all - (now.idle - prev.idle)
  IN  IF all <= 0 THEN Nothing
      ELSE [busy |-> AtLeast(AtMost(busy, all), 0), all |-> all]

(* sample(): the time and the lines of /proc/stat *)
BeginSample ==
  /\ ~scanning /\ scanning' = TRUE
  /\ wallDt' = (IF prevWall = 0 THEN 0 ELSE time - prevWall) /\ prevWall' = time
  /\ bars' = [i \in 1 .. (IF prevCpu = << >> THEN Len(Lines)
                          ELSE AtMost(Len(prevCpu), Len(Lines))) |->
                IF prevCpu = << >> THEN Nothing ELSE Delta(prevCpu[i], Lines[i])]
  /\ prevCpu' = Lines
  /\ todo' = world.tids /\ newTask' = << >> /\ rows' = << >>
  /\ since' = [online |-> online, cpu |-> [c \in CpuIds |-> NoJiffies]]
  /\ visits' = [visits EXCEPT !.now = NoVisit]
  /\ UNCHANGED <<machineVars, prevTask>>

(* slip: a tid that is used again counts backwards *)
UsedUnclamped(t) == IF t \in DOMAIN prevTask THEN used[t] - prevTask[t] ELSE 0

(* d_jiffies: none if the last scan has not seen the tid *)
Used(t) == IF t \in DOMAIN prevTask THEN AtLeast(used[t] - prevTask[t], 0) ELSE 0

With(entries, t, ticks) ==
  [u \in DOMAIN entries \cup {t} |-> IF u = t THEN ticks ELSE entries[u]]

(* the scan comes to a tid; it may be gone *)
Visit(t) ==
  /\ t \in todo /\ todo' = todo \ {t}
  /\ IF t \in alive
     THEN /\ newTask' = With(newTask, t, used[t])
          /\ rows' = With(rows, t, Used(t))
          /\ visits' = [visits EXCEPT !.now[t] = [life |-> life[t], used |-> 0]]
     ELSE UNCHANGED <<newTask, rows, visits>>
  /\ UNCHANGED <<machineVars, prevCpu, prevTask, prevWall, wallDt, bars, scanning, since>>

NoSnapshot ==
  /\ scanning' = FALSE /\ todo' = {}
  /\ newTask' = << >> /\ rows' = << >> /\ bars' = << >> /\ wallDt' = 0

(* ... to one whose name cannot be read: the CPUs and the time have been     *)
(* noted, the threads have not                                              *)
VisitRaises(t) ==
  /\ world.odd /\ t \in todo \cap alive
  /\ NoSnapshot /\ visits' = [visits EXCEPT !.now = NoVisit, !.ended = FALSE]
  /\ UNCHANGED <<machineVars, prevCpu, prevTask, prevWall, since>>

(* ... the snapshot is rendered *)
EndSample ==
  /\ scanning /\ todo = {}
  /\ prevTask' = newTask
  /\ NoSnapshot
  /\ visits' = [now |-> NoVisit, before |-> visits.now, ended |-> TRUE]
  /\ UNCHANGED <<machineVars, prevCpu, prevWall, since>>

OverallInit ==
  /\ world \in Worlds /\ time = 1 /\ online = CpuIds /\ plugs = 0
  /\ cpu = [c \in CpuIds |-> [busy |-> 0, idle |-> 0, guest |-> 0]]
  /\ alive \in SUBSET world.tids /\ life = [t \in Tids |-> IF t \in alive THEN 1 ELSE 0]
  /\ used = [t \in Tids |-> 0]
  /\ prevCpu = << >> /\ prevTask = << >> /\ prevWall = 0 /\ wallDt = 0
  /\ todo = {} /\ newTask = << >> /\ rows = << >> /\ bars = << >>
  /\ scanning = FALSE
  /\ since = [cpu |-> [c \in CpuIds |-> NoJiffies], online |-> {}]
  /\ visits = [now |-> NoVisit, before |-> NoVisit, ended |-> TRUE]

OverallNext ==
  \/ \E ran \in SUBSET alive : Tick(ran)
  \/ \E c \in CpuIds : Plug(c)
  \/ \E t \in Tids : Exit(t) \/ Fork(t) \/ Visit(t) \/ VisitRaises(t)
  \/ BeginSample \/ EndSample

OverallSpec == OverallInit /\ [][OverallNext]_overallVars

-----------------------------------------------------------------------------
(* A thread that is met by a scan, and was by the last one that came to its  *)
(* end, is given the jiffies it used between the two visits; a thread that  *)
(* got the tid of another one is given no more than it used, and none less  *)
(* than nothing.  The rates are these jiffies over the time between the     *)
(* beginnings of two samples ("fraction of one core"): unless the last one  *)
(* failed a thread cannot have used more, but for what it does while the    *)
(* scan is on its way to it.                                                *)
RowsTrue ==
  [][\A t \in DOMAIN rows' \ DOMAIN rows :
       LET met == visits.before[t]
       IN  /\ rows'[t] \in 0 .. met.used
           /\ met.life = life[t] => rows'[t] = met.used
           /\ visits.ended => rows'[t] <= wallDt + (time - prevWall)]_overallVars

(* The first bar is of the machine between two samples, the others are of    *)
(* the CPUs that are online, from the lowest number up, as long as these    *)
(* are the same ones.  A bar is the share that was busy if no guest ran.    *)
(* The jiffies of a guest count twice, as busy ones and as ones that        *)
(* passed: then the bar is higher than that, and it is full only if there   *)
(* was no idle jiffy.  No bar is below 0 or above 100 %, come what may.     *)
Counted(j) == [busy |-> j.busy + j.guest, all |-> j.all + j.guest]
BarOf(j)   == IF Counted(j).all = 0 THEN Nothing ELSE Counted(j)

TotalSince ==
  [busy |-> Total([c \in CpuIds |-> since.cpu[c].busy]),
   all |-> Total([c \in CpuIds |-> since.cpu[c].all]),
   guest |-> Total([c \in CpuIds |-> since.cpu[c].guest])]
BarsTrue ==
  [][BeginSample /\ prevCpu # << >> =>
       /\ \A i \in DOMAIN bars' : bars'[i].busy \in 0 .. bars'[i].all
       /\ bars'[1] = BarOf(TotalSince)
       /\ online = since.online =>
            /\ Len(bars') = 1 + Cardinality(online)
            /\ \A i \in 1 .. Cardinality(online) :
                 bars'[i + 1] = BarOf(since.cpu[InOrder(online)[i]])]_overallVars
=============================================================================
