# scx_teddy in TLA+

scx_teddy is a Linux `sched_ext` scheduler.  Its BPF half schedules tasks from
per-priority dispatch queues and measures how they behave; its userspace half
predicts a behaviour cluster for each task and writes a priority, a slice, a
CPU kind and a CPU preference back.  A *specialization target* (one process and
its descendants) may have a model and a configuration of its own, chosen while
the scheduler runs through three control files.  This directory models that
machinery, checks it with TLC and proves the main results with TLAPS.

Paths below are relative to the repository; `main.bpf.c`, `intf.h`, `main.rs`,
`task_stats.rs` and `topology.rs` are under `scx_teddy/src/`.

## 1. Inventory

| Component | State | Operations | Correct when |
|---|---|---|---|
| BPF scheduler (`main.bpf.c`, `intf.h`) | `task_ctx` (prio, kind, preference, slice, counters), `update_map`, DSQs, local queues, idle mask | `select_cpu`, `enqueue`, `dispatch`, `stopping`, `exit_task`, `init` | every runnable task is in one place; affinity and kind are respected; no claimed CPU and no queued task is forgotten |
| Event pipe (`main.bpf.c`, `main.rs`, `task_stats.rs`) | counters per task, ring buffer, pause flag, `update_map`, `stats_map` | `try_data_to_user`, `process_event`, `run_classify_cycle`, `write_sched_info` | no event is counted twice or lost from a living task; a setting is only predicted from enough events; the exit of the target is heard |
| Target family (`main.rs`, `task_stats.rs`) | per entry `real_ppid`, `ancestor`, `last_target` | first event, `climb_one_step`, `climb_to_root`, restart on a new target | an entry is rooted at the target exactly if it descends from it; the climb ends and never goes through itself |
| Control files (`main.rs`, `gui/scx_runner.py`, `gui/tabs/_target.py`) | `control_ppid`, `control_model`, `control_config`; `target_ppid`, the target set, the paths last seen | create, poll, remove; `write_control` | a stale file is never acted on; a set in use is only dropped on request; the scheduler follows the files |
| Target finder (`target_finder_helper/game_task_finder.py`) | the pid it found | `scan_once`, `publish`, interrupt handler | the file names the present family, and 0 when the scanner has ended |
| Statistics and features (`task_stats.rs`, counters of `main.bpf.c`) | time stamps, sums and sums of squares, sleep and futex times | `runnable`, `running`, `stopping`, `update`, `take_features` | every interval is counted once; the features are those of the counted events |
| Topology (`topology.rs`, `pack_topology`, `gui/sys_topology.py`) | CPUs by kind and speed, on both sides | `discover` (twice), fallback, pack | the two scans agree; every CPU with a kind is in the order lists once |
| Policy configuration (`main.rs` `load_sched_set`, `validate_config_kinds`, `compute_slice_ns`; `gui/tabs/_config_editor.py`) | the editor's table and its signature, the files, the sets in force | seed, edit, save, start, apply; load, validate, look up | what is in force is what the row on the screen said; every setting can be carried out on this machine |
| Classifier (`classifier.rs`) | scaler, centroids | `standardize`, `predict` | numeric |
| Training (`train.py`) | the CSV, a filtered copy beside it, the model | filter, cluster, write | a model comes from a whole CSV |
| GUI runner and tabs (`gui/`) | process handles, session state, the data directory | launch, stop, apply, clear, list, copy, show the snapshot | a run uses what was on the screen; no CSV is overwritten or lost; the rows shown are of the running scheduler |
| System metrics (`gui/sys_metrics.py`, `gui/tabs/overall.py`) | the last sample: CPU lines, ticks per thread, the time | `sample` | rates are differences of two samples of the same counter |

How they interact.  The BPF callbacks run on every CPU under the run-queue
locks of the kernel; `select_cpu` runs before that lock is taken.  BPF and
userspace share three maps (`update_map`, the configuration array, the ring)
without locks.  Userspace is one thread: poll the control files, run a cycle
with the ring paused, poll the ring.  The control files are shared with two
other programs, the GUI and a scanner, each of which writes them in its own way.
The GUI starts `scx_teddy` and `train.py` as programs of their own and shares
files with them that are named after the second they were made in.

What is hard: wakeups against CPUs that go idle; settings and affinities that
change while a task waits; a paused or full ring when a task exits; tids that are
used again; a process tree that changes under a climb; several writers
and one reader of three files without a lock; programs that outlive the session
that started them, and files deleted under them; a page that is run again from
the top at every click while files and models change behind it; times that are
stamped in one callback and counted in another; counters read while they run on.  `hazards` in `PROJECT.json` lists
each at its line.

## 2. Modules

| Module | Models | Uses |
|---|---|---|
| `TeddySched` | the scheduling callbacks and the part of the sched_ext core that calls them | |
| `PriorityOrder` | the order in which the CPUs of `TeddySched` pick their tasks | `TeddySched` |
| `EventPipe` | counters, ring, pause, statistics, cycle, update map, exits and reuse of tids | `EventLog` |
| `EventLog` | abstract: an event is made, then seen once, or lost with its task | |
| `Ancestry` | process tree, ancestor pointers, classify cycle, CSV | |
| `Control` | life of a run, control files, scanner, GUI | |
| `Runner` | the GUI as a launcher, the files of `scx_teddy` and `train.py`, the life of their processes | |
| `Topology` | the two scans of the CPUs and what each makes of them | |
| `ConfigEditor` | a configuration from the editor's table to the set in force | `Topology`, `Enforcement` |
| `Enforcement` | abstract: a scheduler that enforces sound policies, the default one for a whole run | |
| `Sampler` | the sampler of the Overall tab, and the machine it reads | |
| `Accounting` | the times of one thread, from the callbacks to the statistics | |
| `MCTeddySched`, `MCPriorityOrder`, `MCEventPipe`, `MCAncestry`, `MCControl`, `MCRunner`, `MCAccounting` | the instances for TLC | |
| `MCSession` | a session of the GUI: the instance of `ConfigEditor` and `Sampler` | both |
| `TeddySched_proofs` (with those of `PriorityOrder`), `EventPipe_proofs`, `Ancestry_proofs`, `Control_proofs`, `Runner_proofs`, `ConfigEditor_proofs` (with those of `Topology`), `Accounting_proofs`, `Sampler_proofs` | theorems | |

`map` in `PROJECT.json` gives the lines of every definition.  A definition whose
comment begins with *slip* is a plausible mistake in the definition after it; no
specification uses it.  Each is the mutation under which a property must fail.

### TeddySched

A task is asleep, waking, in a DSQ, in a local queue or running (`where`), with a
run queue (`home`).  `SelectCpu` is `teddy_select_cpu`: it inserts into the task's
DSQ (`SelectQueue`), claims an idle CPU and dispatches to it (`SelectIdle`), or
decides nothing (`SelectNone`), and leaves a `verdict`; `Wake` completes the
wakeup later under the run-queue lock, with `teddy_enqueue` if nothing was
inserted.  Between the two, other CPUs, settings and `sched_setaffinity` may act.
`Dispatch` is one step of the priority walk of `teddy_dispatch`, so another
CPU's insertion can fall between two steps.  `Stopping` applies and deletes the
update entry.  `SliceEnd`, `Preempt`, `Block`, `Resched`, `SwitchTo` and
`NothingFound` are the kernel's side (external): a CPU that loses its task first
dispatches and only then puts the task back; an insertion into a DSQ wakes no
CPU, but a wakeup reschedules the task's own idle run queue.  A context may be missing when
`bpf_task_storage_get` fails.  Data: slices are small numbers, their passing is not
measured.

`StrandedByAffinityOnly` says who strands a task, that is, leaves it with a kind
that none of its CPUs has: never a setting, which `Stopping` applies only to a task that
may use every CPU, and only a later change of affinity.

### PriorityOrder

`teddy_dispatch` looks at the DSQs one after another, shared before kind-only,
most urgent priority first, while other CPUs insert and pull.  "The most
urgent task first" is therefore not true of the tasks there are when a CPU
pulls one; `PrioritiesRespected` claims it of those that were queued when the CPU
entered `schedule()` and have waited since.  `waited` is history: that set, per CPU.  A task
whose affinity changes is put back, and has not waited since.  `OrderNext`
is `Next` with the history recorded, so nothing it says depends on `waited`.

### EventPipe and EventLog

`Stop`, `Send`, `Lookup` and `Delete` are the steps of `teddy_stopping` that other
CPUs or userspace can see; `ExitTask` is `teddy_exit_task`.  `BeginCycle` pauses
the ring, `Visit` is one entry of `run_classify_cycle`, `EndCycle` ends it, and
`ProcessEvent`/`PollReturns` are `ringbuf.poll`.  A prediction is a choice among
`Settings`.  The eight counters that are sent and cleared together are one
number.  `SeedOwn` is what the main thread does for itself before the loop: it
writes its tid (`Own`) the setting `Seed` of priority 0, without an event, and from then on
`Visit` passes over `Own`.  `SettingEarned` says both of it and of all others: the main
thread has its seed and never another setting, and what any other tid has was predicted
from enough events of the tid.  `MaxEvents` bounds the events of each tid.  `raced` is history: the tids whose setting was
written after `stopping` had looked the last one up; its deletion is the one that
loses a setting, and `EveryResultUsed` says that no other does.  `EventLog` promises that counts are made, then seen once, or lost with
their task; `ImplementsLog` instantiates it with `seen` = what the statistics know.

### Ancestry

`ppid` and `tgid` are the kernel's tree; `Fork`, `Clone` and `Exit` change it,
`Exit` with reparenting to the thread's leader, to init or to a subreaper above.
`up` is history: what a task descended from when it was forked.  `FirstSeen` is
`TaskStats::new`, `NextUp` is `climb_one_step` with its three sources (pointer,
`real_ppid`, `/proc`), `Visit` a classify step, `CollectStep` and `CollectRow` the
full climb for a CSV, `SelfBorrow` the step that would borrow the climbing entry a
second time and panic.  The constant `Worlds` lists the settings (mode,
checkpointing, threads, exits, how often a tid may be used) of which a
behaviour chooses one.

### Control

One run goes off, init (three files, one at a time), load, then around its loop
(`PollPpid`, `PollModel`, `PollConfig`, `HandleExit`), then removes the files one
at a time and detaches, or leaves the loop on an error with the files in place.
Only one run can be attached; one that cannot attach fails after it has created
the files.  The scanner scans, then publishes by renaming a temporary file; an
interrupt takes it to its handler, a second one out of the handler.  The GUI
writes with `tee`: it truncates, then writes, and when the file was replaced or
removed in between it writes to a file without a name.  Contents are a pid, a
path that can be used or cannot, or `Blank` (missing, empty, malformed).  `touched` is
history: the runs whose files the scanner or the GUI ("ppid", "set") or another
run ("rival") has written since they began; "somebody else wrote" is the exception of
`FreshStart` and `StartupTargetKept`, and a rival that of `DisturbedOnlyByTee`.

### Runner

A session has a handle per tab; `Reopen` forgets the handles and the programs run
on.  A file is named by its prefix and the second (`File`); its contents are a
table (a configuration), or who wrote it and whether it has all its rows.
`StartCollect`, `StartTrain`, `StartClassify`, `Apply`, `Stop` and the Clear buttons
are the handlers of the tabs.  A collect run checks that its output is new
(`CheckOutput`), attaches, writes checkpoints and at the end the CSV, each by
truncation (`CreateCsv`) and rows (`FinishCsv`).  A classify run loads its two
sets one after the other, then publishes its snapshot through a temporary file
(`Publish`, `Rename`).  `train.py` reads the CSV, passes it through a file
beside it, and writes the model.  SIGINT ends a run that does not handle it yet,
and sets a flag in one that does; `Kill` is `kill -9` or a crash at any point
of a loaded run.  `LeaveOnError` is every `?` of the loop and of what follows it: an
update of a BPF map, a CSV that cannot be created or written, and `ringbuf.poll`, which a
SIGINT that arrives during the poll interrupts.  Such a run writes no CSV any
more, or leaves half of one.  `asked`, `saved`, `killed`, `failed`, `wiped` and
`settled` are history.

Left out here: directories other than the data directory, saving a table over a chosen
file, copies, and two sessions open at once.  Reopening takes a second.  That
the SIGINT sent to `sudo` reaches `scx_teddy` is assumed, and the end of the
process is the moment it detaches.

### Topology

Operators only: `Groups` is `discover` of `sys_topology.py`, `Packed` is
`topology.rs` and `pack_topology` of `main.rs` with its casts to `u8` (`Byte`).
A machine is a frequency per CPU, 0 if it has none that can be read, and the
CPUs that are online, which count only when no frequency is known.  The names of
the groups are tuples, a word and for a tier its number.  `Sorted` is
`SetToSortSeq` of the community modules with its set of sequences spelled out as
functions, the form about which the provers can reason.

### ConfigEditor and Enforcement

The page is a script that runs from the top at every click and every tick of the
log (`Rerun`); between two runs only the session state lives (`ed`).  `Render` is
`render_model_and_config`: it seeds the table when the signature (source, file,
number of clusters) differs from the one in the session, and leaves it alone
otherwise.  `Choose...`, `EditCell`, `Save` and `SaveFails` are the widgets,
`Start`, `Apply`, `Clear` and `Stop` the buttons of the Classify tab.  The two
editors are rendered one after the other, so the second sees what the first has
saved.  The scheduler takes its sets in the steps `Load`, `Attach` and `Poll`;
models and files change at any time (`ModelChanged`, `FileWritten`).  A table is
kept with each set as history, as `saves` is kept for each file.

`Enforcement` promises that each policy in force gives every cluster at least
one CPU and the least slice, and that only the target's policy changes during a
run; `ImplementsEnforcement` gives it `Policy`, the lookup of
`run_classify_cycle` for every cluster.

How Streamlit's data editor stores the changed cells is external: an edit is one
cell.  A path in the control files stands for its contents; `Control` has the
files themselves and `Runner` the names.

### Sampler

`BeginSample` reads the time and `/proc/stat`, `Visit` is the scan at one thread,
`EndSample` keeps the new ticks; between any two of these the machine runs on
(`Tick`, `Plug`, `Fork`, `Exit`, external).  `VisitRaises` is a name that is no
UTF-8: the sample ends after the CPUs were noted, before the threads were.
A CPU has three counters (`StatLine`), the busy jiffies, the idle ones, and those of a
guest, which the kernel counts among the busy ones as well; `CpuTicks` adds up all three,
as `sum(fields)` does.  `BarsTrue` states what the bars are then, not what they should be.
`since` and `visits` are history, what really ran since a reading.

### Accounting

`Wake`, `Running`, `Stopping` and `FutexWait` are the callbacks, `Touch` any other
that may make the context, `Poll` and `Pause` the scheduler.  `UpdateEventData` and
`TryDataToUser` are the functions of that name, the clock is in ticks, and a sleep is
shifted and clamped (`Units`).  The counters that `EventPipe` treats as one
number are told apart here, and its exits and reuse are left out.  The sums of
squares and the iowait count go the same way as their neighbours and are left
out too.

### MCSession

The Classify tab and the Overall tab share no state, so a session uses one or the
other, and the tab that is not used stays in one of its initial states.  The
threads that read a program's output write only to the log, and are left out.

## 3. Runs

Passing runs:

| Run | Instance | Shows |
|---|---|---|
| `sched_hybrid` | a fast and a slow CPU, 2 tasks, 2 priorities, clusters bound to the fast kind or preferring slow, affinity everywhere or slow only, changing at any time; the history of the walks; 1.4 M states | `PlacedOnce`, `ClaimedCpuGetsTask`, `SharedTaskAttended`, `PlacementFits`, `PrioritiesRespected`, `StrandedByAffinityOnly` |
| `sched_shared` | 2 CPUs of one kind, 2 tasks that may be bound to one CPU, a critical cluster without a kind, failing allocations; 0.32 M states | `NoStallWithoutHog`, and the liveness `TopPrioRuns` |
| `pipe_all` | the main thread with 2 events and a tid used twice with 3, ring of 2, `--min-events` 2, 2 settings; 0.63 M states | `EventsConserved`, `SettingEarned`, `ImplementsLog`, `CycleClassifiesAll`, `EveryResultUsed`, and the liveness `ExitClearsTarget` |
| `anc_family` | init and 3 tids of which one may exit, or collecting; init and 2 tids with threads and exits, one tid used twice; 0.95 M states | `FamilySound`, `FamilyComplete`, `PanicsOnReuse`, `ClimbAdvances`, `FamilyKept`, `CollectedUnderTarget` |
| `anc_live` | init and 2 tids, no exits; 9 k states | the liveness `FamilySpecialized` |
| `control` | one run with one of three command lines, a scanner with two interrupts, one process, a usable and an unusable set; 0.92 M states | `StartupTargetKept`, `FreshStart`, `DisturbedOnlyByTee`, `ScannerLeavesZero`, and the liveness `SetFollowsFiles`, `TargetFollowsScanner` |
| `runner` | two programs started within two seconds, a table per editor; 0.46 M states | `LaunchedAsEdited`, `TrainedOnWhole`, `RowsOfLiveRun`, `CollectedDataKept`, and the liveness `StoppedRunFlushes` |
| `session` | Classify tab: two models, of 1 and 2 clusters, one saved file, two configurations that others write into it, up to four clicks, on three machines of three CPUs; every machine of three CPUs and three frequencies.  Overall tab: 2 CPUs, 2 tids, with and without guests; 0.79 M states | `InForceAsShown`, `EditsKept`, `SavedIsShown`, `ImplementsEnforcement`, `TwoScansAgree`, `RowsTrue`, `BarsTrue` |
| `accounting` | one thread on a fast and a slow CPU, 8 ticks, ring of 2; 1.7 M states | `TimesConserved` |

Every bound is a constant in the `.cfg`.  Why they are enough:

* two CPUs and two tasks give every pairing of a waker with a CPU that goes
  idle, a claim with an affinity change, and a walk with an insertion behind it;
  two priorities give a critical and a background one; a third task or CPU only
  repeats these pairings, and the theorems hold for any number.  A context whose
  allocation failed is treated as the default one, in whatever kind of machine, so one of
  the two instances has it; the theorems do not restrict it;
* a ring of two is full with one event per tid, and `--min-events` 2, which both tids
  can reach, needs two sends or one with both, and a third event makes the same task eligible again, so that a
  second, different setting can meet the first on its way; a second use of a tid is the case where old statistics meet
  a new task;
* three tids below init are the smallest tree in which a target, a task between
  and a descendant differ, and in which a pid that is used again can close a
  cycle of parents.  `MaxSteps` (4096 in the code) is 3 and 2: the depth of the
  tree;
* one process as target and `NoPid` tell "follows", "cleared" and "stale" apart;
  `Presses` 2 is the interrupt and the one that interrupts its handler;
* two runs are a producer and its consumer, a run and its successor, or two
  rivals for one name; two seconds let a file be of the same second as another or
  of an earlier one, and let the session be reopened in between.  The two editors
  have different tables, so that a mixed up file shows;
* four clicks are a change of source, an edit, a save or an Apply, and a start;
  the models have different numbers of clusters, so that a table is cut and
  filled up, and one configuration names a kind that the smaller machines do not
  have, and both lack fields.  The frequencies 0 to 3 on three CPUs give every
  order, every tie and every gap;
* for the sampler three jiffies lie before, between and within two samples, and two
  hotplugs take a CPU away and bring it back.  Two threads and their reuse are
  checked in separate `Worlds`, of which a behaviour has one;
* the clock of `accounting` starts two ticks after boot, so that a time since boot shows, and
  moves by 1 or 3: below and above `RUNTIME_MAX_TIME` (2), the longest sleep
  and the send interval.  A slow CPU halves odd times, so that rounding shows.
  `MAX_CPU`, `Byte` and `MaxClusters` are as large as the machines need.

`anc_family`, `control`, `runner`, `session` and `accounting` check no deadlock, since the
programs may end, or a bound is reached.

Runs that find a violation; each checks a sentence of the repository:

| Run | Property | What happens |
|---|---|---|
| `sched_stranded` | `NoStallWithoutHog` | a background task with a kind is put in a kind-only DSQ; no CPU of that kind is woken and every CPU idles |
| `pipe_exit` | `TargetDeathSignalled` | the target exits while the ring is paused or full: no exit event, the dead target stays |
| `runner_crash` | `CheckpointSurvivesCrash` | a kill between the truncation and the rows of a checkpoint loses the data of the checkpoint before as well |

### Fairness

* `TeddySched`: a CPU in `schedule()` leaves it, an idle CPU that was told to
  reschedule does (weak), and the timer tick ends the slice of a task that keeps
  its CPU (strong: a preemption in between does not refill the slice).  Nothing makes a task block or wake.
* `EventPipe`: the main loop takes its steps (weak): `main.rs` is one thread
  whose own task is seeded with the highest priority (`SeedOwn`).  The polls of the control files and the tasks are not fair.
* `Ancestry`: cycles begin, visit and end (weak), and each task has events again
  and again between cycles (strong): a task that never wakes is not classified.
* `Control`: the run polls and the scanner scans (weak).  Nobody is obliged to
  write, exit, die or press a button.
* `ConfigEditor`, `Sampler` and `Accounting` state no fairness: they only say what
  must not happen.
* `Runner`: a run looks at the flag that SIGINT sets after every cycle (strong,
  `main.rs:920`), unless an error has ended it, and then comes to its end (weak).
  Nobody must start, stop or fail.

## 4. Proofs

All theorems hold for every value of the constants that meets the named ASSUMEs
of the module.  Those say what the code guarantees (kinds are 1..n and each has a
CPU, an affinity is never empty, a clock divisor is not 0, a saved configuration
has no fields but the four the editor writes), or that a value that stands for
"nothing" (`None`, `NoFile`, `Garbage`, `NoTable`) is no value of the other kind.
One further hypothesis stands in the theorems that need it: `SmallMachine`
(`ConfigEditor`), below.

**TeddySched.**  `SchedInv` is inductive: `TypeOK`, `PlacedOnce`,
`ClaimedCpuGetsTask`, `SharedTaskAttended`, and `WakeConsistent`.  The last is the strengthening: what
`select_cpu` decided is still right when the wakeup completes, although
settings and affinities may change in between.  `AffinityRespected` and
`PlacementFits` follow from it.  `SharedTaskAttended` carries the argument
against lost wakeups: the run queue of a task that waits in a shared DSQ is
running, told to reschedule, or in a walk that has not passed that DSQ.
`ServableWhileUnchanged` proves `Servable` for the specification without
affinity changes, `SharedNeverStalls` proves `NoStallWithoutHog` for settings
without kinds: together they say what it takes to strand a task, a kind and
either a lost wakeup (`sched_stranded`) or a change of affinity (section 5).
`SettingsNeverStrand` is the step of that argument for every affinity: the only
step after which a task has a kind that its CPUs lack is a change of its affinity.

**PriorityOrder.**  `WalksStayBehind`: for a task that has waited since a CPU's walk
began and that the CPU serves, the walk has not come past the task's DSQ (`WalkBehind`).  It is
inductive together with `SchedInv`, for two reasons: a task keeps its context
while it is queued (`QueuedKeepsCtx`), so its DSQ does not move behind the walk, and a walk
goes on only past a DSQ that holds no task its CPU could run (`WalkMoves`).  A pull happens
where the walk is (`FoundAtSlot`, `TakesAtSlot`), so `OrderKept` follows: strict
priority, and no CPU goes idle while such a task waits.

**EventPipe.**  `PipeInv` adds to the types, for every tid, a running total
along the ring from what the statistics know to what was counted
(`EventsConserved`), that the main thread has its seed, pending or in force, and that
every other setting under way is earned.
`PipeImplementsLog` maps each step to a step of `EventLog` or a stutter.
`CyclesClassifyAll` needs two more facts.  What the cycle has visited has nothing
left to classify, and nothing but the cycle touches the statistics while it runs
(`Visited`).  For a tid that had no task yet, or has its first one still alive,
no exit is in the ring or in the statistics (`FirstLives`): that is where the
theorem stops when a tid is reused.  The main thread is left out, since `Visit` passes
over it.  `ResultsAreUsed` is the other half: a
flag is cleared only together with a setting that is written, and a setting
leaves the map only when it is in force.  `DeletesWhatItCopied` is what it needs: between its
lookup and its deletion the task is alive and its entry is the one it copied,
unless a cycle has written another in between (`raced`).

**Ancestry.**  `OnceInv`: as long as no pid was used twice, the tree is
well-founded through `up` (`TreeOK`), and the two parents of every entry are
among its ancestors or init (`PointersOK`).  From it follow `FamilySound`,
`PanicsOnReuse` and `ClimbAdvances`.  `ForksInv` adds, for a tree that only grows by forks, that no pointer has passed
the target of its climb, hence `FamilyComplete`.  `FamilyKept` needs only the
types and holds also with reuse.  `CsvNamesTarget` is about the full climb of a
collect run, which stops after `MAX_STEPS` however far it is.  Its measure,
`Climbing`, is that the steps made and the depth of the pointer stay below the
depth of the task: so a task that is no deeper than `MAX_STEPS` arrives.  The
depth of a task is the number of its ancestors, a finite set because each fork
adds one.

**Control.**  For any number of runs, `ControlInv`: once a run has put 0 into
`control_ppid`, a pid comes there only from a scanner or the GUI (`NoLeftover`),
and the scanner's handler was entered by an interrupt.  From it follow `FreshStart`
and `ScannerLeavesZero`.  `StartupTargetKept` and `DisturbedOnlyByTee` hold for any
number of runs as well, of each as long as no other has created or removed the files.
Their invariant `FilesInv` says that the files, the paths seen last and the path
just read are those of the command line until somebody writes (`StartupFiles`),
that the GUI writes no empty path unless it was told to (`WritesPaths`), and that from the
moment a run has written its files, a set in use stands for two paths that are
there but for `tee` (`OnlyTee`), also when an earlier run has ended while the GUI had a
write under way.  To each step of one run all others are bystanders (`Bystander`): it
either makes them rivals, or takes nothing from them.

**Runner.**  For any number of programs and seconds.  What the theorems rest on is
the name of a file: a second, in which a tab starts at most one program while it
knows of none that is live.  `NamesFresh` says that a live run is the one its tab
has in hand, or was started in an earlier second, so a new name is nobody else's.
On it stand `CsvOwned` (a run that has looked for its output found none, and no
rival has the name), `PartExplained` (a CSV without all its rows is being written,
or its writer was killed or ended by an error), `SettledSound` (what a train run finds and makes at
each of its steps) and `TablesSound` (what a starting run will read from its two
files).  `OneAttached` and `RowsSound` say whose snapshot it is.  From these follow
`LaunchedAsEdited`, `TrainedOnWhole`, `RowsOfLiveRun` and `CollectedDataKept`.

**Topology and ConfigEditor.**  `Ranking` shows that a finite set can be sorted by
any relation that is strict and total on it, and `Exhausting` that the result
holds every member; so both scans number the same frequencies in the same order
(`ScansAgree`).  That is where `SmallMachine` is needed: the CPUs are numbered
without a gap, and a `u8` and `MAX_CPU` can hold their number.  Without it the
casts wrap (section 5).  The CPUs may be offline or without a frequency.  `IInv`
of the editors follows one configuration on its way: `MadeFrom` ties a set to the
table it was made of from the button to the poll that puts it in force, `SavedSound`
ties a file to the table that was saved in it, and `Scanned` keeps the words of
the GUI and the kinds of the scheduler those of one machine.  Hence `RowsInForce`,
whose last step uses `TwoScansAgree` for the CPUs behind a word; `SavedComesBack`,
since a table that is written and read again means the same; and `ConfigsEnforced`,
which maps `Attach`, `Poll` and `Stop` to the steps of `Enforcement` and everything
else to a stutter.  `EditsSurvive` is an action property: a table is
seeded anew only when the signature changes.

**Accounting.**  `TimesConserved` sums over the ring.  A sum is a recursive function
over 0..n, about which `Least` (every nonempty set of numbers has a least member)
gives what an induction would: that a sum exists, what an event appended adds,
and what the head taken away leaves.  The invariant adds that the stamps of the
context are the times of what happened last (`Stamped`), and that a thread that
sleeps has no sleep pending (`Sleeping`): without these a wakeup or a stop could
count an interval twice, or from the wrong end.

**Sampler.**  For any number of CPUs and tids.  `Noted` ties what a scan has noted of a
tid to the thread it met there: if that thread still has the tid, it has used the rest
since; if another has it, all that one has used is since.  Hence the clamp at 0 gives
a thread its own jiffies or fewer (`RatesAreOwn`).  `Timed` is the bound: as long as
scans end, what was used since the last visit fits between the beginning of that
sample and now.  A sample that raises breaks it, since it notes the time and not the threads,
which is why the last part of `RowsTrue` is about scans that ended.  `ReadSound` says
that the lines read last are those of some counters `p`, and that the counters now
are `p` and what has passed since on each CPU, guests included; `SumAdds` (again by a least counterexample)
carries this to the aggregate line, and `InOrderType` (a CPU's place is the number
of those below it) to the lines of the CPUs.  `BarsAreTrue` follows.

Some theorems state properties that no run checks.  `AffinityRespected`: with two
CPUs a bound task has one CPU, for which the kernel does not call `select_cpu`.
The type invariants of all modules: the inductive invariants contain them, so a run
would only repeat the weakest part of a theorem.

Model-checked only:

* `TopPrioRuns`, `ExitClearsTarget`, `FamilySpecialized`, `SetFollowsFiles`,
  `TargetFollowsScanner` and `StoppedRunFlushes`: liveness under fairness, which is
  out of the prover's reach;
* what recursive operators compute for every input is proved only where it is a
  function over the numbers (`Accounting`, `Sampler`): the induction theorems of the library
  take an operator as a parameter, which none of the provers can instantiate.

## 5. Divergences without a run

* `teddy_select_cpu` queues a wakeup of a non-critical task with
  `DEFAULT_SLICE` (`main.bpf.c:208`), so a configured slice reaches such a task
  only when `teddy_enqueue` puts it back; `README.md:93` names no exception.
* `compute_slice_ns` looks for `avg_runtime_ms` (`main.rs:109`), the feature is
  named `runtime_ms` (`task_stats.rs:157`): `adaptive` always gives the minimum.
* `validate_config_kinds` checks kinds only (`main.rs:711`): a priority of 12 or
  more, from a file written by hand, names a DSQ that does not exist.
* A task that was given a kind while it could run anywhere and is bound to CPUs
  of another kind afterwards keeps its kind-only DSQ, which none of its CPUs looks
  at: the affinity is checked only when the kind is applied
  (`main.bpf.c:403-405`).  TLC finds this in `TeddySched` with `Servable` as an
  invariant, a cluster bound to a kind and `Affinities` that change;
  `StrandedByAffinityOnly` says that nothing else does it.
* `teddy_stopping` looks an update up, copies it and deletes the key
  (`main.bpf.c:416`): a setting written in between is deleted unapplied, while
  the snapshot shows it as assigned (`DEBUG_GUIDE.md:80`), until the task is
  classified again.  `EveryResultUsed` says that this is the only way to lose one.
* `exit` is never reset (`main.rs:316`): the successor of a tid is counted and
  never classified.  `CycleClassifiesAll` is stated for the first task of a tid.
* What a tid has outlives its task: a setting that is pending when the task exits is
  applied to the next task with the tid, and if the exit event was lost, the
  events of both add up.  `SettingEarned` counts the events of the tid.
* "Flush the CSV on shutdown" (`main.rs:977`) does not hold when an error ends the loop:
  the `?` at `main.rs:949-966` pass over it and over the removal of the control
  files.  One of them is `ringbuf.poll(...)?` (`main.rs:966`): `epoll_wait` is not restarted
  after a signal handler, so a SIGINT that the main thread gets during the poll, where it
  spends most of its time, ends the run with an error and without a CSV.
  `StoppedRunFlushes` says what is left: the loop's own end writes the CSV.
* A second interrupt of the scanner, during the `publish(0)` of the first, leaves the
  target in the control file (`game_task_finder.py:155`).  `ScannerLeavesZero` is about one.
* With `--csv-checkpoint` a later CSV keeps the roots found under an earlier
  target (`main.rs:397`).  `CollectedUnderTarget` is stated for the final CSV.  Two more limits are in its
  premises: a climb ends after `MAX_STEPS` (`main.rs:460`), and it passes through
  /proc, so the ancestors must live.
* The target itself and its threads, and what threads other than the leader
  fork, are outside the family (`main.rs:664`), which `README.md:119` calls one
  process and all its descendants.
* A target set by hand that dies is cleared, and set again by the next poll,
  since the control file still names it (`main.rs:929`); the comment at
  `main.rs:925` accepts this.
* Between the GUI's two writes a poll may load a model with the configuration of
  another set (`scx_runner.py:233`).
* Two Applies within one second write the same path, and the poll sees no change
  (`scx_runner.py:440`, `main.rs:532`): the second table is not used.
* Until the first cycle of a new run the Overall tab shows the rows of the run
  before: `overall.py:238-244` asks whether a run is live, not whose rows they are.
* Two train runs of one CSV, from two sessions, share `<csv>.filtered.tmp`
  (`train.py:190`): one may read what the other has truncated, or find the file
  removed.  `TrainedOnWhole` is stated for a run that has its CSV to itself.
* The Train tab does not preselect the last CSV when it was written to a directory
  of the user's (`tabs/train.py:19-27`), which `scx_runner.py:444-447` intends.
* A run that starts while an earlier one is removing its files loses the paths
  it has just written, and with them its startup set (`main.rs:973`).
* A second `scx_teddy` writes the control files anew before it finds that it cannot
  attach (`main.rs:822`): the running one then polls the target 0, and the paths of
  the other's command line, or none, in place of its own.
* A pair that failed to load is remembered like one that loaded (`main.rs:523`), and is
  not tried again when the file is repaired under the same name.
* "A live scheduler is never disturbed" (`main.rs:521`) does not hold between
  `tee`'s truncation and its write: a poll reads an empty path and drops the set in use
  until the next poll.  `DisturbedOnlyByTee` says that this is the only case.
* With a reused pid a task can become its own ancestor, and the climb borrows its
  entry a second time and panics (`main.rs:427`).  `PanicsOnReuse` says that it
  takes a reused pid.
* An Apply while `scx_teddy` is starting is wiped by `init_control_files`
  (`main.rs:822`), though the page says that the set was swapped.
* A configuration that is rewritten on disk is not read again while its name stays
  chosen, yet the caption says that its values are shown
  (`_config_editor.py:243`); of two editors that have loaded one file, the one
  that saves last wins.  Another model with the same number of clusters keeps the
  edits of the first.
* A slice below the floor is shown as it is loaded, and raised to the floor when
  the table is handed over or saved.
* `topology.rs:28` asks that its `MAX_CPU` (512) be kept in sync with `intf.h:28`
  (255).  A CPU number or a count of 256 wraps to 0
  in the casts to `u8` of `topology.rs`, more kinds than `MAX_CPU_KIND` (8) have no DSQ, and the fallback
  takes the first numbers although an offline CPU leaves a gap.
* `sys_metrics.py:46` calls the index of a bar the logical CPU, and `overall.py:77-87` names
  and colours the bars by it: bar i is the i-th CPU that is online, so with a CPU
  offline the bars above it are shown under other CPUs' names, and the sample after
  a hotplug compares two CPUs.  `BarsTrue` states what is left.
* `total = sum(fields)` (`sys_metrics.py:102`) adds `guest` and `guest_nice`, which the
  kernel has counted in `user` and `nice`: on a host of virtual machines the bars are
  higher than the busy share.  `htop`, which the sampler follows for iowait
  (`sys_metrics.py:59`), takes them out.  `BarsTrue` counts a guest's jiffy twice, as the code does.
* A thread name that is cut within a character raises `UnicodeDecodeError`, which
  is no `OSError` (`sys_metrics.py:172`): the sample fails after the time was
  noted, and the rates of the next one that succeeds are too high.
* The Overall tab joins its rows with the snapshot by tid: a reused tid shows the
  cluster of the dead task.
* `update_map` has 262144 entries (`main.bpf.c:81`), and nobody deletes that of a task that died: when it
  is full the `?` of `main.rs:690` ends the scheduler.  The map of `EventPipe` has
  a slot for every tid.
* "runtime have upper bound RUNTIME_MAX_TIME, won't overflow directly"
  (`main.bpf.c:351`): a thread alone on its CPU is not stopped at
  `RUNTIME_MAX_TIME`, and after 4.3 seconds the square of its runtime wraps.
* A thread asleep at the start that runs `RUNTIME_MAX_TIME` before it first
  blocks is given the time since boot as a sleep (`main.bpf.c:371`); a context
  that is made while its thread runs is given it as a runtime.  `TimesConserved`
  counts both exactly.  The mean sleep divides by the blocks, which are one more
  than the sleeps between them.

## 6. Not modelled

The classifier and the clustering (floating point and scikit-learn; a prediction
is a choice), the sums of squares and the features made of the sums (floating
point), the adaptive slice (floating point, and the GUI does not write it), the
static t-SNE tab (one figure, shared with nobody), the layout of the GUI, logging,
dumps, and the build.  What would extend the project most, in this order:

1. `Control` with two runs, as a run of TLC: the theorems cover them, but two runs beside a
   scanner are out of a small run's reach;
2. its composition with `EventPipe`, for the target that dies during a cycle;
3. several sessions of the GUI at once, on one data directory.
