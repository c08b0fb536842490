------------------------------- MODULE Control -------------------------------
(***************************************************************************)
(* How scx_teddy is told what to specialize: three control files that it   *)
(* creates before it attaches, re-reads while it runs and removes when it  *)
(* stops.  control_ppid is written by a scanner or by the GUI,             *)
(* control_model and control_config by the GUI, none of them in one step   *)
(* with the other two.  Meanwhile the target may die, and another          *)
(* scx_teddy may start.                                                    *)
(*                                                                         *)
(* A file that is missing, empty or malformed reads as Blank.  A path      *)
(* stands for the model or the configuration in that file, Usable or not.  *)
(***************************************************************************)
EXTENDS Naturals, Sequences

CONSTANTS Instances,  \* runs of scx_teddy, each started once
          Args,       \* their command lines, see Arg
          Procs,      \* processes that may be the target
          NoPid,      \* pid 0
          Models, Configs, \* paths
          Usable,     \* the paths that load, and name only kinds there are
          Sets,       \* the pairs of paths the GUI offers
          Blank,
          Presses     \* bound: SIGINTs to one run of the scanner

Pairs == [model : Models \cup {Blank}, config : Configs \cup {Blank}]
NoSet == [model |-> Blank, config |-> Blank]

(* --mode collect or classify, --target-model and --target-config; a set    *)
(* that does not load ends the run before it begins                         *)
Arg == [collect : BOOLEAN, set : Sets \cup {NoSet}]

ASSUME ControlAssumption ==
  /\ Args \subseteq Arg /\ \A a \in Args : a.collect => a.set = NoSet
  /\ Sets \subseteq [model : Models, config : Configs]
  /\ Usable \subseteq Models \cup Configs
  /\ NoPid \notin Procs /\ Blank \notin Procs \cup {NoPid} \cup Models \cup Configs
  /\ Presses \in Nat

VARIABLES
  args,     \* the command line of each run
  file,     \* the contents of the three control files
  pc, step, \* where a run of scx_teddy is; the control file it is at
  target,   \* target_ppid
  set,      \* target_set, NoSet for None
  last,     \* last_target_model and last_target_config
  read,     \* the model path read by the poll under way
  attached, \* the runs whose scheduler is attached: at most one
  alive,    \* the processes that live
  pending,  \* exit events in the ring buffer of the attached scheduler
  family,   \* what scan_once would return
  scanner,  \* the scanner: where it is, what it found, the SIGINTs it got
  gui,      \* control files the GUI has yet to write; its handle on the first
  cleared,  \* history: the GUI has been told to use no set
  touched   \* history: runs whose files someone wrote since they began, the
            \* scanner or the GUI ("ppid", "set") or another run ("rival")

instVars == <<args, pc, step, target, set, last, read, attached>>
procVars == <<alive, pending, family>>
vars == <<file, instVars, procVars, scanner, gui, cleared, touched>>

FileName == <<"ppid", "model", "config">>
Contents == [ppid : Procs \cup {NoPid, Blank}, model : Models \cup {Blank},
             config : Configs \cup {Blank}]
Write == [file : {"ppid"}, value : Procs \cup {NoPid}]
           \cup [file : {"model"}, value : Models \cup {Blank}]
           \cup [file : {"config"}, value : Configs \cup {Blank}]

TypeOK ==
  /\ args \in [Instances -> Args] /\ file \in Contents
  /\ pc \in [Instances -> {"off", "init", "load", "idle", "model", "config",
                           "remove", "detach", "ended"}]
  /\ step \in [Instances -> 1 .. 3]
  /\ target \in [Instances -> Procs \cup {NoPid}]
  /\ set \in [Instances -> [model : Models, config : Configs] \cup {NoSet}]
  /\ last \in [Instances -> Pairs] /\ read \in [Instances -> Models \cup {Blank}]
  /\ attached \in SUBSET Instances /\ \A i, j \in attached : i = j
  /\ alive \in SUBSET Procs /\ pending \in SUBSET Procs
  /\ family \in alive \cup {NoPid}
  /\ scanner \in [pc : {"off", "scan", "publish", "stop"}, found : Procs \cup {NoPid},
                  presses : 0 .. Presses]
  /\ gui \in [todo : Seq(Write), handle : {"none", "open", "orphan"}] /\ Len(gui.todo) <= 2
  /\ cleared \in BOOLEAN
  /\ touched \in [{"ppid", "set", "rival"} -> SUBSET Instances]

Init ==
  /\ file = [ppid |-> Blank, model |-> Blank, config |-> Blank]
  /\ pc = [i \in Instances |-> "off"] /\ step = [i \in Instances |-> 1]
  /\ target = [i \in Instances |-> NoPid]
  /\ args \in [Instances -> Args]
  /\ set = [i \in Instances |-> args[i].set] /\ last = set
  /\ read = [i \in Instances |-> Blank]
  /\ attached = {} /\ alive = Procs /\ pending = {}
  /\ family = NoPid
  /\ scanner = [pc |-> "off", found |-> NoPid, presses |-> 0]
  /\ gui = [todo |-> <<>>, handle |-> "none"]
  /\ cleared = FALSE
  /\ touched = [f \in {"ppid", "set", "rival"} |-> {}]

(***************************************************************************)
(* A run of scx_teddy.                                                     *)
(***************************************************************************)
At(i, from, to) == pc[i] = from /\ pc' = [pc EXCEPT ![i] = to]

(* The GUI's open handle on f is on a file that has no name any more. *)
HandleAfter(f) ==
  IF gui.handle = "open" /\ Head(gui.todo).file = f THEN "orphan" ELSE gui.handle

Start(i) ==
  /\ At(i, "off", "init")
  /\ touched' = [f \in DOMAIN touched |-> touched[f] \ {i}]
  /\ UNCHANGED <<args, file, step, target, set, last, read, attached, procVars,
                 scanner,
                 gui, cleared>>

(* slip: the paths are not seeded *)
SeededBlank(i, f) == IF f = "ppid" THEN NoPid ELSE Blank

(* slip: control_ppid is left as it is *)
SeededSets(i, f) == IF f = "ppid" THEN file.ppid ELSE args[i].set[f]

Seeded(i, f) == IF f = "ppid" THEN NoPid ELSE args[i].set[f]

(* the set's files are not this run's alone *)
Crosses(i, f) ==
  touched' = IF f = "ppid" THEN touched
             ELSE [touched EXCEPT !["rival"] = @ \cup (Instances \ {i})]

(* init_control_files *)
InitFile(i) ==
  /\ pc[i] = "init"
  /\ LET f == FileName[step[i]]
     IN file' = [file EXCEPT ![f] = Seeded(i, f)] /\ Crosses(i, f)
  /\ IF step[i] < 3
     THEN step' = [step EXCEPT ![i] = @ + 1] /\ UNCHANGED pc
     ELSE step' = [step EXCEPT ![i] = 1] /\ At(i, "init", "load")
  /\ UNCHANGED <<args, target, set, last, read, attached, procVars, scanner, gui,
                 cleared>>

UsablePair(s) == s.model \in Usable /\ s.config \in Usable

(* validate_config_kinds, load, attach: one scheduler at a time *)
Attach(i) ==
  /\ At(i, "load", "idle")
  /\ attached = {} /\ (args[i].set = NoSet \/ UsablePair(args[i].set))
  /\ attached' = {i} /\ pending' = {}
  /\ UNCHANGED <<args, file, step, target, set, last, read, alive, family, scanner,
                 gui, cleared, touched>>

(* the control files stay as they are *)
FailToStart(i) ==
  /\ At(i, "load", "ended")
  /\ attached # {} \/ (args[i].set # NoSet /\ ~UsablePair(args[i].set))
  /\ UNCHANGED <<args, file, step, target, set, last, read, attached, procVars,
                 scanner,
                 gui, cleared, touched>>

(* slip: 0 is not taken for a value *)
TargetReadPositive(t) == IF file.ppid \in {Blank, NoPid} THEN t ELSE file.ppid

(* read_control_target: a malformed value keeps the target *)
TargetRead(t) == IF file.ppid = Blank THEN t ELSE file.ppid

PollPpid(i) ==
  /\ At(i, "idle", IF args[i].collect THEN "idle" ELSE "model")
  /\ target' = [target EXCEPT ![i] = TargetRead(@)]
  /\ UNCHANGED <<args, file, step, set, last, read, attached, procVars, scanner,
                 gui, cleared, touched>>

PollModel(i) ==
  /\ At(i, "model", "config")
  /\ read' = [read EXCEPT ![i] = file.model]
  /\ UNCHANGED <<args, file, step, target, set, last, attached, procVars,
                 scanner, gui,
                 cleared, touched>>

(* slip: both paths must have changed *)
SetReadBoth(s, l, new) ==
  IF new.model = l.model \/ new.config = l.config THEN s
  ELSE IF Blank \in {new.model, new.config} THEN NoSet
  ELSE IF UsablePair(new) THEN new ELSE s

(* poll_target_set, from the paths seen last and those read now *)
SetRead(s, l, new) ==
  IF new = l THEN s
  ELSE IF Blank \in {new.model, new.config} THEN NoSet
  ELSE IF UsablePair(new) THEN new ELSE s

PollConfig(i) ==
  /\ At(i, "config", "idle")
  /\ LET new == [model |-> read[i], config |-> file.config]
     IN  /\ set' = [set EXCEPT ![i] = SetRead(@, last[i], new)]
         /\ last' = [last EXCEPT ![i] = new]
  /\ UNCHANGED <<args, file, step, target, read, attached, procVars, scanner,
                 gui, cleared,
                 touched>>

(* process_event, of the exit of p *)
HandleExit(i, p) ==
  /\ pc[i] = "idle" /\ p \in pending
  /\ pending' = pending \ {p}
  /\ target' = [target EXCEPT ![i] = IF @ = p THEN NoPid ELSE @]
  /\ UNCHANGED <<args, file, pc, step, set, last, read, attached, alive, family,
                 scanner, gui,
                 cleared, touched>>

(* Ctrl-C, or the kernel has ended the scheduler *)
Stop(i) ==
  /\ At(i, "idle", "remove")
  /\ UNCHANGED <<args, file, step, target, set, last, read, attached, procVars,
                 scanner, gui,
                 cleared, touched>>

RemoveFile(i) ==
  /\ pc[i] = "remove"
  /\ LET f == FileName[step[i]]
     IN  /\ file' = [file EXCEPT ![f] = Blank] /\ Crosses(i, f)
         /\ gui' = [gui EXCEPT !.handle = HandleAfter(f)]
  /\ IF step[i] < 3
     THEN step' = [step EXCEPT ![i] = @ + 1] /\ UNCHANGED pc
     ELSE step' = [step EXCEPT ![i] = 1] /\ At(i, "remove", "detach")
  /\ UNCHANGED <<args, target, set, last, read, attached, procVars, scanner,
                 cleared>>

(* main returns, after the last CSV; or an error leaves the loop on the spot *)
Detach(i) ==
  /\ At(i, "detach", "ended") \/ At(i, "idle", "ended")
  /\ attached' = attached \ {i}
  /\ UNCHANGED <<args, file, step, target, set, last, read, procVars, scanner,
                 gui, cleared, touched>>

(***************************************************************************)
(* The processes.                                                          *)
(***************************************************************************)
(* A process exits.  The exit event is in the ring, or it is lost: see the  *)
(* module EventPipe.  The game under p is found elsewhere, or gone.         *)
Die(p) ==
  /\ p \in alive /\ alive' = alive \ {p}
  /\ pending' \in {pending, IF attached # {} THEN pending \cup {p} ELSE pending}
  /\ IF family = p THEN family' \in alive' \cup {NoPid} ELSE UNCHANGED family
  /\ UNCHANGED <<file, instVars, scanner, gui, cleared, touched>>

FamilyMoves ==
  /\ family' \in alive \cup {NoPid} /\ family' # family
  /\ UNCHANGED <<file, instVars, alive, pending, scanner, gui, cleared,
                 touched>>

(***************************************************************************)
(* The scanner.                                                            *)
(***************************************************************************)
ScannerAt(from, to) == scanner.pc = from /\ scanner' = [scanner EXCEPT !.pc = to]

StartScanner ==
  /\ gui.todo = <<>> /\ scanner.pc = "off"
  /\ scanner' = [pc |-> "scan", found |-> NoPid, presses |-> 0]
  /\ UNCHANGED <<file, instVars, procVars, gui, cleared, touched>>

ScanOnce ==
  /\ scanner.pc = "scan"
  /\ scanner' = [scanner EXCEPT !.pc = "publish", !.found = family]
  /\ UNCHANGED <<file, instVars, procVars, gui, cleared, touched>>

(* a temporary file, renamed over control_ppid *)
Published(p) ==
  /\ file' = [file EXCEPT !.ppid = p]
  /\ gui' = [gui EXCEPT !.handle = HandleAfter("ppid")]
  /\ touched' = [touched EXCEPT !["ppid"] = Instances]

Publish ==
  /\ ScannerAt("publish", "scan") /\ Published(scanner.found)
  /\ UNCHANGED <<instVars, procVars, cleared>>

(* slip: the interrupt is not handled *)
InterruptQuits ==
  /\ scanner.pc # "off" /\ scanner.presses < Presses
  /\ scanner' = [scanner EXCEPT !.presses = @ + 1, !.pc = "off"]
  /\ UNCHANGED <<file, instVars, procVars, gui, cleared, touched>>

(* KeyboardInterrupt: out of the loop, or out of the handler *)
Interrupt ==
  /\ scanner.pc # "off" /\ scanner.presses < Presses
  /\ scanner' = [scanner EXCEPT !.presses = @ + 1,
                                !.pc = IF @ = "stop" THEN "off" ELSE "stop",
                                !.found = NoPid]
  /\ UNCHANGED <<file, instVars, procVars, gui, cleared, touched>>

PublishZero ==
  /\ ScannerAt("stop", "off") /\ Published(NoPid)
  /\ UNCHANGED <<instVars, procVars, cleared>>

(***************************************************************************)
(* The GUI: sudo tee, one file after the other.                            *)
(***************************************************************************)
(* the ppid panel; its buttons are disabled while a scanner runs *)
SetPpid(p) ==
  /\ gui.todo = <<>> /\ scanner.pc = "off"
  /\ gui' = [gui EXCEPT !.todo = <<[file |-> "ppid", value |-> p]>>]
  /\ UNCHANGED <<file, instVars, procVars, scanner, cleared, touched>>

(* set_target_set; the buttons are there while scx_teddy runs *)
SetTargetSet(s) ==
  /\ gui.todo = <<>> /\ attached # {}
  /\ gui' = [gui EXCEPT !.todo = <<[file |-> "model", value |-> s.model],
                                   [file |-> "config", value |-> s.config]>>]
  /\ cleared' = (cleared \/ s = NoSet)
  /\ UNCHANGED <<file, instVars, procVars, scanner, touched>>

Touches(f) ==
  touched' = [touched EXCEPT ![IF f = "ppid" THEN "ppid" ELSE "set"] = Instances]

(* tee opens the file, and truncates it *)
Truncate ==
  /\ gui.todo # <<>> /\ gui.handle = "none"
  /\ LET f == Head(gui.todo).file IN file' = [file EXCEPT ![f] = Blank] /\ Touches(f)
  /\ gui' = [gui EXCEPT !.handle = "open"]
  /\ UNCHANGED <<instVars, procVars, scanner, cleared>>

(* ... and writes to it, in vain if the file has been replaced meanwhile *)
WriteControl ==
  /\ gui.todo # <<>> /\ gui.handle # "none"
  /\ LET w == Head(gui.todo)
     IN  /\ file' = IF gui.handle = "orphan" THEN file
                    ELSE [file EXCEPT ![w.file] = w.value]
         /\ Touches(w.file)
  /\ gui' = [todo |-> Tail(gui.todo), handle |-> "none"]
  /\ UNCHANGED <<instVars, procVars, scanner, cleared>>

PollStep(i) == PollPpid(i) \/ PollModel(i) \/ PollConfig(i)
RunStep(i) ==
  \/ Start(i) \/ InitFile(i) \/ Attach(i) \/ FailToStart(i) \/ PollStep(i)
  \/ Stop(i) \/ RemoveFile(i) \/ Detach(i)
ScannerStep == ScanOnce \/ Publish

Next ==
  \/ \E i \in Instances : RunStep(i) \/ (\E p \in Procs : HandleExit(i, p))
  \/ \E p \in Procs : Die(p)
  \/ FamilyMoves
  \/ StartScanner \/ ScannerStep \/ Interrupt \/ PublishZero
  \/ \E p \in Procs \cup {NoPid} : SetPpid(p)
  \/ \E s \in Sets \cup {NoSet} : SetTargetSet(s)
  \/ Truncate \/ WriteControl

Spec == Init /\ [][Next]_vars

(* The main loop polls again and again, and the scanner scans. *)
FairSpec ==
  /\ Spec /\ WF_vars(ScannerStep)
  /\ \A i \in Instances : WF_vars(PollStep(i))

-----------------------------------------------------------------------------
Running(i) == pc[i] \in {"idle", "model", "config"}

(* A target comes from a value that somebody published after the run began, *)
(* never from one that an earlier run, or a scanner of that time, has left. *)
FreshStart ==
  [][\A i \in Instances :
       PollPpid(i) /\ target'[i] \notin {target[i], NoPid} => i \in touched["ppid"]]_vars

(* The set given by --target-model and --target-config is in use until      *)
(* someone writes the control files ("missing files would read "" on the    *)
(* first poll and wrongly drop the startup target"): the GUI, or another    *)
(* run that creates or removes its own.                                     *)
Untouched(i) == i \notin touched["set"] \cup touched["rival"]
StartupTargetKept ==
  \A i \in Instances : Running(i) /\ Untouched(i) => set[i] = args[i].set

(* "A live scheduler is never disturbed": unless the GUI was told to use no   *)
(* set, or another run has created or removed the files, a poll of a run     *)
(* that has one in use finds both paths, but for the moment between the      *)
(* truncation of a file by tee and the write to it.                          *)
InTee(f) == gui.handle = "open" /\ Head(gui.todo).file = f
DisturbedOnlyByTee ==
  [][\A i \in Instances : set[i] # NoSet /\ ~cleared /\ i \notin touched["rival"] =>
       /\ PollModel(i) /\ file.model = Blank => InTee("model")
       /\ PollConfig(i) /\ file.config = Blank => InTee("config")]_vars

(* "0 again on Ctrl-C so a stale target doesn't linger": a scanner that was  *)
(* interrupted once leaves no target behind.                                *)
ScannerLeavesZero ==
  [][scanner.pc # "off" /\ scanner'.pc = "off" /\ scanner'.presses = 1
       => file'.ppid \in {NoPid, Blank}]_vars

(* When the control files stay as they are, the run ends up with the set    *)
(* they name, unless that is one that cannot be used.                       *)
Settled(i) ==
  LET pair == [model |-> file.model, config |-> file.config]
  IN  /\ Blank \in {pair.model, pair.config} => set[i] = NoSet
      /\ UsablePair(pair) => set[i] = pair
SetFollowsFiles ==
  \A i \in Instances :
    <>[](Running(i) /\ ~args[i].collect) /\ <>[][UNCHANGED <<file.model, file.config>>]_vars
      => <>[]Settled(i)

(* The target ends up being the family the scanner finds, also after it was *)
(* a process that died.                                                     *)
TargetFollowsScanner ==
  \A i \in Instances :
    <>[](Running(i) /\ scanner.pc \in {"scan", "publish"}) /\ <>[][UNCHANGED family]_vars
      => <>[](target[i] = family)

=============================================================================
