------------------------------- MODULE Runner -------------------------------
(***************************************************************************)
(* The GUI as a launcher: it starts scx_teddy and train.py as programs of  *)
(* their own and knows them by the handles of the browser session.         *)
(* Everything else they share is files, whose names the GUI makes from the *)
(* wall clock, in seconds.  The session may be reopened, and a program may *)
(* be killed, between any two steps.                                       *)
(*                                                                         *)
(* One session is open at a time.  What a running scx_teddy does with its  *)
(* control files is in the module Control.                                 *)
(***************************************************************************)
EXTENDS Naturals

CONSTANTS MaxRuns,     \* bound: programs launched
          LastSecond,  \* bound: the clock
          Edits, TargetEdits, \* what the two scheduling tables may say
          NoTable,
          NoFile

ASSUME RunnerAssumption ==
  /\ MaxRuns \in Nat /\ LastSecond \in Nat \ {0}
  /\ {NoTable, NoFile} \cap (Edits \cup TargetEdits) = {}

Tables == Edits \cup TargetEdits
Runs  == 1 .. MaxRuns
NoRun == 0
Tabs  == {"collect", "train", "classify"}

(* timestamped_path, and the temporary file train.py makes beside a CSV; of *)
(* second 0 are a CSV collected earlier and a model placed by hand in       *)
(* model/, which no button clears                                           *)
Path == [kind : {"event", "filtered", "model", "config", "target_config"},
         at : 0 .. LastSecond]
Csvs   == {p \in Path : p.kind = "event"}
Models == {p \in Path : p.kind = "model"}
File(kind, second) == [kind |-> kind, at |-> second]

(* NoFile is no name of a file *)
ASSUME NoFileAssumption == NoFile \notin Path

Earlier == File("event", 0)
ByHand  == File("model", 0)

(* a CSV, a model, or what the Overall tab shows *)
Output == [by : Runs \cup {NoRun}, whole : BOOLEAN]
Whole(r) == [by |-> r, whole |-> TRUE]
Part(r)  == [by |-> r, whole |-> FALSE]
Nothing  == Part(NoRun)

(* a model and the configuration that goes with it: SchedSet *)
NoSet == [model |-> NoFile, config |-> NoFile]
Pair  == [model : Path, config : Path]

Idle == [mode |-> "none"]
Command ==
  {Idle} \cup [mode : {"collect"}, output : Path, checkpoint : BOOLEAN]
         \cup [mode : {"train"}, csv : Path, output : Path]
         \cup [mode : {"classify"}, default : Pair, target : Pair \cup {NoSet}]

VARIABLES
  now,      \* the second it is
  file,     \* Path -> contents: an Output, a table, or NoFile
  handle,   \* the run behind each tab of this session
  cmd, pc,  \* the command line of each run, and where the run is
  signalled,\* the runs that have been sent SIGINT and handle it
  input,    \* what a run has read: the CSV, or the two tables
  snapshot, \* what is in snapshot.json
  asked,    \* history: the tables the user asked of a run
  saved,    \* history: runs that have had a CSV on disk, or published rows
  killed,   \* history: collect runs that were killed
  failed,   \* history: collect runs that an error ended
  wiped,    \* history: runs that had a file deleted by a Clear button
  settled   \* history: train runs of a finished CSV, that have it for themselves

histVars == <<asked, saved, killed, failed, wiped, settled>>
vars == <<now, file, handle, cmd, pc, signalled, input, snapshot, histVars>>

(* what a file holds, by its kind *)
Content(p) ==
  {NoFile} \cup (IF p.kind \in {"event", "filtered", "model"} THEN Output ELSE Tables)

NoInput == [csv |-> Nothing, default |-> NoTable, target |-> NoTable]

TypeOK ==
  /\ now \in 1 .. LastSecond
  /\ file \in [Path -> {NoFile} \cup Output \cup Tables]
  /\ \A p \in Path : file[p] \in Content(p)
  /\ handle \in [Tabs -> Runs \cup {NoRun}]
  /\ cmd \in [Runs -> Command]
  /\ pc \in [Runs -> {"off", "new", "target", "init", "loop", "save", "flush",
                      "exit", "publish", "read", "filter", "filtered", "fit", "write",
                      "tidy", "ended"}]
  /\ signalled \in SUBSET Runs
  /\ input \in [Runs -> [csv : Output, default : Tables \cup {NoTable},
                         target : Tables \cup {NoTable}]]
  /\ snapshot \in Output
  /\ asked \in [Runs -> [default : Tables \cup {NoTable},
                         targets : SUBSET (Tables \cup {NoTable})]]
  /\ {saved, killed, failed, wiped, settled} \subseteq SUBSET Runs

Init ==
  /\ now = 1
  /\ file = [p \in Path |-> IF p \in {Earlier, ByHand} THEN Whole(NoRun) ELSE NoFile]
  /\ handle = [tab \in Tabs |-> NoRun]
  /\ cmd = [r \in Runs |-> Idle] /\ pc = [r \in Runs |-> "off"]
  /\ signalled = {} /\ input = [r \in Runs |-> NoInput]
  /\ snapshot = Nothing
  /\ asked = [r \in Runs |-> [default |-> NoTable, targets |-> {}]]
  /\ saved = {} /\ killed = {} /\ failed = {} /\ wiped = {} /\ settled = {}

Collecting == {r \in Runs : cmd[r].mode = "collect"}

At(r, from, to) == pc[r] = from /\ pc' = [pc EXCEPT ![r] = to]
Live(r) == pc[r] \notin {"off", "ended"}

(* ProcessHandle.is_running, of the handle the session has, if any *)
Running(tab) == handle[tab] # NoRun /\ Live(handle[tab])

(***************************************************************************)
(* The GUI.                                                                *)
(***************************************************************************)
Tick ==
  /\ now < LastSecond /\ now' = now + 1
  /\ UNCHANGED <<file, handle, cmd, pc, signalled, input, snapshot, histVars>>

(* The page is opened again, which takes a second: the session state is     *)
(* gone, the programs run on.                                               *)
Reopen ==
  /\ now < LastSecond /\ now' = now + 1
  /\ handle' = [tab \in Tabs |-> NoRun]
  /\ UNCHANGED <<file, cmd, pc, signalled, input, snapshot, histVars>>

(* ProcessHandle; the Start button of a tab whose run is live is disabled *)
Launch(tab, r, command) ==
  /\ ~Running(tab) /\ At(r, "off", "new")
  /\ cmd' = [cmd EXCEPT ![r] = command]
  /\ handle' = [handle EXCEPT ![tab] = r]

StartCollect(r, checkpoint) ==
  /\ Launch("collect", r, [mode |-> "collect", output |-> File("event", now),
                           checkpoint |-> checkpoint])
  /\ UNCHANGED <<now, file, signalled, input, snapshot, histVars>>

(* the run that writes the CSV csv has ended, and by itself *)
Finished(csv) ==
  \A q \in Collecting : cmd[q].output = csv => ~Live(q) /\ q \notin killed \cup failed

(* the other live train runs of a CSV: those of an earlier session *)
Rivals(csv) == {q \in Runs : cmd[q].mode = "train" /\ Live(q) /\ cmd[q].csv = csv}

StartTrain(r, csv) ==
  /\ file[csv] # NoFile
  /\ Launch("train", r, [mode |-> "train", csv |-> csv, output |-> File("model", now)])
  /\ settled' = IF Finished(csv) /\ Rivals(csv) = {} THEN settled \cup {r}
                ELSE settled \ Rivals(csv)
  /\ UNCHANGED <<now, file, signalled, input, snapshot, asked, saved, killed, failed,
                 wiped>>

(* model_n_clusters finds the number the table is sized by *)
Readable(model) == file[model] # NoFile /\ file[model].whole

(* slip: one prefix for both configurations *)
OnePrefix(target) == "config"

(* the prefix write_config is given *)
Prefix(target) == IF target THEN "target_config" ELSE "config"

StartClassify(r, model, table, tmodel, ttable) ==
  /\ Readable(model)
  /\ LET default == File(Prefix(FALSE), now)
         target  == File(Prefix(TRUE), now)
         written == [file EXCEPT ![default] = table]
     IN  \/ /\ ttable # NoTable /\ Readable(tmodel)
            /\ file' = [written EXCEPT ![target] = ttable]
            /\ Launch("classify", r,
                      [mode |-> "classify", default |-> [model |-> model, config |-> default],
                       target |-> [model |-> tmodel, config |-> target]])
         \/ /\ ttable = NoTable
            /\ file' = written
            /\ Launch("classify", r,
                      [mode |-> "classify", default |-> [model |-> model, config |-> default],
                       target |-> NoSet])
  /\ asked' = [asked EXCEPT ![r] = [default |-> table, targets |-> {ttable}]]
  /\ UNCHANGED <<now, signalled, input, snapshot, saved, killed, failed, wiped,
                 settled>>

(* Apply target set, while a classify run is live *)
Apply(ttable) ==
  /\ Running("classify")
  /\ file' = [file EXCEPT ![File(Prefix(TRUE), now)] = ttable]
  /\ LET r == handle["classify"]
     IN  asked' = IF pc[r] \in {"new", "target"}
                  THEN [asked EXCEPT ![r].targets = @ \cup {ttable}] ELSE asked
  /\ UNCHANGED <<now, handle, cmd, pc, signalled, input, snapshot, saved, killed,
                 failed, wiped, settled>>

(* slip: SIGKILL *)
StopKills(tab) ==
  /\ Running(tab)
  /\ pc' = [pc EXCEPT ![handle[tab]] = "ended"]
  /\ UNCHANGED <<now, file, handle, cmd, signalled, input, snapshot, histVars>>

(* ProcessHandle.stop: SIGINT, which ends a program that does not handle it *)
(* yet; the Train tab has no such button                                    *)
Stop(tab) ==
  /\ tab # "train" /\ Running(tab)
  /\ LET r == handle[tab]
     IN  IF pc[r] \in {"new", "target", "init"}
         THEN pc' = [pc EXCEPT ![r] = "ended"] /\ UNCHANGED signalled
         ELSE signalled' = signalled \cup {r} /\ UNCHANGED pc
  /\ UNCHANGED <<now, file, handle, cmd, input, snapshot, histVars>>

(* clear_data: the files of the data directory, whoever is at them *)
Clear(kinds) ==
  /\ file' = [p \in Path |-> IF p.kind \in kinds /\ p # ByHand THEN NoFile ELSE file[p]]
  /\ wiped' = wiped \cup {r \in Collecting : /\ "event" \in kinds
                                           /\ file[cmd[r].output] \in {Part(r), Whole(r)}}
  /\ settled' = {r \in settled : "event" \notin kinds \/ pc[r] # "new"}
  /\ UNCHANGED <<now, handle, cmd, pc, signalled, input, snapshot, asked, saved, killed,
                 failed>>

ClearCsv  == Clear({"event"})
ClearJson == Clear({"model", "config", "target_config"})

(***************************************************************************)
(* scx_teddy.                                                              *)
(***************************************************************************)
Attached == {r \in Runs : pc[r] \in {"loop", "save", "publish", "exit", "flush"}}
Mode(r, mode) == cmd[r].mode = mode

(* slip: an output that is there is not refused *)
CheckNothing(r) ==
  /\ Mode(r, "collect") /\ At(r, "new", "init")
  /\ UNCHANGED <<now, file, handle, cmd, signalled, input, snapshot, histVars>>

CheckOutput(r) ==
  /\ Mode(r, "collect")
  /\ At(r, "new", IF file[cmd[r].output] = NoFile THEN "init" ELSE "ended")
  /\ UNCHANGED <<now, file, handle, cmd, signalled, input, snapshot, histVars>>

Loads(set) == Readable(set.model) /\ file[set.config] # NoFile

(* load_sched_set, of the default set ... *)
LoadDefault(r) ==
  /\ Mode(r, "classify")
  /\ LET set == cmd[r].default
     IN  \/ /\ Loads(set) /\ At(r, "new", "target")
            /\ input' = [input EXCEPT ![r].default = file[set.config]]
         \/ ~Loads(set) /\ At(r, "new", "ended") /\ UNCHANGED input
  /\ UNCHANGED <<now, file, handle, cmd, signalled, snapshot, histVars>>

(* ... and of the target set, if there is one *)
LoadTarget(r) ==
  /\ Mode(r, "classify")
  /\ LET set == cmd[r].target
     IN  \/ set = NoSet /\ At(r, "target", "init") /\ UNCHANGED input
         \/ /\ set # NoSet /\ Loads(set) /\ At(r, "target", "init")
            /\ input' = [input EXCEPT ![r].target = file[set.config]]
         \/ set # NoSet /\ ~Loads(set) /\ At(r, "target", "ended") /\ UNCHANGED input
  /\ UNCHANGED <<now, file, handle, cmd, signalled, snapshot, histVars>>

(* attach_struct_ops, for one scheduler at a time, and set_handler *)
Attach(r) ==
  /\ At(r, "init", IF Attached = {} THEN "loop" ELSE "ended")
  /\ UNCHANGED <<now, file, handle, cmd, signalled, input, snapshot, histVars>>

(* write_csv: the file is created, or truncated ... *)
CreateCsv(r) ==
  /\ Mode(r, "collect")
  /\ (cmd[r].checkpoint /\ At(r, "loop", "save")) \/ At(r, "exit", "flush")
  /\ file' = [file EXCEPT ![cmd[r].output] = Part(r)]
  /\ UNCHANGED <<now, handle, cmd, signalled, input, snapshot, histVars>>

(* ... and has its rows, unless it was deleted on the way *)
Completed(r) ==
  LET out == cmd[r].output
  IN  IF file[out] = Part(r) THEN [file EXCEPT ![out] = Whole(r)] ELSE file

FinishCsv(r) ==
  /\ Mode(r, "collect")
  /\ At(r, "save", "loop") \/ At(r, "flush", "ended")
  /\ file' = Completed(r) /\ saved' = saved \cup {r}
  /\ UNCHANGED <<now, handle, cmd, signalled, input, snapshot, asked, killed, failed,
                 wiped, settled>>

(* slip: the snapshot is written in place *)
PublishInPlace(r) ==
  /\ Mode(r, "classify") /\ At(r, "loop", "publish")
  /\ snapshot' = Part(r)
  /\ UNCHANGED <<now, file, handle, cmd, signalled, input, histVars>>

(* write_snapshot, at the end of a cycle: a temporary file ... *)
Publish(r) ==
  /\ Mode(r, "classify") /\ At(r, "loop", "publish")
  /\ UNCHANGED <<now, file, handle, cmd, signalled, input, snapshot, histVars>>

(* ... renamed *)
Rename(r) ==
  /\ At(r, "publish", "loop")
  /\ snapshot' = Whole(r) /\ saved' = saved \cup {r}
  /\ UNCHANGED <<now, file, handle, cmd, signalled, input, asked, killed, failed, wiped,
                 settled>>

(* slip: no CSV after a SIGINT *)
EndLoopAtOnce(r) ==
  /\ Mode(r, "collect") \/ Mode(r, "classify")
  /\ At(r, "loop", IF Mode(r, "collect") /\ r \notin signalled THEN "exit" ELSE "ended")
  /\ UNCHANGED <<now, file, handle, cmd, signalled, input, snapshot, histVars>>

(* by SIGINT, by the deadline or by the kernel *)
EndLoop(r) ==
  /\ At(r, "loop", IF Mode(r, "collect") THEN "exit" ELSE "ended")
  /\ UNCHANGED <<now, file, handle, cmd, signalled, input, snapshot, histVars>>

(* An error that `?` passes up: of an update of the BPF maps, of a CSV, or   *)
(* of the poll, which a SIGINT interrupts (EINTR) if it arrives meanwhile.   *)
(* The program ends at once: no CSV is written any more, or not all of it.   *)
LeaveOnError(r) ==
  /\ \/ Mode(r, "collect") /\ pc[r] \in {"loop", "save", "exit", "flush"}
     \/ Mode(r, "classify") /\ pc[r] = "loop"
  /\ pc' = [pc EXCEPT ![r] = "ended"]
  /\ failed' = failed \cup ({r} \cap Collecting)
  /\ UNCHANGED <<now, file, handle, cmd, signalled, input, snapshot, asked, saved, killed,
                 wiped, settled>>

(* kill -9, or a crash; before the loop it is like a failing start *)
Kill(r) ==
  /\ (Mode(r, "collect") \/ Mode(r, "classify")) /\ r \in Attached
  /\ pc' = [pc EXCEPT ![r] = "ended"]
  /\ killed' = killed \cup ({r} \cap Collecting)
  /\ UNCHANGED <<now, file, handle, cmd, signalled, input, snapshot, asked, saved, failed,
                 wiped, settled>>

(***************************************************************************)
(* train.py                                                                *)
(***************************************************************************)
(* a file that is not there ends the program; so may one without its rows *)
Reads(r, p, from, to) ==
  /\ \/ /\ file[p] # NoFile /\ At(r, from, to)
        /\ input' = [input EXCEPT ![r].csv = file[p]]
     \/ (file[p] # NoFile => ~file[p].whole) /\ At(r, from, "ended") /\ UNCHANGED input
  /\ UNCHANGED <<now, file, handle, cmd, signalled, snapshot, histVars>>

(* the rows that remain go through a file named after the CSV *)
Filtered(r) == File("filtered", cmd[r].csv.at)

ReadCsv(r) == Mode(r, "train") /\ Reads(r, cmd[r].csv, "new", "read")

CreateFiltered(r) ==
  /\ At(r, "read", "filter")
  /\ file' = [file EXCEPT ![Filtered(r)] = Part(r)]
  /\ UNCHANGED <<now, handle, cmd, signalled, input, snapshot, histVars>>

FinishFiltered(r) ==
  /\ At(r, "filter", "filtered")
  /\ file' = IF file[Filtered(r)] = Part(r)
             THEN [file EXCEPT ![Filtered(r)].whole = input[r].csv.whole] ELSE file
  /\ UNCHANGED <<now, handle, cmd, signalled, input, snapshot, histVars>>

ReadFiltered(r) == pc[r] = "filtered" /\ Reads(r, Filtered(r), "filtered", "fit")

RemoveFiltered(r) ==
  /\ At(r, "tidy", "ended")
  /\ file' = [file EXCEPT ![Filtered(r)] = NoFile]
  /\ UNCHANGED <<now, handle, cmd, signalled, input, snapshot, histVars>>

CreateModel(r) ==
  /\ At(r, "fit", "write")
  /\ file' = [file EXCEPT ![cmd[r].output] = Part(r)]
  /\ UNCHANGED <<now, handle, cmd, signalled, input, snapshot, histVars>>

FinishModel(r) ==
  /\ At(r, "write", "tidy")
  /\ file' = Completed(r)
  /\ UNCHANGED <<now, handle, cmd, signalled, input, snapshot, histVars>>

(* the rows of the Overall tab: read_snapshot, behind the page's guard *)
Shown == IF Running("classify") /\ snapshot.whole THEN snapshot ELSE Nothing

GuiStep ==
  \/ Tick \/ Reopen \/ ClearCsv \/ ClearJson
  \/ \E tab \in Tabs : Stop(tab)
  \/ \E ttable \in TargetEdits : Apply(ttable)
GuiStart(r) == \* runs are numbered in the order of their start
  /\ pc[r] = "off" /\ \A q \in 1 .. r - 1 : pc[q] # "off"
  /\ \/ \E checkpoint \in BOOLEAN : StartCollect(r, checkpoint)
     \/ \E csv \in Csvs : StartTrain(r, csv)
     \/ \E model, tmodel \in Models, table \in Edits, ttable \in TargetEdits \cup {NoTable} :
          StartClassify(r, model, table, tmodel, ttable)
RunStep(r) ==
  \/ CheckOutput(r) \/ LoadDefault(r) \/ LoadTarget(r) \/ Attach(r)
  \/ CreateCsv(r) \/ FinishCsv(r) \/ Publish(r) \/ Rename(r) \/ EndLoop(r)
  \/ LeaveOnError(r)
  \/ ReadCsv(r) \/ CreateFiltered(r) \/ FinishFiltered(r) \/ ReadFiltered(r)
  \/ CreateModel(r) \/ FinishModel(r) \/ RemoveFiltered(r)

Next == GuiStep \/ \E r \in Runs : GuiStart(r) \/ RunStep(r) \/ Kill(r)

Spec == Init /\ [][Next]_vars

(* A run looks at the flag that SIGINT sets after every cycle (strong), if no *)
(* error ends it first, and then comes to its end.                          *)
LastSteps(r) == FinishCsv(r) \/ (pc[r] = "exit" /\ CreateCsv(r))
Fairness ==
  \A r \in Runs : SF_vars(r \in signalled /\ EndLoop(r)) /\ WF_vars(LastSteps(r))

FairSpec == Spec /\ Fairness
(***************************************************************************)
(* Properties.                                                             *)
(***************************************************************************)
(* A classify run schedules by the tables the user had on the screen: the  *)
(* default set by the table at Start, the target set by the target's table *)
(* at Start or by one applied since; never one by the other's, although    *)
(* all of them pass through files named by the second they were written.   *)
LaunchedAsEdited ==
  \A r \in Runs : Mode(r, "classify") /\ pc[r] \in {"init", "loop", "publish"}
    => /\ input[r].default = asked[r].default
       /\ input[r].target \in asked[r].targets

(* The CSV of a run is never overwritten by another run, although both may *)
(* be given the same name; only a Clear button removes it.                 *)
CollectedDataKept ==
  [][\A p \in Csvs : file[p] # NoFile /\ file'[p] # file[p]
       => file'[p] = NoFile \/ file'[p].by = file[p].by]_vars

(* A model is trained from a whole CSV, if the collect run that writes it  *)
(* had ended by itself when Train was pressed and no other train run of it *)
(* is live: two of them share the filtered file.                           *)
TrainedOnWhole ==
  \A r \in settled : pc[r] \in {"fit", "write", "tidy"} => input[r].csv.whole

(* tabs/overall.py: the rows shown are those of the live run of this       *)
(* session, once it has published any.                                     *)
RowsOfLiveRun ==
  \A r \in saved : r = handle["classify"] /\ Live(r) => Shown = Whole(r)

(* After Stop a collect run that was in its loop ends, and, if the loop's   *)
(* condition ends it, with its CSV on disk.  An error loses the CSV, and so *)
(* does the SIGINT itself when it finds the run in ringbuf.poll; besides,   *)
(* only a kill or a Clear button does.                                      *)
Flushed(r) ==
  /\ Mode(r, "collect") /\ pc[r] = "ended"
  /\ r \in killed \cup failed \cup wiped \/ file[cmd[r].output] = Whole(r)
StoppedRunFlushes ==
  \A r \in Runs : (r \in signalled /\ Mode(r, "collect")) ~> Flushed(r)

(* README.md:43: with a checkpoint every cycle a crash or kill -9 does not *)
(* lose the data of the run.                                               *)
CheckpointSurvivesCrash ==
  \A r \in (saved \cap killed) \ wiped : file[cmd[r].output] = Whole(r)

=============================================================================
