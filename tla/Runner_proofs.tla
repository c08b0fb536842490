---------------------------- MODULE Runner_proofs ----------------------------
(***************************************************************************)
(* Proofs about Runner, for any number of programs launched at any time.   *)
(*                                                                         *)
(* What everything rests on is the name of a file.  The GUI makes it of    *)
(* the second in which a button is pressed, and a button is dead while the *)
(* run of its tab is live; a session that does not know that run was       *)
(* opened in a later second.  So no two live runs of a kind have the same  *)
(* names (NamesFresh), and what is found in a file is the work of one run. *)
(***************************************************************************)
EXTENDS Runner, TLAPS

(* A run is where a program of its kind can be, and its files have the     *)
(* names of its kind.                                                      *)
CommandSound ==
  \A r \in Runs :
    /\ Mode(r, "none") => pc[r] = "off" /\ input[r].target = NoTable
    /\ Mode(r, "collect") =>
         /\ pc[r] \in {"new", "init", "loop", "save", "exit", "flush", "ended"}
         /\ cmd[r].output.kind = "event" /\ cmd[r].output.at <= now
    /\ Mode(r, "train") =>
         /\ pc[r] \in {"new", "read", "filter", "filtered", "fit", "write", "tidy", "ended"}
         /\ cmd[r].csv.kind = "event" /\ cmd[r].output.kind = "model"
    /\ Mode(r, "classify") =>
         /\ pc[r] \in {"new", "target", "init", "loop", "publish", "ended"}
         /\ cmd[r].default.config.kind = "config" /\ cmd[r].default.config.at <= now
         /\ cmd[r].target # NoSet =>
              /\ cmd[r].target.config.kind = "target_config"
              /\ cmd[r].target.config.at = cmd[r].default.config.at

(* The session knows its runs by the tab that started them. *)
HandleSound ==
  \A tab \in Tabs : handle[tab] # NoRun => Mode(handle[tab], tab)

(* A live run is the one its tab has in hand, or of an earlier second. *)
NamesFresh ==
  \A r \in Runs : Live(r) =>
    /\ Mode(r, "collect") => handle["collect"] = r \/ cmd[r].output.at < now
    /\ Mode(r, "classify") => handle["classify"] = r \/ cmd[r].default.config.at < now

(* The kernel takes one scheduler at a time. *)
OneAttached == \A q, r \in Attached : q = r

(* No two live collect runs write one CSV, and one that has looked for its *)
(* output has found none: what is there now it has written itself.         *)
Writing(r) == Mode(r, "collect") /\ pc[r] \in {"init", "loop", "save", "exit", "flush"}
CsvOwned ==
  /\ \A q, r \in Collecting :
       q # r /\ Live(q) /\ Live(r) => cmd[q].output # cmd[r].output
  /\ \A r \in Runs : Writing(r) => file[cmd[r].output] \in {NoFile, Part(r), Whole(r)}

(* A CSV without all its rows is being written, or its run was cut off. *)
PartExplained ==
  \A p \in Csvs : file[p] # NoFile =>
    \/ file[p].whole
    \/ \E q \in Collecting :
         cmd[q].output = p /\ (pc[q] \in {"save", "flush"} \/ q \in killed \cup failed)

(* A settled train run finds a whole CSV that nobody will write to, and    *)
(* has the filtered file for itself.                                       *)
SettledAt(r) ==
  /\ Mode(r, "train")
  /\ Live(r) => Rivals(cmd[r].csv) = {r}
  /\ pc[r] = "new" => /\ file[cmd[r].csv] # NoFile /\ file[cmd[r].csv].whole
                      /\ \A q \in Runs : Writing(q) => cmd[q].output # cmd[r].csv
  /\ pc[r] \in {"read", "filter", "filtered", "fit", "write", "tidy"} => input[r].csv.whole
  /\ pc[r] = "filter" => file[Filtered(r)] = Part(r)
  /\ pc[r] = "filtered" => file[Filtered(r)].whole
SettledSound == \A r \in settled : SettledAt(r)

(* The files of a starting classify run say what the user asked of it.     *)
Starting(r) == Mode(r, "classify") /\ pc[r] \in {"new", "target"}
Loaded(r) == Mode(r, "classify") /\ pc[r] \in {"init", "loop", "publish"}
TablesAt(r) ==
  /\ Mode(r, "classify") /\ pc[r] = "new" =>
       file[cmd[r].default.config] \in {NoFile, asked[r].default}
  /\ Mode(r, "classify") /\ pc[r] = "target" => input[r].default = asked[r].default
  /\ Starting(r) =>
       /\ input[r].target = NoTable
       /\ cmd[r].target = NoSet => NoTable \in asked[r].targets
       /\ cmd[r].target # NoSet => file[cmd[r].target.config] \in {NoFile} \cup asked[r].targets
  /\ Loaded(r) => /\ input[r].default = asked[r].default
                  /\ input[r].target \in asked[r].targets
TablesSound == \A r \in Runs : TablesAt(r)

(* A run that has published is attached, and the snapshot is its own. *)
RowsSound ==
  \A r \in saved :
    /\ cmd[r].mode \in {"collect", "classify"}
    /\ Mode(r, "classify") /\ Live(r) => r \in Attached /\ snapshot = Whole(r)

IInv ==
  /\ TypeOK /\ CommandSound /\ HandleSound /\ NamesFresh /\ OneAttached
  /\ CsvOwned /\ PartExplained /\ SettledSound /\ TablesSound /\ RowsSound

-----------------------------------------------------------------------------
(* What the values of the model are made of. *)

(* The fields of a command line, by its mode. *)
LEMMA CommandFields ==
  ASSUME NEW c \in Command
  PROVE  /\ c.mode \in {"none", "collect", "train", "classify"}
         /\ c.mode = "collect" => c.output \in Path /\ c.checkpoint \in BOOLEAN
         /\ c.mode = "train" => c.csv \in Path /\ c.output \in Path
         /\ c.mode = "classify" => c.default \in Pair /\ c.target \in Pair \cup {NoSet}
BY DEF Command, Idle

(* A file is known by its kind and its second. *)
LEMMA FileNames ==
  /\ \A p, q \in Path : p.kind = q.kind /\ p.at = q.at => p = q
  /\ \A p \in Path : p.at \in 0 .. LastSecond
  /\ \A second \in 0 .. LastSecond :
       \A kind \in {"event", "filtered", "model", "config", "target_config"} :
         /\ File(kind, second) \in Path
         /\ File(kind, second).kind = kind /\ File(kind, second).at = second
BY DEF Path, File

LEMMA Contents ==
  /\ Nothing \in Output
  /\ \A r \in Runs : /\ Part(r) \in Output /\ Whole(r) \in Output
                     /\ Part(r).by = r /\ Whole(r).by = r
                     /\ ~Part(r).whole /\ Whole(r).whole
  /\ \A r \in Runs : r # NoRun
BY RunnerAssumption DEF Nothing, Output, Part, Whole, Runs, NoRun

(* The kind of a run, by where it is. *)
LEMMA KindOfRun ==
  ASSUME TypeOK, CommandSound, NEW r \in Runs
  PROVE  /\ cmd[r] \in Command
         /\ Live(r) => cmd[r].mode # "none"
         /\ pc[r] \in {"save", "exit", "flush"} => Mode(r, "collect")
         /\ pc[r] \in {"target", "publish"} => Mode(r, "classify")
         /\ pc[r] \in {"init", "loop"} => Mode(r, "collect") \/ Mode(r, "classify")
         /\ pc[r] \in {"read", "filter", "filtered", "fit", "write", "tidy"}
              => Mode(r, "train")
         /\ Mode(r, "train") =>
              /\ cmd[r].csv \in Csvs /\ cmd[r].output \in Models
              /\ Filtered(r) \in Path /\ Filtered(r).kind = "filtered"
         /\ Mode(r, "collect") => cmd[r].output \in Csvs
         /\ Mode(r, "classify") =>
              /\ cmd[r].default \in Pair
              /\ cmd[r].default.config.kind = "config"
              /\ cmd[r].target # NoSet =>
                   cmd[r].target \in Pair /\ cmd[r].target.config.kind = "target_config"
<1>1. cmd[r] \in Command
  BY DEF TypeOK
<1>2. cmd[r].mode \in {"none", "collect", "train", "classify"}
  BY <1>1, CommandFields
<1>3. /\ Live(r) => cmd[r].mode # "none"
      /\ pc[r] \in {"save", "exit", "flush"} => Mode(r, "collect")
      /\ pc[r] \in {"target", "publish"} => Mode(r, "classify")
      /\ pc[r] \in {"init", "loop"} => Mode(r, "collect") \/ Mode(r, "classify")
      /\ pc[r] \in {"read", "filter", "filtered", "fit", "write", "tidy"} => Mode(r, "train")
  BY <1>2 DEF CommandSound, Mode, Live
<1>4. ASSUME Mode(r, "train")
      PROVE  /\ cmd[r].csv \in Csvs /\ cmd[r].output \in Models
             /\ Filtered(r) \in Path /\ Filtered(r).kind = "filtered"
  <2>1. /\ cmd[r].csv \in Path /\ cmd[r].output \in Path
        /\ cmd[r].csv.kind = "event" /\ cmd[r].output.kind = "model"
    BY <1>1, <1>4, CommandFields DEF Mode, CommandSound
  <2> QED
    BY <2>1, FileNames DEF Filtered, Csvs, Models
<1>5. Mode(r, "collect") => cmd[r].output \in Csvs
  BY <1>1, CommandFields DEF Mode, CommandSound, Csvs
<1>6. ASSUME Mode(r, "classify")
      PROVE  /\ cmd[r].default \in Pair
             /\ cmd[r].default.config.kind = "config"
             /\ cmd[r].target # NoSet =>
                  cmd[r].target \in Pair /\ cmd[r].target.config.kind = "target_config"
  BY <1>1, <1>6, CommandFields DEF Mode, CommandSound
<1> QED
  BY <1>1, <1>3, <1>4, <1>5, <1>6

-----------------------------------------------------------------------------
(* The types. *)
FileOK(f) ==
  /\ f \in [Path -> {NoFile} \cup Output \cup Tables]
  /\ \A p \in Path : f[p] \in Content(p)

LEMMA WriteFile ==
  ASSUME NEW f, FileOK(f), NEW p \in Path, NEW v \in Content(p)
  PROVE  FileOK([f EXCEPT ![p] = v])
BY DEF FileOK, Content

LEMMA OutputFits ==
  ASSUME NEW p \in Path, p.kind \in {"event", "filtered", "model"}, NEW v \in Output
  PROVE  v \in Content(p) /\ NoFile \in Content(p)
BY DEF Content

LEMMA TableFits ==
  ASSUME NEW p \in Path, p.kind \in {"config", "target_config"}, NEW v \in Tables
  PROVE  v \in Content(p)
BY DEF Content

LEMMA TypeInit == Init => TypeOK
<1> SUFFICES ASSUME Init PROVE TypeOK
  OBVIOUS
<1> USE DEF Init
<1>1. now \in 1 .. LastSecond
  BY RunnerAssumption
<1>2. FileOK(file)
  <2>1. Earlier \in Path /\ Earlier.kind = "event" /\ ByHand \in Path /\ ByHand.kind = "model"
    BY RunnerAssumption, FileNames DEF Earlier, ByHand
  <2>2. Whole(NoRun) \in Output
    BY DEF Whole, Output
  <2>3. \A p \in Path : file[p] \in Content(p)
    BY <2>1, <2>2 DEF Content
  <2> QED
    BY <2>2, <2>3 DEF FileOK
<1>3. cmd \in [Runs -> Command]
  BY DEF Command
<1>4. input \in [Runs -> [csv : Output, default : Tables \cup {NoTable},
                         target : Tables \cup {NoTable}]]
  BY Contents DEF NoInput
<1> QED
  BY <1>1, <1>2, <1>3, <1>4, Contents DEF TypeOK, FileOK

LEMMA FileTyped == TypeOK => FileOK(file)
BY DEF TypeOK, FileOK

LEMMA TypeGui ==
  ASSUME TypeOK, CommandSound, GuiStep
  PROVE  TypeOK'
<1> USE DEF histVars
<1>1. CASE Tick \/ Reopen
  BY <1>1, RunnerAssumption DEF Tick, Reopen, TypeOK
<1>2. ASSUME NEW kinds, Clear(kinds)
      PROVE  TypeOK'
  <2>1. FileOK(file')
    BY <1>2, FileTyped DEF Clear, FileOK, Content
  <2>2. wiped' \in SUBSET Runs /\ settled' \in SUBSET Runs
    BY <1>2 DEF Clear, TypeOK, Collecting
  <2> QED
    BY <1>2, <2>1, <2>2 DEF Clear, TypeOK, FileOK
<1>3. ASSUME NEW tab \in Tabs, Stop(tab)
      PROVE  TypeOK'
  BY <1>3 DEF Stop, Running, TypeOK
<1>4. ASSUME NEW ttable \in TargetEdits, Apply(ttable)
      PROVE  TypeOK'
  <2>1. FileOK(file')
    <3> DEFINE target == File("target_config", now)
    <3>1. target \in Path /\ target.kind = "target_config"
      BY RunnerAssumption, FileNames DEF TypeOK
    <3>2. FileOK([file EXCEPT ![target] = ttable])
      BY <3>1, FileTyped, TableFits, WriteFile DEF Tables
    <3> QED
      BY <1>4, <3>2 DEF Apply, Prefix
  <2>2. asked' \in [Runs -> [default : Tables \cup {NoTable},
                            targets : SUBSET (Tables \cup {NoTable})]]
    BY <1>4 DEF Apply, TypeOK, Running, Tables, Tabs
  <2> QED
    BY <1>4, <2>1, <2>2 DEF Apply, TypeOK, FileOK
<1> QED
  BY <1>1, <1>2, <1>3, <1>4 DEF GuiStep, ClearCsv, ClearJson

LEMMA TypeStart ==
  ASSUME TypeOK, CommandSound, NEW r \in Runs, GuiStart(r)
  PROVE  TypeOK'
<1> USE DEF histVars, Launch, At
<1>1. ASSUME NEW checkpoint \in BOOLEAN, StartCollect(r, checkpoint)
      PROVE  TypeOK'
  <2>1. [mode |-> "collect", output |-> File("event", now), checkpoint |-> checkpoint] \in Command
    BY RunnerAssumption, FileNames DEF Command, TypeOK
  <2> QED
    BY <1>1, <2>1 DEF StartCollect, TypeOK, Tabs
<1>2. ASSUME NEW csv \in Csvs, StartTrain(r, csv)
      PROVE  TypeOK'
  <2>1. [mode |-> "train", csv |-> csv, output |-> File("model", now)] \in Command
    BY RunnerAssumption, FileNames DEF Command, TypeOK, Csvs
  <2> QED
    BY <1>2, <2>1 DEF StartTrain, TypeOK, Tabs
<1>3. ASSUME NEW model \in Models, NEW tmodel \in Models, NEW table \in Edits,
             NEW ttable \in TargetEdits \cup {NoTable},
             StartClassify(r, model, table, tmodel, ttable)
      PROVE  TypeOK'
  <2> DEFINE default == File("config", now)
             target  == File("target_config", now)
  <2>1. /\ default \in Path /\ default.kind = "config"
        /\ target \in Path /\ target.kind = "target_config"
    BY RunnerAssumption, FileNames DEF TypeOK
  <2>2. FileOK(file')
    <3>1. FileOK([file EXCEPT ![default] = table])
      BY <2>1, FileTyped, TableFits, WriteFile DEF Tables
    <3>2. ttable # NoTable => FileOK([[file EXCEPT ![default] = table] EXCEPT ![target] = ttable])
      BY <2>1, <3>1, TableFits, WriteFile DEF Tables
    <3> QED
      BY <1>3, <3>1, <3>2 DEF StartClassify, Prefix
  <2>3. cmd' \in [Runs -> Command]
    <3>1. /\ [mode |-> "classify", default |-> [model |-> model, config |-> default],
              target |-> [model |-> tmodel, config |-> target]] \in Command
          /\ [mode |-> "classify", default |-> [model |-> model, config |-> default],
              target |-> NoSet] \in Command
      BY <2>1 DEF Command, Pair, Models
    <3> QED
      BY <1>3, <3>1 DEF StartClassify, Prefix, TypeOK
  <2>4. asked' \in [Runs -> [default : Tables \cup {NoTable},
                            targets : SUBSET (Tables \cup {NoTable})]]
    BY <1>3 DEF StartClassify, TypeOK, Tables
  <2>5. /\ UNCHANGED <<now, signalled, input, snapshot, saved, killed, failed, wiped, settled>>
        /\ handle' = [handle EXCEPT !["classify"] = r]
        /\ pc' = [pc EXCEPT ![r] = "new"]
    BY <1>3 DEF StartClassify
  <2> QED
    BY <2>2, <2>3, <2>4, <2>5 DEF TypeOK, Tabs, FileOK
<1> QED
  BY <1>1, <1>2, <1>3 DEF GuiStart

LEMMA TypeTeddy ==
  ASSUME TypeOK, CommandSound, NEW r \in Runs,
         \/ CheckOutput(r) \/ LoadDefault(r) \/ LoadTarget(r) \/ Attach(r)
         \/ CreateCsv(r) \/ FinishCsv(r) \/ Publish(r) \/ Rename(r) \/ EndLoop(r)
         \/ LeaveOnError(r) \/ Kill(r)
  PROVE  TypeOK'
<1> USE DEF histVars, At
<1>1. CASE CheckOutput(r) \/ Attach(r) \/ Publish(r) \/ EndLoop(r)
  BY <1>1 DEF CheckOutput, Attach, Publish, EndLoop, TypeOK
<1>2. CASE LoadDefault(r)
  <2>1. CASE UNCHANGED input
    BY <1>2, <2>1 DEF LoadDefault, TypeOK
  <2>2. CASE /\ Loads(cmd[r].default)
             /\ input' = [input EXCEPT ![r].default = file[cmd[r].default.config]]
    <3>1. file[cmd[r].default.config] \in Tables
      <4>1. cmd[r].default \in Pair /\ cmd[r].default.config.kind = "config"
        BY <1>2, <2>2, KindOfRun DEF LoadDefault
      <4>2. cmd[r].default.config \in Path
        BY <4>1 DEF Pair
      <4> QED
        BY <2>2, <4>1, <4>2 DEF Loads, TypeOK, Content
    <3>2. input' \in [Runs -> [csv : Output, default : Tables \cup {NoTable},
                              target : Tables \cup {NoTable}]]
      BY <2>2, <3>1 DEF TypeOK
    <3> QED
      BY <1>2, <3>2 DEF LoadDefault, TypeOK
  <2> QED
    BY <1>2, <2>1, <2>2 DEF LoadDefault
<1>3. CASE LoadTarget(r)
  <2>1. CASE UNCHANGED input
    BY <1>3, <2>1 DEF LoadTarget, TypeOK
  <2>2. CASE /\ cmd[r].target # NoSet /\ Loads(cmd[r].target)
             /\ input' = [input EXCEPT ![r].target = file[cmd[r].target.config]]
    <3>1. file[cmd[r].target.config] \in Tables
      <4>1. cmd[r].target \in Pair /\ cmd[r].target.config.kind = "target_config"
        BY <1>3, <2>2, KindOfRun DEF LoadTarget
      <4>2. cmd[r].target.config \in Path
        BY <4>1 DEF Pair
      <4> QED
        BY <2>2, <4>1, <4>2 DEF Loads, TypeOK, Content
    <3>2. input' \in [Runs -> [csv : Output, default : Tables \cup {NoTable},
                              target : Tables \cup {NoTable}]]
      BY <2>2, <3>1 DEF TypeOK
    <3> QED
      BY <1>3, <3>2 DEF LoadTarget, TypeOK
  <2> QED
    BY <1>3, <2>1, <2>2 DEF LoadTarget
<1>4. CASE CreateCsv(r)
  <2>1. cmd[r].output \in Path /\ cmd[r].output.kind = "event"
    BY <1>4, KindOfRun DEF CreateCsv, Csvs
  <2>2. FileOK(file')
    BY <1>4, <2>1, FileTyped, WriteFile, OutputFits, Contents DEF CreateCsv
  <2> QED
    BY <1>4, <2>2 DEF CreateCsv, TypeOK, FileOK
<1>5. CASE FinishCsv(r)
  <2>1. cmd[r].output \in Path /\ cmd[r].output.kind = "event"
    BY <1>5, KindOfRun DEF FinishCsv, Csvs
  <2>2. FileOK(file')
    BY <1>5, <2>1, FileTyped, WriteFile, OutputFits, Contents DEF FinishCsv, Completed
  <2>3. /\ pc' \in [Runs -> {"off", "new", "target", "init", "loop", "save", "flush",
                           "exit", "publish", "read", "filter", "filtered", "fit", "write",
                           "tidy", "ended"}]
        /\ saved' \in SUBSET Runs
    BY <1>5 DEF FinishCsv, TypeOK
  <2> QED
    BY <1>5, <2>2, <2>3 DEF FinishCsv, TypeOK, FileOK
<1>6. CASE Rename(r)
  BY <1>6, Contents DEF Rename, TypeOK
<1>7. CASE Kill(r)
  BY <1>7 DEF Kill, TypeOK, Collecting
<1>8. CASE LeaveOnError(r)
  BY <1>8 DEF LeaveOnError, TypeOK, Collecting
<1> QED
  BY <1>1, <1>2, <1>3, <1>4, <1>5, <1>6, <1>7, <1>8

LEMMA TypeTrain ==
  ASSUME TypeOK, CommandSound, NEW r \in Runs,
         \/ ReadCsv(r) \/ CreateFiltered(r) \/ FinishFiltered(r) \/ ReadFiltered(r)
         \/ CreateModel(r) \/ FinishModel(r) \/ RemoveFiltered(r)
  PROVE  TypeOK'
<1> USE DEF histVars, At
<1>1. ASSUME NEW p \in Path, p.kind \in {"event", "filtered"}, NEW from,
             NEW to \in {"read", "fit"}, Reads(r, p, from, to)
      PROVE  TypeOK'
  <2>1. CASE pc' = [pc EXCEPT ![r] = "ended"] /\ UNCHANGED input
    BY <1>1, <2>1 DEF Reads, TypeOK
  <2>2. CASE /\ file[p] # NoFile /\ pc' = [pc EXCEPT ![r] = to]
             /\ input' = [input EXCEPT ![r].csv = file[p]]
    <3>1. file[p] \in Output
      BY <1>1, <2>2 DEF TypeOK, Content
    <3>2. input' \in [Runs -> [csv : Output, default : Tables \cup {NoTable},
                              target : Tables \cup {NoTable}]]
      <4>1. PICK i \in [csv : Output, default : Tables \cup {NoTable}, target : Tables \cup {NoTable}] :
              i = input[r]
        BY DEF TypeOK
      <4>2. PICK c \in Output : c = file[p]
        BY <3>1
      <4>3. [i EXCEPT !.csv = c]
              \in [csv : Output, default : Tables \cup {NoTable}, target : Tables \cup {NoTable}]
        OBVIOUS
      <4>4. input' = [input EXCEPT ![r] = [i EXCEPT !.csv = c]]
        BY <2>2, <4>1, <4>2
      <4> QED
        BY <4>3, <4>4 DEF TypeOK
    <3> QED
      BY <1>1, <2>2, <3>2 DEF Reads, TypeOK
  <2> QED
    BY <1>1, <2>1, <2>2 DEF Reads
<1>2. CASE ReadCsv(r)
  BY <1>1, <1>2, KindOfRun DEF ReadCsv, Csvs
<1>3. CASE ReadFiltered(r)
  BY <1>1, <1>3, KindOfRun DEF ReadFiltered
<1>4. CASE CreateFiltered(r) \/ RemoveFiltered(r)
  <2>1. Filtered(r) \in Path /\ Filtered(r).kind = "filtered"
    BY <1>4, KindOfRun DEF CreateFiltered, RemoveFiltered
  <2>2. FileOK(file')
    BY <1>4, <2>1, FileTyped, WriteFile, OutputFits, Contents
       DEF CreateFiltered, RemoveFiltered
  <2> QED
    BY <1>4, <2>2 DEF CreateFiltered, RemoveFiltered, TypeOK, FileOK
<1>5. CASE FinishFiltered(r)
  <2>1. Filtered(r) \in Path /\ Filtered(r).kind = "filtered"
    BY <1>5, KindOfRun DEF FinishFiltered
  <2>2. input[r].csv.whole \in BOOLEAN
    BY DEF TypeOK, Output
  <2>3. [Part(r) EXCEPT !.whole = input[r].csv.whole] \in Output
    BY <2>2 DEF Part, Output
  <2>4. FileOK(file')
    BY <1>5, <2>1, <2>3, FileTyped, WriteFile, OutputFits DEF FinishFiltered
  <2> QED
    BY <1>5, <2>4 DEF FinishFiltered, TypeOK, FileOK
<1>6. CASE CreateModel(r) \/ FinishModel(r)
  <2>1. cmd[r].output \in Path /\ cmd[r].output.kind = "model"
    BY <1>6, KindOfRun DEF CreateModel, FinishModel, Models
  <2>2. FileOK(file')
    BY <1>6, <2>1, FileTyped, WriteFile, OutputFits, Contents
       DEF CreateModel, FinishModel, Completed
  <2> QED
    BY <1>6, <2>2 DEF CreateModel, FinishModel, TypeOK, FileOK
<1> QED
  BY <1>2, <1>3, <1>4, <1>5, <1>6

LEMMA TypeStep == TypeOK /\ CommandSound /\ [Next]_vars => TypeOK'
<1> SUFFICES ASSUME TypeOK, CommandSound, [Next]_vars PROVE TypeOK'
  OBVIOUS
<1>1. CASE UNCHANGED vars
  BY <1>1 DEF vars, histVars, TypeOK
<1>2. CASE GuiStep
  BY <1>2, TypeGui
<1>3. ASSUME NEW r \in Runs, GuiStart(r) \/ RunStep(r) \/ Kill(r)
      PROVE  TypeOK'
  BY <1>3, TypeStart, TypeTeddy, TypeTrain DEF RunStep
<1> QED
  BY <1>1, <1>2, <1>3 DEF Next

-----------------------------------------------------------------------------
(* The names of the files. *)

(* What a program's own step can change, and where it may lead.            *)
LEMMA RunMoves ==
  ASSUME TypeOK, CommandSound, NEW r \in Runs, RunStep(r) \/ Kill(r)
  PROVE  /\ UNCHANGED <<now, handle, cmd, signalled, asked, wiped, settled>>
         /\ Live(r)
         /\ \A q \in Runs \ {r} : pc'[q] = pc[q] /\ input'[q] = input[q]
         /\ Mode(r, "collect") =>
              pc'[r] \in {"init", "loop", "save", "exit", "flush", "ended"}
         /\ Mode(r, "train") =>
              pc'[r] \in {"read", "filter", "filtered", "fit", "write", "tidy", "ended"}
         /\ Mode(r, "classify") => pc'[r] \in {"target", "init", "loop", "publish", "ended"}
<1> USE DEF histVars, At, Live
<1>1. CASE CheckOutput(r)
  BY <1>1 DEF CheckOutput, TypeOK, Mode
<1>2. CASE LoadDefault(r)
  BY <1>2 DEF LoadDefault, TypeOK, Mode
<1>3. CASE LoadTarget(r)
  BY <1>3 DEF LoadTarget, TypeOK, Mode
<1>4. CASE Attach(r)
  BY <1>4, KindOfRun DEF Attach, TypeOK, Mode
<1>5. CASE CreateCsv(r)
  BY <1>5 DEF CreateCsv, TypeOK, Mode
<1>6. CASE FinishCsv(r)
  BY <1>6 DEF FinishCsv, TypeOK, Mode
<1>7. CASE Publish(r)
  BY <1>7 DEF Publish, TypeOK, Mode
<1>8. CASE Rename(r)
  BY <1>8, KindOfRun DEF Rename, TypeOK, Mode
<1>9. CASE EndLoop(r)
  BY <1>9, KindOfRun DEF EndLoop, TypeOK, Mode
<1>10. CASE Kill(r)
  BY <1>10 DEF Kill, TypeOK, Attached
<1>11. CASE ReadCsv(r)
  BY <1>11 DEF ReadCsv, Reads, TypeOK, Mode
<1>12. CASE ReadFiltered(r)
  BY <1>12, KindOfRun DEF ReadFiltered, Reads, TypeOK, Mode
<1>13. CASE CreateFiltered(r) \/ FinishFiltered(r) \/ RemoveFiltered(r)
  BY <1>13, KindOfRun DEF CreateFiltered, FinishFiltered, RemoveFiltered, TypeOK, Mode
<1>14. CASE CreateModel(r) \/ FinishModel(r)
  BY <1>14, KindOfRun DEF CreateModel, FinishModel, TypeOK, Mode
<1>15. CASE LeaveOnError(r)
  BY <1>15 DEF LeaveOnError, TypeOK, Mode
<1> QED
  BY <1>1, <1>2, <1>3, <1>4, <1>5, <1>6, <1>7, <1>8, <1>9, <1>10, <1>11, <1>12, <1>13,
     <1>14, <1>15 DEF RunStep

(* What pressing a Start button does to the run. *)
LEMMA StartMoves ==
  ASSUME TypeOK, NEW r \in Runs, GuiStart(r)
  PROVE  /\ UNCHANGED <<now, signalled, input, snapshot, saved, killed, failed, wiped>>
         /\ pc[r] = "off" /\ pc'[r] = "new"
         /\ \A q \in Runs \ {r} : pc'[q] = pc[q] /\ cmd'[q] = cmd[q] /\ asked'[q] = asked[q]
         /\ \E tab \in Tabs :
              /\ ~Running(tab) /\ handle' = [handle EXCEPT ![tab] = r]
              /\ cmd'[r].mode = tab
         /\ cmd'[r].mode = "collect" =>
              /\ cmd'[r].output = File("event", now)
              /\ UNCHANGED <<file, settled>>
         /\ cmd'[r].mode = "train" =>
              /\ cmd'[r].csv \in Csvs /\ cmd'[r].output = File("model", now)
              /\ UNCHANGED file
         /\ cmd'[r].mode = "classify" =>
              /\ cmd'[r].default.config = File("config", now)
              /\ cmd'[r].target = NoSet \/ cmd'[r].target.config = File("target_config", now)
              /\ UNCHANGED settled
<1> USE DEF histVars, At, Launch
<1>1. ASSUME NEW checkpoint \in BOOLEAN, StartCollect(r, checkpoint)
      PROVE  /\ cmd'[r].mode = "collect" /\ cmd'[r].output = File("event", now)
             /\ UNCHANGED <<now, signalled, input, snapshot, saved, killed, failed, wiped, file, settled>>
             /\ pc[r] = "off" /\ pc'[r] = "new"
             /\ \A q \in Runs \ {r} : pc'[q] = pc[q] /\ cmd'[q] = cmd[q] /\ asked'[q] = asked[q]
             /\ ~Running("collect") /\ handle' = [handle EXCEPT !["collect"] = r]
  BY <1>1 DEF StartCollect, TypeOK
<1>2. ASSUME NEW csv \in Csvs, StartTrain(r, csv)
      PROVE  /\ cmd'[r].mode = "train" /\ cmd'[r].csv \in Csvs
             /\ cmd'[r].output = File("model", now)
             /\ UNCHANGED <<now, signalled, input, snapshot, saved, killed, failed, wiped, file>>
             /\ pc[r] = "off" /\ pc'[r] = "new"
             /\ \A q \in Runs \ {r} : pc'[q] = pc[q] /\ cmd'[q] = cmd[q] /\ asked'[q] = asked[q]
             /\ ~Running("train") /\ handle' = [handle EXCEPT !["train"] = r]
  BY <1>2 DEF StartTrain, TypeOK
<1>3. ASSUME NEW model \in Models, NEW tmodel \in Models, NEW table \in Edits,
             NEW ttable \in TargetEdits \cup {NoTable},
             StartClassify(r, model, table, tmodel, ttable)
      PROVE  /\ cmd'[r].mode = "classify"
             /\ cmd'[r].default.config = File("config", now)
             /\ cmd'[r].target = NoSet \/ cmd'[r].target.config = File("target_config", now)
             /\ UNCHANGED <<now, signalled, input, snapshot, saved, killed, failed, wiped, settled>>
             /\ pc[r] = "off" /\ pc'[r] = "new"
             /\ \A q \in Runs \ {r} : pc'[q] = pc[q] /\ cmd'[q] = cmd[q] /\ asked'[q] = asked[q]
             /\ ~Running("classify") /\ handle' = [handle EXCEPT !["classify"] = r]
  BY <1>3 DEF StartClassify, Prefix, TypeOK
<1> QED
  BY <1>1, <1>2, <1>3 DEF GuiStart, Tabs

(* The buttons that start nothing, and the passing of time. *)
LEMMA GuiMoves ==
  ASSUME TypeOK, GuiStep
  PROVE  /\ UNCHANGED <<cmd, input, snapshot, saved, killed, failed>>
         /\ \A q \in Runs : pc'[q] = pc[q] \/ (pc'[q] = "ended" /\ Live(q))
         /\ \/ UNCHANGED <<now, handle>>
            \/ /\ now' = now + 1 /\ UNCHANGED <<file, pc>>
               /\ handle' = handle \/ handle' = [tab \in Tabs |-> NoRun]
<1> USE DEF histVars
<1>1. CASE Tick
  BY <1>1 DEF Tick
<1>2. CASE Reopen
  BY <1>2 DEF Reopen
<1>3. ASSUME NEW kinds, Clear(kinds)
      PROVE  UNCHANGED <<cmd, input, snapshot, saved, killed, failed, pc, now, handle>>
  BY <1>3 DEF Clear
<1>4. CASE \E tab \in Tabs : Stop(tab)
  <2>1. PICK tab \in Tabs : Stop(tab)
    BY <1>4
  <2>2. UNCHANGED <<cmd, input, snapshot, saved, killed, failed, now, handle>>
    BY <2>1 DEF Stop
  <2>3. handle[tab] \in Runs /\ Live(handle[tab])
    BY <2>1 DEF Stop, Running, TypeOK
  <2>4. pc' = pc \/ pc' = [pc EXCEPT ![handle[tab]] = "ended"]
    BY <2>1 DEF Stop
  <2> QED
    BY <2>2, <2>3, <2>4 DEF TypeOK
<1>5. CASE \E ttable \in TargetEdits : Apply(ttable)
  BY <1>5 DEF Apply
<1>6. CASE ClearCsv \/ ClearJson
  BY <1>3, <1>6 DEF ClearCsv, ClearJson
<1> QED
  BY <1>1, <1>2, <1>4, <1>5, <1>6 DEF GuiStep

LEMMA CommandStep ==
  ASSUME TypeOK, CommandSound, [Next]_vars
  PROVE  CommandSound'
<1>1. CASE UNCHANGED vars
  BY <1>1 DEF vars, CommandSound, Mode
<1>2. CASE GuiStep
  <2>1. now \in Nat /\ now' \in {now, now + 1}
    BY <1>2, GuiMoves, RunnerAssumption DEF TypeOK
  <2>2. ASSUME NEW r \in Runs
        PROVE  /\ Mode(r, "collect") => cmd[r].output.at \in Nat
               /\ Mode(r, "classify") => cmd[r].default.config.at \in Nat
    BY <2>2, KindOfRun, FileNames, RunnerAssumption DEF Csvs, Pair
  <2> QED
    BY <1>2, <2>1, <2>2, GuiMoves DEF CommandSound, Mode, Live
<1>3. ASSUME NEW r \in Runs, GuiStart(r)
      PROVE  CommandSound'
  <2>1. now \in 0 .. LastSecond
    BY RunnerAssumption DEF TypeOK
  <2> QED
    BY <1>3, <2>1, StartMoves, FileNames DEF CommandSound, Mode, Csvs, Tabs
<1>4. ASSUME NEW r \in Runs, RunStep(r) \/ Kill(r)
      PROVE  CommandSound'
  BY <1>4, RunMoves, KindOfRun DEF CommandSound, Mode
<1> QED
  BY <1>1, <1>2, <1>3, <1>4 DEF Next

LEMMA HandleStep ==
  ASSUME TypeOK, CommandSound, HandleSound, [Next]_vars
  PROVE  HandleSound'
<1>1. CASE UNCHANGED vars
  BY <1>1 DEF vars, HandleSound, Mode
<1>2. CASE GuiStep
  BY <1>2, GuiMoves DEF HandleSound, Mode
<1>3. ASSUME NEW r \in Runs, GuiStart(r)
      PROVE  HandleSound'
  <2>1. ASSUME NEW tab \in Tabs, handle[tab] = r
        PROVE  FALSE
    BY <1>3, <2>1, StartMoves, Contents DEF HandleSound, CommandSound, Mode, Tabs
  <2> QED
    BY <1>3, <2>1, StartMoves DEF HandleSound, Mode, TypeOK
<1>4. ASSUME NEW r \in Runs, RunStep(r) \/ Kill(r)
      PROVE  HandleSound'
  BY <1>4, RunMoves DEF HandleSound, Mode
<1> QED
  BY <1>1, <1>2, <1>3, <1>4 DEF Next

LEMMA FreshStep ==
  ASSUME TypeOK, CommandSound, NamesFresh, [Next]_vars
  PROVE  NamesFresh'
<1>0. \A r \in Runs :
        /\ Mode(r, "collect") => cmd[r].output.at \in Nat
        /\ Mode(r, "classify") => cmd[r].default.config.at \in Nat
  BY KindOfRun, FileNames, RunnerAssumption DEF Csvs, Pair
<1>1. CASE UNCHANGED vars
  BY <1>1 DEF vars, NamesFresh, Mode, Live
<1>2. CASE GuiStep
  <2>1. now \in Nat
    BY RunnerAssumption DEF TypeOK
  <2>2. CASE UNCHANGED <<now, handle>>
    BY <1>2, <2>2, GuiMoves DEF NamesFresh, Mode, Live
  <2>3. CASE now' = now + 1
    BY <1>0, <1>2, <2>1, <2>3, GuiMoves DEF NamesFresh, CommandSound, Mode, Live
  <2> QED
    BY <1>2, <2>2, <2>3, GuiMoves
<1>3. ASSUME NEW r \in Runs, GuiStart(r)
      PROVE  NamesFresh'
  <2>1. PICK tab \in Tabs : /\ ~Running(tab) /\ handle' = [handle EXCEPT ![tab] = r]
                            /\ cmd'[r].mode = tab
    BY <1>3, StartMoves
  <2>2. ASSUME NEW q \in Runs, Live(q)', q # r
        PROVE  /\ Live(q)
               /\ Mode(q, "collect") => handle'["collect"] = q \/ cmd[q].output.at < now
               /\ Mode(q, "classify") => handle'["classify"] = q \/ cmd[q].default.config.at < now
    <3>1. Live(q)
      BY <1>3, <2>2, StartMoves DEF Live
    <3>2. handle[tab] # q
      BY <2>1, <3>1, Contents DEF Running
    <3> QED
      BY <2>1, <3>1, <3>2 DEF NamesFresh, TypeOK, Tabs
  <2>3. /\ Mode(r, "collect")' => handle'["collect"] = r
        /\ Mode(r, "classify")' => handle'["classify"] = r
    BY <2>1 DEF Mode, TypeOK, Tabs
  <2> QED
    BY <1>3, <2>2, <2>3, StartMoves DEF NamesFresh, Mode
<1>4. ASSUME NEW r \in Runs, RunStep(r) \/ Kill(r)
      PROVE  NamesFresh'
  BY <1>4, RunMoves DEF NamesFresh, Mode, Live
<1> QED
  BY <1>1, <1>2, <1>3, <1>4 DEF Next

-----------------------------------------------------------------------------
(* One scheduler at a time. *)

LEMMA AttachMoves ==
  ASSUME TypeOK, CommandSound, NEW r \in Runs, RunStep(r) \/ Kill(r)
  PROVE  /\ r \in Attached' => r \in Attached \/ Attached = {}
         /\ r \in Attached => r \in Attached' \/ pc'[r] = "ended"
         /\ \/ UNCHANGED <<snapshot, saved>>
            \/ UNCHANGED snapshot /\ saved' = saved \cup {r} /\ Mode(r, "collect")
            \/ /\ snapshot' = Whole(r) /\ saved' = saved \cup {r}
               /\ Mode(r, "classify") /\ r \in Attached /\ r \in Attached'
<1> USE DEF histVars, At, Attached
<1>1. CASE CheckOutput(r)
  BY <1>1 DEF CheckOutput, TypeOK
<1>2. CASE LoadDefault(r)
  BY <1>2 DEF LoadDefault, TypeOK
<1>3. CASE LoadTarget(r)
  BY <1>3 DEF LoadTarget, TypeOK
<1>4. CASE Attach(r)
  BY <1>4 DEF Attach, TypeOK
<1>5. CASE CreateCsv(r)
  BY <1>5 DEF CreateCsv, TypeOK
<1>6. CASE FinishCsv(r)
  BY <1>6 DEF FinishCsv, TypeOK
<1>7. CASE Publish(r)
  BY <1>7 DEF Publish, TypeOK
<1>8. CASE Rename(r)
  BY <1>8, KindOfRun DEF Rename, TypeOK
<1>9. CASE EndLoop(r)
  BY <1>9 DEF EndLoop, TypeOK
<1>10. CASE Kill(r)
  BY <1>10 DEF Kill, TypeOK
<1>11. CASE ReadCsv(r) \/ ReadFiltered(r)
  BY <1>11 DEF ReadCsv, ReadFiltered, Reads, TypeOK
<1>12. CASE CreateFiltered(r) \/ FinishFiltered(r) \/ RemoveFiltered(r)
  BY <1>12 DEF CreateFiltered, FinishFiltered, RemoveFiltered, TypeOK
<1>13. CASE CreateModel(r) \/ FinishModel(r)
  BY <1>13 DEF CreateModel, FinishModel, TypeOK
<1>14. CASE LeaveOnError(r)
  BY <1>14 DEF LeaveOnError, TypeOK
<1> QED
  BY <1>1, <1>2, <1>3, <1>4, <1>5, <1>6, <1>7, <1>8, <1>9, <1>10, <1>11, <1>12, <1>13,
     <1>14 DEF RunStep

LEMMA AttachedStep ==
  ASSUME TypeOK, CommandSound, OneAttached, [Next]_vars
  PROVE  OneAttached'
<1>1. CASE UNCHANGED vars
  BY <1>1 DEF vars, OneAttached, Attached
<1>2. CASE GuiStep
  BY <1>2, GuiMoves DEF OneAttached, Attached
<1>3. ASSUME NEW r \in Runs, GuiStart(r)
      PROVE  OneAttached'
  BY <1>3, StartMoves DEF OneAttached, Attached
<1>4. ASSUME NEW r \in Runs, RunStep(r) \/ Kill(r)
      PROVE  OneAttached'
  <2>1. \A q \in Runs \ {r} : pc'[q] = pc[q]
    BY <1>4, RunMoves
  <2>2. r \in Attached' => r \in Attached \/ Attached = {}
    BY <1>4, AttachMoves
  <2> QED
    BY <2>1, <2>2 DEF OneAttached, Attached
<1> QED
  BY <1>1, <1>2, <1>3, <1>4 DEF Next

LEMMA RowsStep ==
  ASSUME TypeOK, CommandSound, OneAttached, RowsSound, [Next]_vars
  PROVE  RowsSound'
<1>1. CASE UNCHANGED vars
  BY <1>1 DEF vars, histVars, RowsSound, Attached, Mode, Live
<1>2. CASE GuiStep
  BY <1>2, GuiMoves DEF RowsSound, Attached, Mode, Live, TypeOK
<1>3. ASSUME NEW r \in Runs, GuiStart(r)
      PROVE  RowsSound'
  <2>1. r \notin saved
    BY <1>3, StartMoves DEF RowsSound, CommandSound, Mode
  <2> QED
    BY <1>3, <2>1, StartMoves DEF RowsSound, Attached, Mode, Live, TypeOK
<1>4. ASSUME NEW r \in Runs, RunStep(r) \/ Kill(r)
      PROVE  RowsSound'
  <2>1. UNCHANGED cmd /\ Live(r) /\ \A q \in Runs \ {r} : pc'[q] = pc[q]
    BY <1>4, RunMoves
  <2>2. r \in Attached => r \in Attached' \/ pc'[r] = "ended"
    BY <1>4, AttachMoves
  <2>3. CASE UNCHANGED snapshot /\ (UNCHANGED saved \/ (saved' = saved \cup {r} /\ Mode(r, "collect")))
    BY <2>1, <2>2, <2>3 DEF RowsSound, Attached, Mode, Live, TypeOK
  <2>4. CASE /\ snapshot' = Whole(r) /\ saved' = saved \cup {r}
             /\ Mode(r, "classify") /\ r \in Attached /\ r \in Attached'
    BY <2>1, <2>4 DEF RowsSound, OneAttached, Attached, Mode, Live, TypeOK
  <2> QED
    BY <1>4, <2>3, <2>4, AttachMoves
<1> QED
  BY <1>1, <1>2, <1>3, <1>4 DEF Next

-----------------------------------------------------------------------------
(* Who writes which file. *)

(* The session's buttons write configurations, and clear.                  *)
LEMMA GuiFiles ==
  ASSUME TypeOK, NEW p \in Path, p.kind \in {"event", "filtered", "model"},
         GuiStep \/ \E r \in Runs : GuiStart(r)
  PROVE  file'[p] = file[p] \/ (file'[p] = NoFile /\ p.kind # "filtered")
<1>1. CASE Tick \/ Reopen
  BY <1>1 DEF Tick, Reopen
<1>2. ASSUME NEW kinds, Clear(kinds), "filtered" \notin kinds
      PROVE  file'[p] = file[p] \/ (file'[p] = NoFile /\ p.kind # "filtered")
  BY <1>2 DEF Clear
<1>3. CASE \E tab \in Tabs : Stop(tab)
  BY <1>3 DEF Stop
<1>4. \A kind \in {"config", "target_config"} : p # File(kind, now)
  BY DEF File
<1>5. CASE \E ttable \in TargetEdits : Apply(ttable)
  BY <1>4, <1>5 DEF Apply, Prefix, TypeOK
<1>6. ASSUME NEW r \in Runs, GuiStart(r)
      PROVE  file'[p] = file[p]
  BY <1>4, <1>6 DEF GuiStart, StartCollect, StartTrain, StartClassify, Prefix, TypeOK
<1> QED
  BY <1>1, <1>2, <1>3, <1>5, <1>6 DEF GuiStep, ClearCsv, ClearJson

(* A program writes its own output; train.py the filtered file too.        *)
LEMMA RunFiles ==
  ASSUME TypeOK, CommandSound, NEW r \in Runs, RunStep(r) \/ Kill(r),
         NEW p \in Path, file'[p] # file[p]
  PROVE  \/ Mode(r, "collect") /\ p = cmd[r].output /\ (CreateCsv(r) \/ FinishCsv(r))
         \/ Mode(r, "train") /\ p = cmd[r].output
         \/ /\ Mode(r, "train") /\ p = Filtered(r)
            /\ CreateFiltered(r) \/ FinishFiltered(r) \/ RemoveFiltered(r)
<1> USE DEF histVars, At
<1>1. CASE \/ CheckOutput(r) \/ LoadDefault(r) \/ LoadTarget(r) \/ Attach(r)
           \/ Publish(r) \/ Rename(r) \/ EndLoop(r) \/ LeaveOnError(r) \/ Kill(r)
           \/ ReadCsv(r) \/ ReadFiltered(r)
  BY <1>1 DEF CheckOutput, LoadDefault, LoadTarget, Attach, Publish, Rename, EndLoop,
              LeaveOnError, Kill, ReadCsv, ReadFiltered, Reads
<1>2. CASE CreateCsv(r) \/ FinishCsv(r)
  BY <1>2 DEF CreateCsv, FinishCsv, Completed, TypeOK
<1>3. CASE CreateModel(r) \/ FinishModel(r)
  BY <1>3, KindOfRun DEF CreateModel, FinishModel, Completed, TypeOK
<1>4. CASE CreateFiltered(r) \/ FinishFiltered(r) \/ RemoveFiltered(r)
  BY <1>4, KindOfRun DEF CreateFiltered, FinishFiltered, RemoveFiltered, TypeOK
<1> QED
  BY <1>1, <1>2, <1>3, <1>4 DEF RunStep

-----------------------------------------------------------------------------
(* The CSVs. *)

(* A collect run goes on only from a name that nothing has. *)
LEMMA WritingMoves ==
  ASSUME TypeOK, CommandSound, NEW r \in Runs, RunStep(r) \/ Kill(r), Writing(r)'
  PROVE  Writing(r) \/ file[cmd[r].output] = NoFile
<1>1. Mode(r, "collect") /\ UNCHANGED cmd
  BY RunMoves DEF Writing, Mode
<1>2. CASE CheckOutput(r)
  BY <1>2, <1>1 DEF CheckOutput, Writing, At, TypeOK
<1>3. CASE ~CheckOutput(r)
  <2>1. pc[r] # "new"
    BY <1>1, <1>3, KindOfRun
       DEF RunStep, LoadDefault, LoadTarget, Attach, CreateCsv, FinishCsv, Publish, Rename,
           EndLoop, LeaveOnError, Kill, Attached, ReadCsv, CreateFiltered, FinishFiltered,
           ReadFiltered, CreateModel, FinishModel, RemoveFiltered, Mode, At
  <2> QED
    BY <1>1, <2>1, RunMoves DEF Writing, CommandSound, Mode, Live
<1> QED
  BY <1>2, <1>3

LEMMA OwnedStep ==
  ASSUME TypeOK, CommandSound, NamesFresh, HandleSound, CsvOwned, [Next]_vars
  PROVE  CsvOwned'
<1> USE DEF Collecting
<1>0. \A r \in Collecting : cmd[r].output \in Path /\ cmd[r].output.kind = "event"
  BY KindOfRun DEF Csvs, Mode
<1>1. CASE UNCHANGED vars
  BY <1>1 DEF vars, CsvOwned, Writing, Mode, Live, Part, Whole
<1>2. CASE GuiStep
  <2>1. \A r \in Collecting :
          file'[cmd[r].output] = file[cmd[r].output] \/ file'[cmd[r].output] = NoFile
    BY <1>0, <1>2, GuiFiles
  <2>2. UNCHANGED cmd /\ \A q \in Runs : pc'[q] = pc[q] \/ (pc'[q] = "ended" /\ Live(q))
    BY <1>2, GuiMoves
  <2>3. \A q \in Runs : /\ Live(q)' => Live(q)
                        /\ Writing(q)' => Writing(q)
    BY <2>2 DEF Live, Writing, Mode
  <2>4. \A q \in Runs : Writing(q) => q \in Collecting
    BY DEF Writing, Mode
  <2> QED
    BY <2>1, <2>2, <2>3, <2>4 DEF CsvOwned, Part, Whole
<1>3. ASSUME NEW r \in Runs, GuiStart(r)
      PROVE  CsvOwned'
  <2>1. \A q \in Runs \ {r} : pc'[q] = pc[q] /\ cmd'[q] = cmd[q]
    BY <1>3, StartMoves
  <2>2. ASSUME NEW q \in Collecting', q # r, Live(q)', r \in Collecting'
        PROVE  cmd'[q].output # cmd'[r].output
    <3>1. /\ ~Running("collect") /\ cmd'[r].output = File("event", now)
          /\ now \in 0 .. LastSecond
      BY <1>3, <2>2, StartMoves, RunnerAssumption DEF TypeOK
    <3>2. q \in Collecting /\ Live(q) /\ cmd'[q] = cmd[q]
      BY <2>1, <2>2 DEF Live
    <3>3. handle["collect"] # q
      BY <3>1, <3>2, Contents DEF Running
    <3>4. cmd[q].output.at < now
      BY <3>2, <3>3 DEF NamesFresh, Mode
    <3> QED
      BY <3>1, <3>2, <3>4, FileNames
  <2>3. ASSUME NEW q \in Runs, Writing(q)'
        PROVE  file'[cmd'[q].output] \in {NoFile, Part(q), Whole(q)}
    <3>1. q # r
      BY <1>3, <2>3, StartMoves DEF Writing
    <3>2. Writing(q) /\ cmd'[q] = cmd[q]
      BY <2>1, <2>3, <3>1 DEF Writing, Mode
    <3>3. file'[cmd[q].output] \in {file[cmd[q].output], NoFile}
      BY <1>0, <1>3, <3>2, GuiFiles DEF Writing, Mode
    <3> QED
      BY <3>2, <3>3 DEF CsvOwned
  <2> QED
    BY <2>1, <2>2, <2>3 DEF CsvOwned, Live, Part, Whole
<1>4. ASSUME NEW r \in Runs, RunStep(r) \/ Kill(r)
      PROVE  CsvOwned'
  <2>1. UNCHANGED cmd /\ Live(r) /\ \A q \in Runs \ {r} : pc'[q] = pc[q]
    BY <1>4, RunMoves
  <2>2. \A q, p \in Collecting : q # p /\ Live(q)' /\ Live(p)' => cmd[q].output # cmd[p].output
    BY <2>1 DEF CsvOwned, Live
  <2>3. ASSUME NEW q \in Runs, Writing(q)'
        PROVE  file'[cmd[q].output] \in {NoFile, Part(q), Whole(q)}
    <3>1. Mode(q, "collect") /\ cmd[q].output \in Path
      BY <1>0, <2>1, <2>3 DEF Writing, Mode
    <3>2. CASE q # r
      <4>1. Writing(q) /\ Live(q)
        BY <2>1, <2>3, <3>2 DEF Writing, Live, Mode
      <4>2. file'[cmd[q].output] = file[cmd[q].output]
        <5>1. Mode(r, "collect") => cmd[r].output # cmd[q].output
          BY <2>1, <3>1, <3>2, <4>1 DEF CsvOwned, Mode
        <5>2. Mode(r, "train") => cmd[r].output.kind = "model" /\ Filtered(r).kind = "filtered"
          BY <1>4, KindOfRun DEF Models
        <5> QED
          BY <1>0, <1>4, <3>1, <5>1, <5>2, RunFiles DEF Mode
      <4> QED
        BY <4>1, <4>2 DEF CsvOwned
    <3>3. CASE q = r
      <4>1. file[cmd[r].output] \in {NoFile, Part(r), Whole(r)}
        BY <1>4, <2>3, <3>3, WritingMoves DEF CsvOwned
      <4>2. CASE CreateCsv(r)
        BY <3>1, <3>3, <4>2 DEF CreateCsv, TypeOK
      <4>3. CASE FinishCsv(r)
        BY <3>1, <3>3, <4>1, <4>3 DEF FinishCsv, Completed, TypeOK
      <4>4. CASE ~CreateCsv(r) /\ ~FinishCsv(r)
        <5>1. file'[cmd[r].output] = file[cmd[r].output]
          BY <1>4, <3>1, <3>3, <4>4, RunFiles DEF Mode
        <5> QED
          BY <3>3, <4>1, <5>1
      <4> QED
        BY <4>2, <4>3, <4>4
    <3> QED
      BY <3>2, <3>3
  <2> QED
    BY <2>1, <2>2, <2>3 DEF CsvOwned, Part, Whole
<1> QED
  BY <1>1, <1>2, <1>3, <1>4 DEF Next

(* Stop ends a run that is not in its loop yet; another finds the flag.     *)
LEMMA StopInLoop ==
  ASSUME TypeOK, GuiStep, NEW q \in Runs, pc[q] \notin {"new", "target", "init"}
  PROVE  pc'[q] = pc[q]
<1>1. CASE \E tab \in Tabs : Stop(tab)
  BY <1>1 DEF Stop, Running, TypeOK
<1> QED
  BY <1>1 DEF GuiStep, Tick, Reopen, ClearCsv, ClearJson, Clear, Apply

LEMMA PartStep ==
  ASSUME TypeOK, CommandSound, CsvOwned, PartExplained, [Next]_vars
  PROVE  PartExplained'
<1> USE DEF Collecting
<1> DEFINE Explains(q, p) == /\ q \in Collecting /\ cmd[q].output = p
                             /\ pc[q] \in {"save", "flush"} \/ q \in killed \cup failed
<1>1. CASE UNCHANGED vars
  BY <1>1 DEF vars, histVars, PartExplained
<1>2. CASE GuiStep
  <2>1. \A p \in Csvs : file'[p] = file[p] \/ file'[p] = NoFile
    BY <1>2, GuiFiles DEF Csvs
  <2>2. UNCHANGED <<cmd, killed, failed>>
    BY <1>2, GuiMoves
  <2>3. \A q \in Runs : pc[q] \in {"save", "flush"} => pc'[q] = pc[q]
    BY <1>2, StopInLoop
  <2> QED
    BY <2>1, <2>2, <2>3 DEF PartExplained
<1>3. ASSUME NEW r \in Runs, GuiStart(r)
      PROVE  PartExplained'
  <2>1. \A p \in Csvs : file'[p] = file[p] \/ file'[p] = NoFile
    BY <1>3, GuiFiles DEF Csvs
  <2>2. /\ UNCHANGED <<killed, failed>> /\ r \notin Collecting
        /\ \A q \in Runs \ {r} : pc'[q] = pc[q] /\ cmd'[q] = cmd[q]
    BY <1>3, StartMoves DEF CommandSound, Mode
  <2> QED
    BY <2>1, <2>2 DEF PartExplained
<1>4. ASSUME NEW r \in Runs, RunStep(r) \/ Kill(r), NEW p \in Csvs, file'[p] # NoFile
      PROVE  file'[p].whole \/ \E q \in Collecting' : Explains(q, p)'
  <2>1. UNCHANGED cmd /\ \A q \in Runs \ {r} : pc'[q] = pc[q]
    BY <1>4, RunMoves
  <2>2. killed \subseteq killed' /\ failed \subseteq failed'
    BY <1>4 DEF RunStep, CheckOutput, LoadDefault, LoadTarget, Attach, CreateCsv, FinishCsv,
                Publish, Rename, EndLoop, LeaveOnError, Kill, ReadCsv, CreateFiltered,
                FinishFiltered, ReadFiltered, Reads, CreateModel, FinishModel, RemoveFiltered, histVars
  <2>3. p \in Path /\ p.kind = "event"
    BY DEF Csvs
  <2>4. CASE CreateCsv(r) /\ p = cmd[r].output
    BY <2>1, <2>4 DEF CreateCsv, Mode, At, TypeOK
  <2>5. CASE FinishCsv(r) /\ p = cmd[r].output
    <3>1. file[p] \in {NoFile, Part(r), Whole(r)}
      BY <2>5 DEF FinishCsv, CsvOwned, Writing, At
    <3> QED
      BY <1>4, <2>3, <2>5, <3>1, Contents DEF FinishCsv, Completed, TypeOK
  <2>6. CASE ~(CreateCsv(r) /\ p = cmd[r].output) /\ ~(FinishCsv(r) /\ p = cmd[r].output)
    <3>1. file'[p] = file[p]
      <4>1. Mode(r, "train") => cmd[r].output.kind = "model" /\ Filtered(r).kind = "filtered"
        BY KindOfRun DEF Models
      <4> QED
        BY <1>4, <2>3, <2>6, <4>1, RunFiles
    <3>2. CASE file[p].whole
      BY <3>1, <3>2
    <3>3. ASSUME NEW q \in Collecting, Explains(q, p)
          PROVE  Explains(q, p)'
      <4>1. CASE q # r \/ q \in killed \cup failed
        BY <2>1, <2>2, <3>3, <4>1
      <4>2. CASE q = r /\ pc[r] \in {"save", "flush"}
        <5>1. CASE Kill(r)
          BY <2>1, <3>3, <4>2, <5>1 DEF Kill
        <5>2. CASE FinishCsv(r)
          BY <2>6, <3>3, <4>2, <5>2
        <5>3. CASE LeaveOnError(r)
          BY <2>1, <3>3, <4>2, <5>3 DEF LeaveOnError
        <5> QED
          BY <1>4, <2>6, <3>3, <4>2, <5>1, <5>2, <5>3, KindOfRun
             DEF RunStep, CheckOutput, LoadDefault, LoadTarget, Attach, CreateCsv, Publish,
                 Rename, EndLoop, ReadCsv, CreateFiltered, FinishFiltered, ReadFiltered, Reads,
                 CreateModel, FinishModel, RemoveFiltered, Mode, At
      <4> QED
        BY <3>3, <4>1, <4>2
    <3> QED
      BY <1>4, <3>1, <3>2, <3>3 DEF PartExplained
  <2> QED
    BY <2>4, <2>5, <2>6
<1> QED
  BY <1>1, <1>2, <1>3, <1>4 DEF Next, PartExplained

-----------------------------------------------------------------------------
(* Training. *)

(* The buttons, for a settled run: a whole CSV is cleared only from a run   *)
(* that has read it, or the run is settled no more.                         *)
LEMMA SettledGui ==
  ASSUME TypeOK, CommandSound, SettledSound, GuiStep
  PROVE  SettledSound'
<1>1. settled' \subseteq settled
  BY DEF GuiStep, Tick, Reopen, ClearCsv, ClearJson, Clear, Stop, Apply, histVars
<1>2. ASSUME NEW r \in settled', pc[r] = "new"
      PROVE  \A p \in Csvs : file'[p] = file[p]
  <2>1. CASE Tick \/ Reopen \/ \E tab \in Tabs : Stop(tab)
    BY <2>1 DEF Tick, Reopen, Stop
  <2>2. CASE ClearCsv
    BY <1>2, <2>2 DEF ClearCsv, Clear
  <2>3. CASE ClearJson
    BY <2>3 DEF ClearJson, Clear, Csvs
  <2>4. CASE \E ttable \in TargetEdits : Apply(ttable)
    BY <2>4 DEF Apply, Prefix, TypeOK, Csvs, File
  <2> QED
    BY <2>1, <2>2, <2>3, <2>4 DEF GuiStep
<1>3. /\ UNCHANGED <<cmd, input>>
      /\ \A q \in Runs : pc'[q] = pc[q] \/ (pc'[q] = "ended" /\ Live(q))
  BY GuiMoves
<1>4. \A p \in Path : p.kind = "filtered" => file'[p] = file[p]
  BY GuiFiles
<1>5. ASSUME NEW r \in settled'
      PROVE  SettledAt(r)'
  <2>1. r \in Runs /\ r \in settled /\ SettledAt(r)
    BY <1>1, <1>5 DEF SettledSound, TypeOK
  <2>2. CASE pc'[r] = "ended"
    BY <1>3, <2>1, <2>2 DEF SettledAt, Mode, Live
  <2>3. CASE pc'[r] = pc[r]
    <3>1. Live(r)' => Rivals(cmd[r].csv)' = {r}
      BY <1>3, <2>1, <2>3 DEF SettledAt, Rivals, Mode, Live
    <3>2. Filtered(r)' = Filtered(r) /\ file'[Filtered(r)] = file[Filtered(r)]
      BY <1>3, <1>4, <2>1, KindOfRun DEF SettledAt, Filtered
    <3>3. pc[r] = "new" => file'[cmd[r].csv] = file[cmd[r].csv]
      BY <1>2, <1>5, <2>1, KindOfRun DEF SettledAt
    <3>4. \A q \in Runs : Writing(q)' => Writing(q)
      BY <1>3 DEF Writing, Mode
    <3> QED
      BY <1>3, <2>1, <2>3, <3>1, <3>2, <3>3, <3>4 DEF SettledAt, Mode, Part
  <2> QED
    BY <1>3, <2>1, <2>2, <2>3
<1> QED
  BY <1>5 DEF SettledSound

(* What Start finds in the CSV, and whom it unsettles. *)
LEMMA TrainMoves ==
  ASSUME TypeOK, NEW r \in Runs, GuiStart(r), settled' # settled \/ cmd'[r].mode = "train"
  PROVE  /\ file[cmd'[r].csv] # NoFile
         /\ \/ /\ settled' = settled \cup {r} /\ cmd'[r].mode = "train"
               /\ Finished(cmd'[r].csv) /\ Rivals(cmd'[r].csv) = {}
            \/ settled' = settled \ Rivals(cmd'[r].csv)
<1> USE DEF histVars, At, Launch
<1>1. ASSUME NEW checkpoint \in BOOLEAN, StartCollect(r, checkpoint)
      PROVE  settled' = settled /\ cmd'[r].mode = "collect"
  BY <1>1 DEF StartCollect, TypeOK
<1>2. ASSUME NEW model \in Models, NEW tmodel \in Models, NEW table \in Edits,
             NEW ttable \in TargetEdits \cup {NoTable},
             StartClassify(r, model, table, tmodel, ttable)
      PROVE  settled' = settled /\ cmd'[r].mode = "classify"
  BY <1>2 DEF StartClassify, Prefix, TypeOK
<1>3. PICK csv \in Csvs : StartTrain(r, csv)
  BY <1>1, <1>2 DEF GuiStart
<1>4. cmd'[r].csv = csv /\ cmd'[r].mode = "train"
  BY <1>3 DEF StartTrain, TypeOK
<1> QED
  BY <1>3, <1>4 DEF StartTrain

LEMMA SettledStart ==
  ASSUME TypeOK, CommandSound, PartExplained, SettledSound, NEW r \in Runs, GuiStart(r)
  PROVE  SettledSound'
<1>1. /\ UNCHANGED <<input, killed, failed>> /\ pc[r] = "off" /\ pc'[r] = "new"
      /\ \A q \in Runs \ {r} : pc'[q] = pc[q] /\ cmd'[q] = cmd[q]
      /\ cmd'[r].mode = "train" => cmd'[r].csv \in Csvs
  BY StartMoves
<1>2. \A p \in Path : p.kind \in {"event", "filtered"} =>
        file'[p] = file[p] \/ (file'[p] = NoFile /\ p.kind # "filtered")
  BY GuiFiles
<1>3. \A q \in Runs : Writing(q)' => Writing(q) /\ cmd'[q] = cmd[q] /\ q # r
  BY <1>1 DEF Writing, Mode
<1>4. \A p \in Path : p.kind = "event" => file'[p] = file[p]
  <2>1. \A p \in Path, kind \in {"config", "target_config"} :
          p.kind = "event" => p # File(kind, now)
    BY DEF File
  <2> QED
    BY <2>1 DEF GuiStart, StartCollect, StartTrain, StartClassify, Prefix, TypeOK
<1>5. ASSUME r \in settled'
      PROVE  SettledAt(r)'
  <2>1. r \notin settled
    BY <1>1 DEF SettledSound, SettledAt, CommandSound, Mode
  <2>2. /\ cmd'[r].mode = "train" /\ file[cmd'[r].csv] # NoFile
        /\ Finished(cmd'[r].csv) /\ Rivals(cmd'[r].csv) = {}
    BY <1>5, <2>1, TrainMoves
  <2>3. cmd'[r].csv \in Csvs
    BY <1>1, <2>2
  <2>4. file[cmd'[r].csv].whole
    BY <2>2, <2>3 DEF PartExplained, Finished, Live
  <2>5. \A q \in Runs : Writing(q)' => cmd'[q].output # cmd'[r].csv
    BY <1>3, <2>2 DEF Finished, Collecting, Writing, Mode, Live
  <2>6. Rivals(cmd[r].csv)' = {r}
    BY <1>1, <2>2 DEF Rivals, Live
  <2> QED
    BY <1>1, <1>4, <2>2, <2>3, <2>4, <2>5, <2>6 DEF SettledAt, Mode, Csvs
<1>6. ASSUME NEW q \in settled', q # r
      PROVE  SettledAt(q)'
  <2>1. q \in settled /\ q \in Runs /\ SettledAt(q)
    BY <1>6, TrainMoves DEF SettledSound, TypeOK
  <2>2. /\ pc'[q] = pc[q] /\ cmd'[q] = cmd[q] /\ Mode(q, "train")
        /\ cmd[q].csv \in Csvs /\ Filtered(q)' = Filtered(q)
        /\ Filtered(q) \in Path /\ Filtered(q).kind = "filtered"
    BY <1>1, <1>6, <2>1, KindOfRun DEF SettledAt, Filtered
  <2>3. Live(q)' => Rivals(cmd[q].csv)' = {q}
    <3>1. SUFFICES ASSUME Live(q) PROVE Rivals(cmd[q].csv)' = {q}
      BY <2>2 DEF Live
    <3>2. Rivals(cmd[q].csv) = {q}
      BY <2>1, <3>1 DEF SettledAt
    <3>3. r \notin Rivals(cmd[q].csv)'
      BY <1>6, <2>2, <3>2, TrainMoves DEF Rivals
    <3> QED
      BY <1>1, <1>6, <2>2, <3>2, <3>3 DEF Rivals, Live
  <2>4. file'[cmd[q].csv] = file[cmd[q].csv] /\ file'[Filtered(q)] = file[Filtered(q)]
    BY <1>2, <1>4, <2>2 DEF Csvs
  <2> QED
    BY <1>1, <1>3, <2>1, <2>2, <2>3, <2>4 DEF SettledAt, Mode, Live, Part
<1> QED
  BY <1>5, <1>6 DEF SettledSound

(* Another program's step leaves a settled run what it has.                *)
LEMMA SettledOther ==
  ASSUME TypeOK, CommandSound, CsvOwned, SettledSound,
         NEW q \in Runs, RunStep(q) \/ Kill(q), NEW r \in settled, r # q
  PROVE  SettledAt(r)'
<1>1. /\ UNCHANGED <<cmd, settled>> /\ Live(q)
      /\ \A p \in Runs \ {q} : pc'[p] = pc[p] /\ input'[p] = input[p]
  BY RunMoves
<1>2. r \in Runs /\ SettledAt(r) /\ pc'[r] = pc[r] /\ input'[r] = input[r]
  BY <1>1 DEF SettledSound, TypeOK
<1>3. /\ Mode(r, "train") /\ cmd[r].csv \in Csvs
      /\ Filtered(r) \in Path /\ Filtered(r).kind = "filtered"
  BY <1>2, KindOfRun DEF SettledAt
<1>4. \A p \in Runs : Live(p)' => Live(p)
  BY <1>1 DEF Live
<1>5. Live(r)' => Rivals(cmd[r].csv)' = {r}
  BY <1>1, <1>2, <1>3, <1>4 DEF SettledAt, Rivals, Mode, Live
<1>6. ASSUME pc[r] = "new"
      PROVE  /\ file'[cmd[r].csv] = file[cmd[r].csv]
             /\ \A p \in Runs : Writing(p)' => cmd[p].output # cmd[r].csv
  <2>1. file'[cmd[r].csv] = file[cmd[r].csv]
    <3>1. Mode(q, "collect") /\ (CreateCsv(q) \/ FinishCsv(q)) => cmd[q].output # cmd[r].csv
      BY <1>2, <1>6 DEF SettledAt, CreateCsv, FinishCsv, Writing, At
    <3>2. Mode(q, "train") => cmd[q].output.kind = "model" /\ Filtered(q).kind = "filtered"
      BY KindOfRun DEF Models
    <3> QED
      BY <1>3, <3>1, <3>2, RunFiles DEF Csvs
  <2>2. ASSUME NEW p \in Runs, Writing(p)'
        PROVE  cmd[p].output # cmd[r].csv
    <3>1. CASE Writing(p)
      BY <1>2, <1>6, <3>1 DEF SettledAt
    <3>2. CASE ~Writing(p)
      <4>1. p = q
        BY <1>1, <2>2, <3>2 DEF Writing, Mode
      <4> QED
        BY <1>2, <1>6, <2>2, <3>2, <4>1, WritingMoves DEF SettledAt
    <3> QED
      BY <3>1, <3>2
  <2> QED
    BY <2>1, <2>2
<1>7. ASSUME Live(r)
      PROVE  file'[Filtered(r)] = file[Filtered(r)]
  <2>1. Mode(q, "train") => Filtered(q) # Filtered(r)
    <3>1. SUFFICES ASSUME Mode(q, "train"), Filtered(q) = Filtered(r) PROVE FALSE
      OBVIOUS
    <3>2. cmd[q].csv \in Csvs
      BY <3>1, KindOfRun
    <3>3. cmd[q].csv = cmd[r].csv
      BY <1>3, <3>1, <3>2, FileNames DEF Filtered, Csvs, File
    <3> QED
      BY <1>1, <1>2, <1>7, <3>1, <3>3 DEF SettledAt, Rivals, Mode
  <2>2. /\ Mode(q, "collect") => cmd[q].output.kind = "event"
        /\ Mode(q, "train") => cmd[q].output.kind = "model"
    BY KindOfRun DEF Csvs, Models
  <2> QED
    BY <1>3, <2>1, <2>2, RunFiles
<1> QED
  BY <1>1, <1>2, <1>3, <1>5, <1>6, <1>7 DEF SettledAt, Mode, Live, Filtered, Part

(* A settled run's own steps carry the whole CSV to the model. *)
LEMMA SettledOwn ==
  ASSUME TypeOK, CommandSound, SettledSound, NEW r \in settled, RunStep(r) \/ Kill(r)
  PROVE  SettledAt(r)'
<1> USE DEF histVars, At
<1>1. r \in Runs /\ SettledAt(r)
  BY DEF SettledSound, TypeOK
<1>2. /\ UNCHANGED <<cmd, settled>> /\ Live(r)
      /\ \A p \in Runs \ {r} : pc'[p] = pc[p] /\ input'[p] = input[p]
  BY <1>1, RunMoves
<1>3. /\ Mode(r, "train") /\ cmd[r].csv \in Csvs
      /\ Filtered(r) \in Path /\ Filtered(r).kind = "filtered" /\ Filtered(r)' = Filtered(r)
  BY <1>1, <1>2, KindOfRun DEF SettledAt, Filtered
<1>4. Rivals(cmd[r].csv)' = IF Live(r)' THEN {r} ELSE {}
  BY <1>1, <1>2, <1>3 DEF SettledAt, Rivals, Mode, Live
<1>5. CASE ReadCsv(r)
  <2>1. pc[r] = "new" /\ file[cmd[r].csv].whole /\ file[cmd[r].csv] # NoFile
    BY <1>1, <1>5 DEF ReadCsv, Reads, SettledAt
  <2>2. pc'[r] = "read" /\ input'[r].csv.whole
    BY <1>1, <1>5, <2>1 DEF ReadCsv, Reads, TypeOK
  <2> QED
    BY <1>2, <1>3, <1>4, <2>2 DEF SettledAt, Mode
<1>6. CASE CreateFiltered(r)
  <2>1. pc'[r] = "filter" /\ input'[r].csv.whole /\ file'[Filtered(r)] = Part(r)
    BY <1>1, <1>3, <1>6 DEF CreateFiltered, SettledAt, TypeOK
  <2> QED
    BY <1>2, <1>3, <1>4, <2>1 DEF SettledAt, Mode, Part
<1>7. CASE FinishFiltered(r)
  <2>1. file[Filtered(r)] = Part(r) /\ input[r].csv.whole
    BY <1>1, <1>7 DEF FinishFiltered, SettledAt
  <2>2. file'[Filtered(r)] = [Part(r) EXCEPT !.whole = TRUE]
    BY <1>3, <1>7, <2>1 DEF FinishFiltered, TypeOK, Output
  <2>3. file'[Filtered(r)].whole
    BY <2>2 DEF Part
  <2>4. pc'[r] = "filtered" /\ input'[r].csv.whole
    BY <1>1, <1>7, <2>1 DEF FinishFiltered, TypeOK
  <2> QED
    BY <1>2, <1>3, <1>4, <2>3, <2>4 DEF SettledAt, Mode
<1>8. CASE ReadFiltered(r)
  <2>1. file[Filtered(r)].whole
    BY <1>1, <1>8 DEF ReadFiltered, SettledAt
  <2>2. \/ pc'[r] = "ended"
        \/ pc'[r] = "fit" /\ input'[r].csv.whole
    BY <1>1, <1>8, <2>1 DEF ReadFiltered, Reads, TypeOK
  <2> QED
    BY <1>2, <1>3, <1>4, <2>2 DEF SettledAt, Mode, Live
<1>9. CASE CreateModel(r) \/ FinishModel(r) \/ RemoveFiltered(r)
  <2>1. pc'[r] \in {"write", "tidy", "ended"} /\ input'[r].csv.whole
    BY <1>1, <1>9 DEF CreateModel, FinishModel, RemoveFiltered, SettledAt, TypeOK
  <2> QED
    BY <1>2, <1>3, <1>4, <2>1 DEF SettledAt, Mode, Live
<1> QED
  <2>1. ~Mode(r, "collect") /\ ~Mode(r, "classify")
    BY <1>3 DEF Mode
  <2>2. pc[r] \notin {"init", "loop", "publish"}
    BY <1>1, <2>1, KindOfRun
  <2> QED
    BY <1>5, <1>6, <1>7, <1>8, <1>9, <2>1, <2>2
       DEF RunStep, CheckOutput, LoadDefault, LoadTarget, Attach, CreateCsv, FinishCsv, Publish,
           Rename, EndLoop, LeaveOnError, Kill

LEMMA SettledStep ==
  ASSUME TypeOK, CommandSound, CsvOwned, PartExplained, SettledSound, [Next]_vars
  PROVE  SettledSound'
<1>1. CASE UNCHANGED vars
  BY <1>1 DEF vars, histVars, SettledSound, SettledAt, Rivals, Writing, Mode, Live, Filtered, Part
<1>2. CASE GuiStep
  BY <1>2, SettledGui
<1>3. ASSUME NEW r \in Runs, GuiStart(r)
      PROVE  SettledSound'
  BY <1>3, SettledStart
<1>4. ASSUME NEW q \in Runs, RunStep(q) \/ Kill(q)
      PROVE  SettledSound'
  <2>1. settled' = settled
    BY <1>4, RunMoves
  <2> QED
    BY <1>4, <2>1, SettledOther, SettledOwn DEF SettledSound
<1> QED
  BY <1>1, <1>2, <1>3, <1>4 DEF Next

-----------------------------------------------------------------------------
(* The tables of a classify run. *)

LEMMA TablesGui ==
  ASSUME TypeOK, CommandSound, NamesFresh, TablesSound, GuiStep
  PROVE  TablesSound'
<1>1. /\ UNCHANGED <<cmd, input>>
      /\ \A q \in Runs : pc'[q] = pc[q] \/ (pc'[q] = "ended" /\ Live(q))
  BY GuiMoves
<1>2. \A q \in Runs : Loaded(q)' => Loaded(q)
  BY <1>1 DEF Loaded, Mode
<1>3. \A q \in Runs : Starting(q)' => Starting(q) /\ pc'[q] = pc[q]
  BY <1>1 DEF Starting, Mode
<1>4. CASE UNCHANGED asked /\ \A p \in Path : file'[p] = file[p] \/ file'[p] = NoFile
  <2>1. \A q \in Runs : Mode(q, "classify") =>
          /\ cmd[q].default.config \in Path
          /\ cmd[q].target # NoSet => cmd[q].target.config \in Path
    BY KindOfRun DEF Pair
  <2> QED
    BY <1>1, <1>2, <1>3, <1>4, <2>1 DEF TablesSound, TablesAt, Starting, Mode
<1>5. ASSUME NEW ttable \in TargetEdits, Apply(ttable)
      PROVE  TablesSound'
  <2> DEFINE target == File("target_config", now)
  <2>1. target \in Path /\ target.kind = "target_config" /\ target.at = now /\ now \in Nat
    BY RunnerAssumption, FileNames DEF TypeOK
  <2>2. UNCHANGED pc /\ file' = [file EXCEPT ![target] = ttable]
    BY <1>5 DEF Apply, Prefix
  <2>3. \A q \in Runs : asked'[q].default = asked[q].default
                        /\ asked[q].targets \subseteq asked'[q].targets
    BY <1>5 DEF Apply, TypeOK
  <2>4. ASSUME NEW q \in Runs, Starting(q)
        PROVE  /\ file'[cmd[q].default.config] = file[cmd[q].default.config]
               /\ cmd[q].target # NoSet =>
                    file'[cmd[q].target.config] \in {NoFile} \cup asked'[q].targets
    <3>1. Mode(q, "classify") /\ pc[q] \in {"new", "target"} /\ Live(q)
      BY <2>4 DEF Starting, Live
    <3>2. cmd[q].default \in Pair /\ cmd[q].default.config.kind = "config"
      BY <3>1, KindOfRun
    <3>3. file'[cmd[q].default.config] = file[cmd[q].default.config]
      BY <2>1, <2>2, <3>2 DEF TypeOK, Pair
    <3>4. ASSUME cmd[q].target # NoSet
          PROVE  file'[cmd[q].target.config] \in {NoFile} \cup asked'[q].targets
      <4>1. cmd[q].target \in Pair
        BY <3>1, <3>4, KindOfRun
      <4>2. CASE cmd[q].target.config = target
        <5>1. cmd[q].default.config.at = now
          BY <2>1, <3>1, <3>4, <4>2 DEF CommandSound
        <5>2. handle["classify"] = q
          BY <2>1, <3>1, <5>1 DEF NamesFresh
        <5>3. ttable \in asked'[q].targets
          BY <1>5, <3>1, <5>2 DEF Apply, TypeOK
        <5> QED
          BY <2>1, <2>2, <4>2, <5>3 DEF TypeOK
      <4>3. CASE cmd[q].target.config # target
        BY <2>2, <2>3, <2>4, <3>4, <4>1, <4>3 DEF TablesSound, TablesAt, Pair, TypeOK
      <4> QED
        BY <4>2, <4>3
    <3> QED
      BY <3>3, <3>4
  <2>5. \A q \in Runs : Loaded(q) => asked'[q].default = input[q].default
                                     /\ input[q].target \in asked'[q].targets
    BY <2>3 DEF TablesSound, TablesAt
  <2> QED
    BY <1>1, <1>2, <1>3, <2>3, <2>4, <2>5 DEF TablesSound, TablesAt, Starting, Mode
<1>6. CASE Tick \/ Reopen \/ ClearCsv \/ ClearJson \/ \E tab \in Tabs : Stop(tab)
  BY <1>4, <1>6 DEF Tick, Reopen, ClearCsv, ClearJson, Clear, Stop, histVars
<1> QED
  BY <1>5, <1>6 DEF GuiStep

LEMMA TablesStart ==
  ASSUME TypeOK, CommandSound, NamesFresh, TablesSound, NEW r \in Runs, GuiStart(r)
  PROVE  TablesSound'
<1> USE DEF histVars, At, Launch
<1>1. /\ UNCHANGED <<now, input>> /\ pc[r] = "off" /\ pc'[r] = "new"
      /\ \A q \in Runs \ {r} : pc'[q] = pc[q] /\ cmd'[q] = cmd[q] /\ asked'[q] = asked[q]
  BY StartMoves
<1>2. input[r].target = NoTable
  <2>1. cmd[r].mode = "none"
    BY <1>1, KindOfRun, CommandFields DEF CommandSound, Mode
  <2> QED
    BY <2>1 DEF CommandSound, Mode
<1>3. CASE UNCHANGED file /\ ~Mode(r, "classify")'
  BY <1>1, <1>3 DEF TablesSound, TablesAt, Starting, Loaded, Mode
<1>4. ASSUME NEW model \in Models, NEW tmodel \in Models, NEW table \in Edits,
             NEW ttable \in TargetEdits \cup {NoTable},
             StartClassify(r, model, table, tmodel, ttable)
      PROVE  TablesSound'
  <2> DEFINE default == File("config", now)
             target  == File("target_config", now)
  <2>1. /\ default \in Path /\ target \in Path /\ default # target
        /\ default.at = now /\ target.at = now /\ now \in Nat
    <3>1. default # target
      BY DEF File
    <3> QED
      BY <3>1, RunnerAssumption, FileNames DEF TypeOK
  <2>2. ~Running("classify") /\ asked'[r] = [default |-> table, targets |-> {ttable}]
    BY <1>4 DEF StartClassify, Prefix, TypeOK
  <2>3. \/ /\ file' = [[file EXCEPT ![default] = table] EXCEPT ![target] = ttable]
           /\ cmd'[r] = [mode |-> "classify", default |-> [model |-> model, config |-> default],
                         target |-> [model |-> tmodel, config |-> target]]
        \/ /\ ttable = NoTable /\ file' = [file EXCEPT ![default] = table]
           /\ cmd'[r] = [mode |-> "classify", default |-> [model |-> model, config |-> default],
                         target |-> NoSet]
    BY <1>4 DEF StartClassify, Prefix, TypeOK
  <2>4. TablesAt(r)'
    <3>1. file'[default] = table /\ cmd'[r].default.config = default
      BY <2>1, <2>3 DEF TypeOK
    <3>2. \/ /\ cmd'[r].target.config = target /\ cmd'[r].target # NoSet
             /\ file'[target] = ttable
          \/ cmd'[r].target = NoSet /\ ttable = NoTable
      <4>1. tmodel # NoFile
        BY NoFileAssumption DEF Models
      <4>2. [model |-> tmodel, config |-> target] # NoSet
        BY <4>1 DEF NoSet
      <4> QED
        BY <2>1, <2>3, <4>2 DEF TypeOK
    <3> QED
      BY <1>1, <1>2, <2>2, <3>1, <3>2 DEF TablesAt, Starting, Loaded, NoSet
  <2>5. ASSUME NEW q \in Runs, q # r
        PROVE  TablesAt(q)'
    <3>1. ASSUME Starting(q)
          PROVE  /\ file'[cmd[q].default.config] = file[cmd[q].default.config]
                 /\ cmd[q].target # NoSet =>
                      file'[cmd[q].target.config] = file[cmd[q].target.config]
      <4>1. Mode(q, "classify") /\ Live(q) /\ handle["classify"] # q
        BY <2>2, <3>1, Contents DEF Starting, Live, Running
      <4>2. cmd[q].default.config.at < now
        BY <4>1 DEF NamesFresh
      <4>3. /\ cmd[q].default.config \in Path
            /\ cmd[q].target # NoSet =>
                 cmd[q].target.config \in Path /\ cmd[q].target.config.at < now
        BY <4>1, <4>2, KindOfRun DEF Pair, CommandSound
      <4>4. \A p \in Path : p.at < now => file'[p] = file[p]
        BY <2>1, <2>3 DEF TypeOK
      <4> QED
        BY <4>2, <4>3, <4>4
    <3> QED
      BY <1>1, <2>5, <3>1 DEF TablesSound, TablesAt, Starting, Loaded, Mode, NoSet
  <2> QED
    BY <2>4, <2>5 DEF TablesSound
<1>5. ASSUME NEW checkpoint \in BOOLEAN, StartCollect(r, checkpoint)
      PROVE  UNCHANGED file /\ ~Mode(r, "classify")'
  BY <1>5 DEF StartCollect, TypeOK, Mode
<1>6. ASSUME NEW csv \in Csvs, StartTrain(r, csv)
      PROVE  UNCHANGED file /\ ~Mode(r, "classify")'
  BY <1>6 DEF StartTrain, TypeOK, Mode
<1> QED
  BY <1>3, <1>4, <1>5, <1>6 DEF GuiStart

LEMMA TablesRun ==
  ASSUME TypeOK, CommandSound, TablesSound, NEW r \in Runs, RunStep(r) \/ Kill(r)
  PROVE  TablesSound'
<1> USE DEF histVars, At
<1>1. /\ UNCHANGED <<cmd, asked>>
      /\ \A q \in Runs \ {r} : pc'[q] = pc[q] /\ input'[q] = input[q]
  BY RunMoves
<1>2. \A p \in Path : p.kind \in {"config", "target_config"} => file'[p] = file[p]
  BY RunFiles, KindOfRun DEF Csvs, Models
<1>3. \A q \in Runs : Mode(q, "classify") =>
        /\ file'[cmd[q].default.config] = file[cmd[q].default.config]
        /\ cmd[q].target # NoSet => file'[cmd[q].target.config] = file[cmd[q].target.config]
  BY <1>2, KindOfRun DEF Pair
<1>4. ASSUME NEW q \in Runs, q # r
      PROVE  TablesAt(q)'
  BY <1>1, <1>3, <1>4 DEF TablesSound, TablesAt, Starting, Loaded, Mode, NoSet
<1>5. TablesAt(r)'
  <2>1. CASE ~Mode(r, "classify")
    BY <1>1, <2>1 DEF TablesAt, Starting, Loaded, Mode
  <2>2. CASE LoadDefault(r)
    <3>1. TablesAt(r) /\ Starting(r) /\ pc[r] = "new"
      BY <2>2 DEF TablesSound, LoadDefault, Starting
    <3>2. \/ pc'[r] = "ended"
          \/ /\ pc'[r] = "target" /\ input'[r].default = asked[r].default
             /\ input'[r].target = input[r].target
      BY <2>2, <3>1 DEF TablesAt, LoadDefault, Loads, Starting, TypeOK
    <3> QED
      BY <1>1, <1>3, <3>1, <3>2 DEF TablesAt, Starting, Loaded, Mode, NoSet
  <2>3. CASE LoadTarget(r)
    <3>1. TablesAt(r) /\ Starting(r) /\ pc[r] = "target"
      BY <2>3 DEF TablesSound, LoadTarget, Starting
    <3>2. \/ pc'[r] = "ended"
          \/ /\ pc'[r] = "init" /\ input'[r].default = asked[r].default
             /\ input'[r].target \in asked[r].targets
      BY <2>3, <3>1 DEF TablesAt, LoadTarget, Loads, Starting, TypeOK
    <3> QED
      BY <1>1, <3>1, <3>2 DEF TablesAt, Starting, Loaded, Mode
  <2>4. CASE Mode(r, "classify") /\ (\/ Attach(r) \/ Publish(r) \/ Rename(r)
                                        \/ EndLoop(r) \/ LeaveOnError(r) \/ Kill(r))
    <3>1. /\ UNCHANGED input /\ pc[r] \in {"init", "loop", "publish"}
          /\ pc'[r] \in {"loop", "publish", "ended"}
      BY <2>4, KindOfRun
         DEF Attach, Publish, Rename, EndLoop, LeaveOnError, Kill, Attached, CommandSound, Mode,
             TypeOK
    <3> QED
      BY <1>1, <2>4, <3>1 DEF TablesSound, TablesAt, Starting, Loaded, Mode
  <2> QED
    BY <2>1, <2>2, <2>3, <2>4, KindOfRun
       DEF RunStep, CheckOutput, CreateCsv, FinishCsv, ReadCsv, CreateFiltered, FinishFiltered,
           ReadFiltered, CreateModel, FinishModel, RemoveFiltered, CommandSound, Mode
<1> QED
  BY <1>4, <1>5 DEF TablesSound

LEMMA TablesStep ==
  ASSUME TypeOK, CommandSound, NamesFresh, TablesSound, [Next]_vars
  PROVE  TablesSound'
<1>1. CASE UNCHANGED vars
  BY <1>1 DEF vars, histVars, TablesSound, TablesAt, Starting, Loaded, Mode, NoSet
<1> QED
  BY <1>1, TablesGui, TablesStart, TablesRun DEF Next

-----------------------------------------------------------------------------
(* The inductive invariant, and what follows from it. *)

LEMMA IInvInit == Init => IInv
<1> SUFFICES ASSUME Init PROVE IInv
  OBVIOUS
<1>1. TypeOK
  BY TypeInit
<1>2. CommandSound /\ HandleSound /\ NamesFresh /\ OneAttached
  BY DEF Init, CommandSound, HandleSound, NamesFresh, OneAttached, Attached, Mode, Live, Idle,
         NoInput, NoRun
<1>3. CsvOwned
  BY DEF Init, CsvOwned, Collecting, Writing, Mode, Idle
<1>4. PartExplained
  BY DEF Init, PartExplained, Csvs, Whole
<1>5. SettledSound /\ RowsSound
  BY DEF Init, SettledSound, RowsSound
<1>6. TablesSound
  BY DEF Init, TablesSound, TablesAt, Starting, Loaded, Mode, Idle
<1> QED
  BY <1>1, <1>2, <1>3, <1>4, <1>5, <1>6 DEF IInv

LEMMA IInvStep == IInv /\ [Next]_vars => IInv'
BY TypeStep, CommandStep, HandleStep, FreshStep, AttachedStep, OwnedStep, PartStep, SettledStep,
   TablesStep, RowsStep DEF IInv

LEMMA Invariant == Spec => []IInv
BY IInvInit, IInvStep, PTL DEF Spec

(* Every variable keeps its type. *)
THEOREM RunnerTypeCorrect == Spec => []TypeOK
<1>1. IInv => TypeOK
  BY DEF IInv
<1> QED
  BY <1>1, Invariant, PTL

(* A classify run that has come through its start schedules by the tables  *)
(* the user asked for: the files it read them from bear a second that is   *)
(* its own, and only Apply writes to one of them, in its own session.      *)
THEOREM ClassifiesAsEdited == Spec => []LaunchedAsEdited
<1>1. IInv => LaunchedAsEdited
  BY DEF IInv, TablesSound, TablesAt, Loaded, LaunchedAsEdited
<1> QED
  BY <1>1, Invariant, PTL

(* A settled train run fits its model to a whole CSV. *)
THEOREM ModelsOfWholeCsvs == Spec => []TrainedOnWhole
<1>1. IInv => TrainedOnWhole
  BY DEF IInv, SettledSound, SettledAt, TrainedOnWhole
<1> QED
  BY <1>1, Invariant, PTL

(* The Overall tab shows the live run's own rows: nobody else is attached  *)
(* to write the one snapshot there is.                                     *)
THEOREM OwnRowsShown == Spec => []RowsOfLiveRun
<1>1. ASSUME IInv, NEW r \in saved, r = handle["classify"], Live(r)
      PROVE  Shown = Whole(r)
  <2>1. r \in Runs /\ r # NoRun
    BY <1>1, Contents DEF IInv, TypeOK
  <2>2. Mode(r, "classify")
    BY <1>1, <2>1 DEF IInv, HandleSound, Tabs
  <2>3. snapshot = Whole(r)
    BY <1>1, <2>2 DEF IInv, RowsSound
  <2> QED
    BY <1>1, <2>1, <2>3, Contents DEF Shown, Running
<1>2. IInv => RowsOfLiveRun
  BY <1>1 DEF RowsOfLiveRun
<1> QED
  BY <1>2, Invariant, PTL

(* A CSV is overwritten by nobody but the run whose rows it holds.         *)
THEOREM CollectedDataSafe == Spec => CollectedDataKept
<1> DEFINE Kept == \A p \in Csvs : file[p] # NoFile /\ file'[p] # file[p]
                     => file'[p] = NoFile \/ file'[p].by = file[p].by
<1>1. ASSUME IInv, [Next]_vars, NEW p \in Csvs, file[p] # NoFile, file'[p] # file[p]
      PROVE  file'[p] = NoFile \/ file'[p].by = file[p].by
  <2>1. p \in Path /\ p.kind = "event" /\ TypeOK /\ CommandSound /\ CsvOwned
    BY <1>1 DEF IInv, Csvs
  <2>2. CASE UNCHANGED vars
    BY <1>1, <2>2 DEF vars
  <2>3. CASE GuiStep \/ \E r \in Runs : GuiStart(r)
    BY <1>1, <2>1, <2>3, GuiFiles
  <2>4. ASSUME NEW r \in Runs, RunStep(r) \/ Kill(r)
        PROVE  file'[p].by = file[p].by
    <3>1. /\ Mode(r, "train") => cmd[r].output.kind = "model" /\ Filtered(r).kind = "filtered"
      BY <2>1, KindOfRun DEF Models
    <3>2. p = cmd[r].output /\ (CreateCsv(r) \/ FinishCsv(r))
      BY <1>1, <2>1, <2>4, <3>1, RunFiles
    <3>3. file[p] \in {Part(r), Whole(r)}
      BY <1>1, <2>1, <3>2 DEF CsvOwned, Writing, CreateCsv, FinishCsv, At
    <3>4. file'[p] \in {Part(r), Whole(r)}
      BY <2>1, <3>2, <3>3 DEF CreateCsv, FinishCsv, Completed, TypeOK
    <3> QED
      BY <3>3, <3>4, Contents
  <2> QED
    BY <1>1, <2>2, <2>3, <2>4 DEF Next
<1>2. IInv /\ [Next]_vars => [Kept]_vars
  BY <1>1
<1> QED
  BY <1>2, Invariant, PTL DEF Spec, CollectedDataKept
=============================================================================
