--------------------------- MODULE Control_proofs ---------------------------
(***************************************************************************)
(* Proofs about Control.  For any number of runs of scx_teddy: types, that *)
(* a target is never a leftover, and that an interrupted scanner leaves    *)
(* none.  For one run, started once: that its startup set is kept and that *)
(* only the moment between tee's truncation and its write disturbs it; a   *)
(* second run truncates the files of the first, and both fail.             *)
(***************************************************************************)
EXTENDS Control, SequenceTheorems, TLAPS

GuiSteps ==
  \/ \E p \in Procs \cup {NoPid} : SetPpid(p)
  \/ \E s \in Sets \cup {NoSet} : SetTargetSet(s)
  \/ Truncate \/ WriteControl

ScannerSteps == StartScanner \/ ScannerStep \/ Interrupt \/ PublishZero

(* what the two poll steps of the set can make of it *)
LEMMA SetReadType ==
  ASSUME NEW s \in [model : Models, config : Configs] \cup {NoSet}, NEW l,
         NEW m \in Models \cup {Blank}, NEW c \in Configs \cup {Blank}
  PROVE  SetRead(s, l, [model |-> m, config |-> c])
           \in [model : Models, config : Configs] \cup {NoSet}
BY DEF SetRead

(* A file that init_control_files has written has the contents of one.      *)
LEMMA SeededType ==
  ASSUME ControlAssumption, TypeOK, NEW i \in Instances,
         NEW f \in {"ppid", "model", "config"}
  PROVE  [file EXCEPT ![f] = Seeded(i, f)] \in Contents
<1>1. args[i].set \in [model : Models, config : Configs] \cup {NoSet}
  BY DEF ControlAssumption, TypeOK, Arg
<1> QED
  BY <1>1 DEF Seeded, Contents, NoSet, TypeOK

(* The three steps of a run at its files are the three files.               *)
LEMMA NameOfStep ==
  ASSUME TypeOK, NEW i \in Instances
  PROVE  /\ FileName[step[i]] \in {"ppid", "model", "config"}
         /\ step[i] = 1 => FileName[step[i]] = "ppid"
         /\ step[i] = 2 => FileName[step[i]] = "model"
         /\ step[i] = 3 => FileName[step[i]] = "config"
         /\ step[i] \in {1, 2, 3}
BY DEF TypeOK, FileName

(* A run goes on to the next file or back to the first.                     *)
LEMMA NextStep ==
  ASSUME TypeOK, NEW i \in Instances,
         \/ step[i] < 3 /\ step' = [step EXCEPT ![i] = @ + 1]
         \/ step' = [step EXCEPT ![i] = 1]
  PROVE  step' \in [Instances -> 1 .. 3]
<1>1. step \in [Instances -> 1 .. 3] /\ 1 \in 1 .. 3
  BY DEF TypeOK
<1>2. step[i] < 3 => step[i] + 1 \in 1 .. 3
  BY <1>1
<1> QED
  BY <1>1, <1>2

(* the head and the tail of what the GUI has yet to write *)
LEMMA TodoParts ==
  ASSUME TypeOK, gui.todo # << >>
  PROVE  /\ Head(gui.todo) \in Write
         /\ Head(gui.todo) = gui.todo[1]
         /\ Tail(gui.todo) \in Seq(Write)
         /\ Len(gui.todo) \in {1, 2}
         /\ Len(Tail(gui.todo)) = Len(gui.todo) - 1
         /\ \A k \in 1 .. Len(Tail(gui.todo)) : Tail(gui.todo)[k] = gui.todo[k + 1]
<1>1. gui.todo \in Seq(Write) /\ Len(gui.todo) <= 2
  BY DEF TypeOK
<1>2. /\ Head(gui.todo) \in Write /\ Head(gui.todo) = gui.todo[1]
      /\ Tail(gui.todo) \in Seq(Write)
      /\ Len(Tail(gui.todo)) = Len(gui.todo) - 1
      /\ \A k \in 1 .. Len(Tail(gui.todo)) : Tail(gui.todo)[k] = gui.todo[k + 1]
  BY <1>1, HeadTailProperties
<1>3. PICK n \in Nat \ {0} : n = Len(gui.todo)
  BY <1>1, EmptySeq
<1>4. n <= 2
  BY <1>1, <1>3
<1>5. n \in {1, 2}
  BY ONLY n \in Nat \ {0}, <1>4
<1> QED
  BY <1>2, <1>3, <1>5

(* Each control file is written with values of its kind.                    *)
LEMMA WriteType ==
  ASSUME NEW w \in Write
  PROVE  /\ w.file \in {"ppid", "model", "config"}
         /\ w.file = "ppid" => w.value \in Procs \cup {NoPid}
         /\ w.file = "model" => w.value \in Models \cup {Blank}
         /\ w.file = "config" => w.value \in Configs \cup {Blank}
BY DEF Write

(***************************************************************************)
(* Types                                                                   *)
(***************************************************************************)

(* The types hold at the beginning ...                                      *)
LEMMA TypeInit == ASSUME ControlAssumption, Init PROVE TypeOK
<1>1. \A i \in Instances : args[i].set \in [model : Models, config : Configs] \cup {NoSet}
  <2>1. \A i \in Instances : args[i] \in Arg
    BY DEF ControlAssumption, Init
  <2> QED
    BY <2>1 DEF ControlAssumption, Arg
<1>2. << >> \in Seq(Write) /\ Len(<< >>) = 0
  OBVIOUS
<1>3. last \in [Instances -> Pairs]
  BY <1>1 DEF Init, Pairs, NoSet
<1>4. gui \in [todo : Seq(Write), handle : {"none", "open", "orphan"}] /\ Len(gui.todo) <= 2
  BY <1>2 DEF Init
<1>5. /\ set \in [Instances -> [model : Models, config : Configs] \cup {NoSet}]
      /\ args \in [Instances -> Args]
  BY <1>1 DEF Init
<1>6. scanner \in [pc : {"off", "scan", "publish", "stop"}, found : Procs \cup {NoPid},
                  presses : 0 .. Presses]
  BY DEF Init, ControlAssumption
<1>7. file \in Contents
  BY DEF Init, Contents
<1>8. /\ pc \in [Instances -> {"off", "init", "load", "idle", "model", "config",
                              "remove", "detach", "ended"}]
      /\ step \in [Instances -> 1 .. 3]
      /\ target \in [Instances -> Procs \cup {NoPid}]
      /\ read \in [Instances -> Models \cup {Blank}]
      /\ touched \in [{"ppid", "set", "rival"} -> SUBSET Instances]
  BY DEF Init
<1>9. /\ attached \in SUBSET Instances /\ \A i, j \in attached : i = j
      /\ alive \in SUBSET Procs /\ pending \in SUBSET Procs
      /\ family \in alive \cup {NoPid} /\ cleared \in BOOLEAN
  BY DEF Init
<1> QED
  BY <1>3, <1>4, <1>5, <1>6, <1>7, <1>8, <1>9 DEF TypeOK

(* The files a run crosses are noted for the other runs only.               *)
LEMMA CrossesKeeps ==
  ASSUME TypeOK, NEW i \in Instances, NEW f, Crosses(i, f)
  PROVE  /\ touched' \in [{"ppid", "set", "rival"} -> SUBSET Instances]
         /\ touched'["ppid"] = touched["ppid"] /\ touched'["set"] = touched["set"]
         /\ touched'["rival"] = IF f = "ppid" THEN touched["rival"]
                               ELSE touched["rival"] \cup (Instances \ {i})
BY DEF Crosses, TypeOK

(* ... every step of a run keeps them ...                                   *)
LEMMA TypeRun ==
  ASSUME ControlAssumption, TypeOK, NEW i \in Instances,
         RunStep(i) \/ \E p \in Procs : HandleExit(i, p)
  PROVE  TypeOK'
<1> USE DEF instVars, procVars, At
<1>1. CASE Start(i)
  BY <1>1 DEF Start, TypeOK
<1>2. CASE InitFile(i)
  <2>1. file' \in Contents
    BY <1>2, SeededType, NameOfStep DEF InitFile
  <2>2. step' \in [Instances -> 1 .. 3]
    BY <1>2, NextStep DEF InitFile
  <2>3. touched' \in [{"ppid", "set", "rival"} -> SUBSET Instances]
    BY <1>2, CrossesKeeps DEF InitFile
  <2> QED
    BY <1>2, <2>1, <2>2, <2>3 DEF InitFile, TypeOK
<1>3. CASE Attach(i)
  BY <1>3 DEF Attach, TypeOK
<1>4. CASE FailToStart(i)
  BY <1>4 DEF FailToStart, TypeOK
<1>5. CASE PollPpid(i)
  <2>1. TargetRead(target[i]) \in Procs \cup {NoPid}
    BY DEF TargetRead, TypeOK, Contents
  <2> QED
    BY <1>5, <2>1 DEF PollPpid, TypeOK
<1>6. CASE PollModel(i)
  BY <1>6 DEF PollModel, TypeOK, Contents
<1>7. CASE PollConfig(i)
  <2> DEFINE new == [model |-> read[i], config |-> file.config]
  <2>1. read[i] \in Models \cup {Blank} /\ file.config \in Configs \cup {Blank}
    BY DEF TypeOK, Contents
  <2>2. new \in Pairs
    BY <2>1 DEF Pairs
  <2>3. SetRead(set[i], last[i], new) \in [model : Models, config : Configs] \cup {NoSet}
    BY <2>1, SetReadType DEF TypeOK
  <2>4. /\ set' = [set EXCEPT ![i] = SetRead(set[i], last[i], new)]
        /\ last' = [last EXCEPT ![i] = new]
    BY <1>7 DEF PollConfig
  <2> QED
    BY <1>7, <2>2, <2>3, <2>4 DEF PollConfig, TypeOK
<1>8. CASE Stop(i)
  BY <1>8 DEF Stop, TypeOK
<1>9. CASE RemoveFile(i)
  <2>1. file' \in Contents
    BY <1>9, NameOfStep DEF RemoveFile, TypeOK, Contents
  <2>2. step' \in [Instances -> 1 .. 3]
    BY <1>9, NextStep DEF RemoveFile
  <2>3. gui' \in [todo : Seq(Write), handle : {"none", "open", "orphan"}] /\ Len(gui'.todo) <= 2
    BY <1>9 DEF RemoveFile, TypeOK, HandleAfter
  <2>4. touched' \in [{"ppid", "set", "rival"} -> SUBSET Instances]
    BY <1>9, CrossesKeeps DEF RemoveFile
  <2> QED
    BY <1>9, <2>1, <2>2, <2>3, <2>4 DEF RemoveFile, TypeOK
<1>10. CASE Detach(i)
  BY <1>10 DEF Detach, TypeOK
<1>11. CASE \E p \in Procs : HandleExit(i, p)
  BY <1>11 DEF HandleExit, TypeOK
<1> QED
  BY <1>1, <1>2, <1>3, <1>4, <1>5, <1>6, <1>7, <1>8, <1>9, <1>10, <1>11 DEF RunStep, PollStep

(* ... and so does everybody else.                                          *)
LEMMA TypeOthers ==
  ASSUME ControlAssumption, TypeOK,
         (\E p \in Procs : Die(p)) \/ FamilyMoves \/ ScannerSteps \/ GuiSteps
  PROVE  TypeOK'
<1> USE DEF instVars, procVars
<1>1. CASE \E p \in Procs : Die(p)
  BY <1>1 DEF Die, TypeOK
<1>2. CASE FamilyMoves
  BY <1>2 DEF FamilyMoves, TypeOK
<1>3. CASE ScannerSteps
  <2>1. /\ scanner \in [pc : {"off", "scan", "publish", "stop"}, found : Procs \cup {NoPid},
                        presses : 0 .. Presses]
        /\ Presses \in Nat
    BY DEF TypeOK, ControlAssumption
  <2>2. ASSUME NEW p \in Procs \cup {NoPid}, Published(p)
        PROVE  /\ file' \in Contents
               /\ gui' \in [todo : Seq(Write), handle : {"none", "open", "orphan"}]
               /\ Len(gui'.todo) <= 2
               /\ touched' \in [{"ppid", "set", "rival"} -> SUBSET Instances]
    BY <2>2 DEF Published, HandleAfter, TypeOK, Contents
  <2>3. CASE StartScanner
    BY <2>3, <2>1 DEF StartScanner, TypeOK
  <2>4. CASE ScanOnce
    BY <2>4, <2>1 DEF ScanOnce, TypeOK
  <2>5. CASE Publish
    <3>1. scanner.found \in Procs \cup {NoPid} /\ Published(scanner.found)
      BY <2>1, <2>5 DEF Publish
    <3> QED
      BY <2>1, <2>2, <2>5, <3>1 DEF Publish, ScannerAt, TypeOK
  <2>6. CASE Interrupt
    <3>1. scanner.presses + 1 \in 0 .. Presses
      BY <2>1, <2>6 DEF Interrupt
    <3>2. scanner' \in [pc : {"off", "scan", "publish", "stop"}, found : Procs \cup {NoPid},
                       presses : 0 .. Presses]
      BY <2>1, <2>6, <3>1 DEF Interrupt
    <3> QED
      BY <2>6, <3>2 DEF Interrupt, TypeOK
  <2>7. CASE PublishZero
    BY <2>1, <2>2, <2>7 DEF PublishZero, ScannerAt, TypeOK
  <2> QED
    BY <1>3, <2>3, <2>4, <2>5, <2>6, <2>7 DEF ScannerSteps, ScannerStep
<1>4. CASE GuiSteps
  <2>1. ASSUME NEW p \in Procs \cup {NoPid}, SetPpid(p) PROVE TypeOK'
    <3>1. <<[file |-> "ppid", value |-> p]>> \in Seq(Write)
      BY DEF Write
    <3>2. Len(<<[file |-> "ppid", value |-> p]>>) <= 2
      OBVIOUS
    <3>3. PICK t \in Seq(Write) : t = <<[file |-> "ppid", value |-> p]>> /\ Len(t) <= 2
      BY <3>1, <3>2
    <3>4. gui' = [gui EXCEPT !.todo = t]
      BY <2>1, <3>3 DEF SetPpid
    <3>5. gui' \in [todo : Seq(Write), handle : {"none", "open", "orphan"}] /\ Len(gui'.todo) <= 2
      BY <3>3, <3>4 DEF TypeOK
    <3>6. UNCHANGED <<file, instVars, procVars, scanner, cleared, touched>>
      BY <2>1 DEF SetPpid
    <3> QED
      BY <3>5, <3>6 DEF TypeOK
  <2>2. ASSUME NEW s \in Sets \cup {NoSet}, SetTargetSet(s) PROVE TypeOK'
    <3>1. s.model \in Models \cup {Blank} /\ s.config \in Configs \cup {Blank}
      BY DEF ControlAssumption, NoSet
    <3>2. /\ [file |-> "model", value |-> s.model] \in Write
          /\ [file |-> "config", value |-> s.config] \in Write
      BY <3>1 DEF Write
    <3>3. <<[file |-> "model", value |-> s.model], [file |-> "config", value |-> s.config]>>
            \in Seq(Write)
      BY <3>2
    <3>4. gui' \in [todo : Seq(Write), handle : {"none", "open", "orphan"}] /\ Len(gui'.todo) <= 2
      <4> DEFINE both == <<[file |-> "model", value |-> s.model],
                           [file |-> "config", value |-> s.config]>>
      <4>0. Len(both) <= 2
        OBVIOUS
      <4>1. PICK t \in Seq(Write) : t = both /\ Len(t) <= 2
        <5> HIDE DEF both
        <5> QED
          BY <3>3, <4>0 DEF both
      <4>2. gui' = [gui EXCEPT !.todo = t]
        BY <2>2, <4>1 DEF SetTargetSet
      <4> QED
        BY <4>1, <4>2 DEF TypeOK
    <3>5. cleared' \in BOOLEAN
      BY <2>2 DEF SetTargetSet
    <3>6. UNCHANGED <<file, instVars, procVars, scanner, touched>>
      BY <2>2 DEF SetTargetSet
    <3> QED
      BY <3>4, <3>5, <3>6 DEF TypeOK
  <2>3. CASE Truncate
    <3>1. Head(gui.todo).file \in {"ppid", "model", "config"}
      BY <2>3, TodoParts, WriteType DEF Truncate
    <3> QED
      BY <2>3, <3>1 DEF Truncate, Touches, TypeOK, Contents
  <2>4. CASE WriteControl
    <3>1. PICK w \in Write : w = Head(gui.todo)
      BY <2>4, TodoParts DEF WriteControl
    <3>2. file' \in Contents
      BY <2>4, <3>1, WriteType DEF WriteControl, TypeOK, Contents
    <3>3. gui' \in [todo : Seq(Write), handle : {"none", "open", "orphan"}] /\ Len(gui'.todo) <= 2
      BY <2>4, TodoParts DEF WriteControl
    <3> QED
      BY <2>4, <3>2, <3>3 DEF WriteControl, Touches, TypeOK
  <2> QED
    BY <1>4, <2>1, <2>2, <2>3, <2>4 DEF GuiSteps
<1> QED
  BY <1>1, <1>2, <1>3, <1>4

(* The steps of Next, as the proofs group them *)
LEMMA NextSplit ==
  ASSUME Next
  PROVE  \/ \E i \in Instances : RunStep(i) \/ \E p \in Procs : HandleExit(i, p)
         \/ (\E p \in Procs : Die(p)) \/ FamilyMoves \/ ScannerSteps \/ GuiSteps
BY DEF Next, ScannerSteps, GuiSteps

(* Every step keeps the types.                                              *)
LEMMA TypeStep == ASSUME ControlAssumption, TypeOK, [Next]_vars PROVE TypeOK'
<1>1. CASE Next
  BY <1>1, NextSplit, TypeRun, TypeOthers
<1>2. CASE UNCHANGED vars
  BY <1>2 DEF vars, instVars, procVars, TypeOK
<1> QED
  BY <1>1, <1>2

(* Every variable keeps its type, at most one run is attached, and a scan    *)
(* finds a process that lives: scx_teddy, the scanner and the GUI never put *)
(* into the files what no reader expects.                                   *)
THEOREM ControlTypeCorrect == Spec => []TypeOK
<1>1. Init => TypeOK
  BY ControlAssumption, TypeInit
<1>2. TypeOK /\ [Next]_vars => TypeOK'
  BY ControlAssumption, TypeStep
<1> QED
  BY <1>1, <1>2, PTL DEF Spec

(***************************************************************************)
(* Any number of runs                                                      *)
(***************************************************************************)
(* a run that is not at its files is at the first one *)
FirstStep == \A i \in Instances : pc[i] \notin {"init", "remove"} => step[i] = 1

(* From the moment a run has put 0 into control_ppid there is no pid in it   *)
(* unless somebody else writes one.                                         *)
HasZeroed(i) == pc[i] # "off" /\ ~(pc[i] = "init" /\ step[i] = 1)
NoLeftover ==
  \A i \in Instances :
    HasZeroed(i) /\ i \notin touched["ppid"] => file.ppid \in {NoPid, Blank}

StopWasPressed == scanner.pc = "stop" => scanner.presses >= 1

ControlInv == TypeOK /\ FirstStep /\ NoLeftover /\ StopWasPressed

(* A run leaves its files at the first one.                                 *)
LEMMA FirstStepStep ==
  ASSUME TypeOK, FirstStep, [Next]_vars
  PROVE  FirstStep'
<1> USE DEF instVars, procVars, At
<1>1. ASSUME NEW i \in Instances, RunStep(i) PROVE FirstStep'
  <2>1. CASE InitFile(i)
    BY <2>1 DEF InitFile, TypeOK, FirstStep
  <2>2. CASE RemoveFile(i)
    BY <2>2 DEF RemoveFile, TypeOK, FirstStep
  <2>3. CASE Start(i)
    BY <2>3 DEF Start, TypeOK, FirstStep
  <2>4. CASE Attach(i) \/ FailToStart(i) \/ Stop(i) \/ Detach(i)
    BY <2>4 DEF Attach, FailToStart, Stop, Detach, TypeOK, FirstStep
  <2>5. CASE PollStep(i)
    BY <2>5 DEF PollStep, PollPpid, PollModel, PollConfig, TypeOK, FirstStep
  <2> QED
    BY <1>1, <2>1, <2>2, <2>3, <2>4, <2>5 DEF RunStep
<1>2. CASE UNCHANGED <<pc, step>>
  BY <1>2 DEF FirstStep
<1>3. ASSUME NEW i \in Instances, NEW p \in Procs, HandleExit(i, p)
      PROVE  UNCHANGED <<pc, step>>
  BY <1>3 DEF HandleExit
<1>4. CASE (\E p \in Procs : Die(p)) \/ FamilyMoves \/ ScannerSteps \/ GuiSteps
  BY <1>2, <1>4 DEF Die, FamilyMoves, ScannerSteps, ScannerStep, StartScanner, ScanOnce,
       Publish, Interrupt, PublishZero, GuiSteps, SetPpid, SetTargetSet, Truncate, WriteControl
<1>5. CASE UNCHANGED vars
  BY <1>2, <1>5 DEF vars
<1> QED
  BY <1>1, <1>2, <1>3, <1>4, <1>5, NextSplit

(* Zeroes, removals and other runs bring no pid into control_ppid.          *)
LEMMA NoLeftoverStep ==
  ASSUME ControlAssumption, TypeOK, FirstStep, NoLeftover, [Next]_vars
  PROVE  NoLeftover'
<1> USE DEF instVars, procVars, At
<1>1. ASSUME NEW i \in Instances, RunStep(i) PROVE NoLeftover'
  <2>1. CASE InitFile(i)
    <3>0. touched'["ppid"] = touched["ppid"]
      BY <2>1, CrossesKeeps DEF InitFile
    <3>1. CASE step[i] = 1
      BY <2>1, <3>1, NameOfStep DEF InitFile, Seeded, TypeOK, Contents, NoLeftover
    <3>2. CASE step[i] # 1
      <4>1. file'.ppid = file.ppid /\ touched'["ppid"] = touched["ppid"]
        BY <2>1, <3>0, <3>2, NameOfStep DEF InitFile, TypeOK, Contents
      <4>2. \A j \in Instances : HasZeroed(j)' => HasZeroed(j)
        BY <2>1, <3>2 DEF InitFile, TypeOK, HasZeroed
      <4> QED
        BY <4>1, <4>2 DEF NoLeftover
    <3> QED
      BY <3>1, <3>2
  <2>2. CASE RemoveFile(i)
    <3>1. file'.ppid \in {file.ppid, Blank} /\ touched'["ppid"] = touched["ppid"]
      BY <2>2, NameOfStep, CrossesKeeps DEF RemoveFile, TypeOK, Contents
    <3>2. \A j \in Instances : HasZeroed(j)' => HasZeroed(j)
      BY <2>2 DEF RemoveFile, TypeOK, HasZeroed
    <3> QED
      BY <3>1, <3>2 DEF NoLeftover
  <2>3. CASE Start(i)
    <3>1. ~HasZeroed(i)'
      BY <2>3 DEF Start, TypeOK, HasZeroed, FirstStep
    <3>2. \A j \in Instances \ {i} :
            /\ HasZeroed(j)' => HasZeroed(j)
            /\ j \in touched["ppid"] => j \in touched'["ppid"]
      BY <2>3 DEF Start, TypeOK, HasZeroed
    <3> QED
      BY <2>3, <3>1, <3>2 DEF Start, NoLeftover
  <2>4. CASE Attach(i) \/ FailToStart(i) \/ Stop(i) \/ Detach(i) \/ PollStep(i)
    <3>1. file' = file /\ touched' = touched
      BY <2>4 DEF Attach, FailToStart, Stop, Detach, PollStep, PollPpid, PollModel, PollConfig
    <3>2. \A j \in Instances : HasZeroed(j)' => HasZeroed(j)
      BY <2>4 DEF Attach, FailToStart, Stop, Detach, PollStep, PollPpid, PollModel, PollConfig,
           TypeOK, HasZeroed
    <3> QED
      BY <3>1, <3>2 DEF NoLeftover
  <2> QED
    BY <1>1, <2>1, <2>2, <2>3, <2>4 DEF RunStep
<1>2. CASE UNCHANGED <<file, pc, step, touched>>
  BY <1>2 DEF NoLeftover, HasZeroed
<1>3. CASE \E i \in Instances, p \in Procs : HandleExit(i, p)
  BY <1>2, <1>3 DEF HandleExit
<1>4. CASE (\E p \in Procs : Die(p)) \/ FamilyMoves
  BY <1>2, <1>4 DEF Die, FamilyMoves
<1>5. CASE ScannerSteps
  <2>1. CASE StartScanner \/ ScanOnce \/ Interrupt
    BY <1>2, <2>1 DEF StartScanner, ScanOnce, Interrupt
  <2>2. CASE Publish \/ PublishZero
    BY <2>2 DEF Publish, PublishZero, Published, NoLeftover, TypeOK
  <2> QED
    BY <1>5, <2>1, <2>2 DEF ScannerSteps, ScannerStep
<1>6. CASE GuiSteps
  <2>1. CASE (\E p \in Procs \cup {NoPid} : SetPpid(p))
               \/ \E s \in Sets \cup {NoSet} : SetTargetSet(s)
    BY <1>2, <2>1 DEF SetPpid, SetTargetSet
  <2>2. CASE Truncate \/ WriteControl
    <3>1. PICK f \in {"ppid", "model", "config"} : f = Head(gui.todo).file
      BY <2>2, TodoParts, WriteType DEF Truncate, WriteControl
    <3>2. UNCHANGED <<pc, step>>
      BY <2>2 DEF Truncate, WriteControl
    <3>3. CASE f = "ppid"
      BY <2>2, <3>1, <3>3 DEF Truncate, WriteControl, Touches, TypeOK, NoLeftover
    <3>4. CASE f # "ppid"
      <4>1. touched'["ppid"] = touched["ppid"] /\ file'.ppid = file.ppid
        BY <2>2, <3>1, <3>4 DEF Truncate, WriteControl, Touches, TypeOK, Contents
      <4> QED
        BY <3>2, <4>1 DEF NoLeftover, HasZeroed
    <3> QED
      BY <3>3, <3>4
  <2> QED
    BY <1>6, <2>1, <2>2 DEF GuiSteps
<1>7. CASE UNCHANGED vars
  BY <1>2, <1>7 DEF vars
<1> QED
  BY <1>1, <1>3, <1>4, <1>5, <1>6, <1>7, NextSplit

(* Only an interrupt takes the scanner to its handler.                      *)
LEMMA StopWasPressedStep ==
  ASSUME TypeOK, ControlAssumption, StopWasPressed, [Next]_vars
  PROVE  StopWasPressed'
<1> USE DEF instVars, procVars
<1>1. CASE UNCHANGED scanner
  BY <1>1 DEF StopWasPressed
<1>2. scanner \in [pc : {"off", "scan", "publish", "stop"}, found : Procs \cup {NoPid},
                  presses : 0 .. Presses]
  BY DEF TypeOK
<1>3. CASE ScannerSteps
  <2>1. CASE StartScanner \/ ScanOnce \/ Publish \/ PublishZero
    <3>1. scanner'.pc \in {"off", "scan", "publish"}
      <4>1. CASE StartScanner
        BY <4>1 DEF StartScanner
      <4>2. CASE ScanOnce
        BY <1>2, <4>2 DEF ScanOnce
      <4>3. CASE Publish \/ PublishZero
        BY <1>2, <4>3 DEF Publish, PublishZero, ScannerAt
      <4> QED
        BY <2>1, <4>1, <4>2, <4>3
    <3> QED
      BY <3>1 DEF StopWasPressed
  <2>2. CASE Interrupt
    BY <1>2, <2>2 DEF Interrupt, StopWasPressed, ControlAssumption
  <2> QED
    BY <1>3, <2>1, <2>2 DEF ScannerSteps, ScannerStep
<1>4. ASSUME NEW i \in Instances, RunStep(i) \/ \E p \in Procs : HandleExit(i, p)
      PROVE  UNCHANGED scanner
  BY <1>4 DEF RunStep, PollStep, HandleExit, Start, InitFile, Attach, FailToStart, PollPpid,
       PollModel, PollConfig, Stop, RemoveFile, Detach
<1>5. CASE (\E p \in Procs : Die(p)) \/ FamilyMoves \/ GuiSteps
  BY <1>1, <1>5 DEF Die, FamilyMoves, GuiSteps, SetPpid, SetTargetSet, Truncate, WriteControl
<1>6. CASE UNCHANGED vars
  BY <1>1, <1>6 DEF vars
<1> QED
  BY <1>1, <1>3, <1>4, <1>5, <1>6, NextSplit

(* The invariant for any number of runs holds at the beginning ...          *)
LEMMA ControlInvInit == ASSUME ControlAssumption, Init PROVE ControlInv
BY TypeInit DEF ControlInv, Init, FirstStep, NoLeftover, HasZeroed, StopWasPressed

(* ... is kept by every step ...                                            *)
LEMMA ControlInvStep == ASSUME ControlAssumption, ControlInv, [Next]_vars PROVE ControlInv'
BY TypeStep, FirstStepStep, NoLeftoverStep, StopWasPressedStep DEF ControlInv

(* ... and so holds always.                                                 *)
LEMMA ControlInvariant == Spec => []ControlInv
<1>1. Init => ControlInv
  BY ControlAssumption, ControlInvInit
<1>2. ControlInv /\ [Next]_vars => ControlInv'
  BY ControlAssumption, ControlInvStep
<1> QED
  BY <1>1, <1>2, PTL DEF Spec

(* FreshStart, for any number of runs that overlap: read_control_target      *)
(* never takes over a pid that was in control_ppid before the run began,    *)
(* although its file may be written, and removed, by all of them.           *)
THEOREM FreshTarget == Spec => FreshStart
<1>1. ASSUME ControlInv, NEW i \in Instances, PollPpid(i), target'[i] \notin {target[i], NoPid}
      PROVE  i \in touched["ppid"]
  <2>1. target'[i] = TargetRead(target[i]) /\ pc[i] = "idle"
    BY <1>1 DEF PollPpid, At, ControlInv, TypeOK
  <2>2. file.ppid \notin {NoPid, Blank}
    BY <1>1, <2>1 DEF TargetRead
  <2> QED
    BY <1>1, <2>1, <2>2 DEF ControlInv, NoLeftover, HasZeroed
<1>2. ControlInv => [\A i \in Instances :
         PollPpid(i) /\ target'[i] \notin {target[i], NoPid} => i \in touched["ppid"]]_vars
  BY <1>1
<1> QED
  BY <1>2, ControlInvariant, PTL DEF FreshStart

(* ScannerLeavesZero, for any number of processes and interrupts: the        *)
(* handler of the first KeyboardInterrupt publishes 0 before the scanner    *)
(* ends, and only a second one can keep it from that.                       *)
THEOREM ScannerEndsWithZero == Spec => ScannerLeavesZero
<1>1. ASSUME ControlInv, Next, scanner.pc # "off", scanner'.pc = "off", scanner'.presses = 1
      PROVE  file'.ppid \in {NoPid, Blank}
  <2> USE DEF instVars, procVars
  <2>1. scanner \in [pc : {"off", "scan", "publish", "stop"}, found : Procs \cup {NoPid},
                    presses : 0 .. Presses]
    BY <1>1 DEF ControlInv, TypeOK
  <2>2. ~UNCHANGED scanner
    BY <1>1
  <2>3. ScannerSteps
    <3>1. ASSUME NEW i \in Instances, RunStep(i) \/ \E p \in Procs : HandleExit(i, p)
          PROVE  UNCHANGED scanner
      BY <3>1 DEF RunStep, PollStep, HandleExit, Start, InitFile, Attach, FailToStart, PollPpid,
           PollModel, PollConfig, Stop, RemoveFile, Detach
    <3>2. ASSUME (\E p \in Procs : Die(p)) \/ FamilyMoves \/ GuiSteps
          PROVE  UNCHANGED scanner
      BY <3>2 DEF Die, FamilyMoves, GuiSteps, SetPpid, SetTargetSet, Truncate, WriteControl
    <3> QED
      BY <1>1, <2>2, <3>1, <3>2, NextSplit
  <2>4. ~Interrupt
    <3>1. SUFFICES ASSUME Interrupt PROVE FALSE
      OBVIOUS
    <3>2. scanner.pc = "stop" /\ scanner.presses + 1 = 1
      BY <1>1, <2>1, <3>1 DEF Interrupt
    <3> QED
      BY <1>1, <2>1, <3>2 DEF ControlInv, StopWasPressed
  <2>5. PublishZero
    BY <1>1, <2>1, <2>3, <2>4 DEF ScannerSteps, ScannerStep, StartScanner, ScanOnce, Publish,
         ScannerAt
  <2> QED
    BY <1>1, <2>5 DEF PublishZero, Published, ControlInv, TypeOK, Contents
<1>2. ControlInv /\ [Next]_vars =>
        [scanner.pc # "off" /\ scanner'.pc = "off" /\ scanner'.presses = 1
           => file'.ppid \in {NoPid, Blank}]_vars
  BY <1>1
<1> QED
  BY <1>2, ControlInvariant, PTL DEF Spec, ScannerLeavesZero

(***************************************************************************)
(* The set's files, among any number of runs                               *)
(***************************************************************************)
Waiting(i) == pc[i] \in {"off", "init", "load"}
ModelWritten(i) == Running(i) \/ pc[i] = "load" \/ (pc[i] = "init" /\ step[i] = 3)
ConfigWritten(i) == Running(i) \/ pc[i] = "load"

HandleInv == gui.handle # "none" => gui.todo # << >>

(* As long as the GUI was not told to use no set, it writes no empty path.   *)
WritesPaths ==
  ~cleared =>
    \A k \in 1 .. Len(gui.todo) : gui.todo[k].file # "ppid" => gui.todo[k].value # Blank

(* What the files, the paths seen last and the path read say of a run whose  *)
(* set files nobody else has written.                                       *)
StartupFiles(i) ==
  /\ Waiting(i) \/ (Running(i) /\ Untouched(i)) =>
       set[i] = args[i].set /\ last[i] = args[i].set
  /\ Untouched(i) =>
       /\ ModelWritten(i) => file.model = args[i].set.model
       /\ ConfigWritten(i) => file.config = args[i].set.config
       /\ pc[i] = "config" => read[i] = args[i].set.model

(* Of a run that has the files to itself, a set in use stands for two paths   *)
(* that are there, but for tee, from the moment it has written them.        *)
NonBlank(f) == file[f] = Blank => InTee(f)
OnlyTee(i) ==
  ~cleared /\ i \notin touched["rival"] =>
    /\ ModelWritten(i) /\ set[i] # NoSet => NonBlank("model")
    /\ ConfigWritten(i) /\ set[i] # NoSet => NonBlank("config")
    /\ pc[i] = "config" /\ read[i] # Blank => NonBlank("model")

FilesInv ==
  /\ TypeOK /\ FirstStep /\ HandleInv /\ WritesPaths
  /\ \A i \in Instances : StartupFiles(i) /\ OnlyTee(i)

(* The invariant holds at the beginning ...                                 *)
LEMMA FilesInit == ASSUME ControlAssumption, Init PROVE FilesInv
<1>1. TypeOK
  BY TypeInit
<1>2. gui.todo = << >> /\ gui.handle = "none" /\ Len(gui.todo) = 0
  BY DEF Init
<1>3. \A i \in Instances : pc[i] = "off" /\ step[i] = 1 /\ set[i] = args[i].set
                            /\ last[i] = args[i].set
  BY DEF Init
<1>4. HandleInv /\ WritesPaths
  BY <1>2 DEF HandleInv, WritesPaths
<1>5. \A i \in Instances : StartupFiles(i) /\ OnlyTee(i)
  BY <1>3 DEF StartupFiles, OnlyTee, Running, ModelWritten, ConfigWritten, Waiting
<1> QED
  BY <1>1, <1>3, <1>4, <1>5 DEF FilesInv, FirstStep

(* What others do: another run that writes a set's file is noted as a rival; *)
(* the GUI is noted, and takes no path away but between tee's two steps.     *)
LEMMA Bystander ==
  ASSUME NEW j \in Instances, StartupFiles(j), OnlyTee(j),
         args'[j] = args[j], pc'[j] = pc[j], step'[j] = step[j], set'[j] = set[j],
         last'[j] = last[j], read'[j] = read[j],
         ~cleared' => ~cleared,
         j \in touched["rival"] => j \in touched'["rival"],
         \/ j \in touched'["rival"]
         \/ /\ ~cleared => /\ NonBlank("model") => NonBlank("model")'
                           /\ NonBlank("config") => NonBlank("config")'
            /\ \/ j \in touched'["set"]
               \/ /\ file'.model = file.model /\ file'.config = file.config
                  /\ j \in touched["set"] => j \in touched'["set"]
  PROVE  StartupFiles(j)' /\ OnlyTee(j)'
<1>0. /\ Waiting(j)' = Waiting(j) /\ Running(j)' = Running(j)
      /\ ModelWritten(j)' = ModelWritten(j) /\ ConfigWritten(j)' = ConfigWritten(j)
  BY DEF Waiting, Running, ModelWritten, ConfigWritten
<1>w. Waiting(j) => ~Running(j)
  BY DEF Waiting, Running
<1>1. CASE j \in touched'["rival"]
  BY <1>0, <1>1, <1>w DEF StartupFiles, OnlyTee, Untouched
<1>2. CASE j \notin touched'["rival"]
  <2>1. StartupFiles(j)'
    BY <1>0, <1>2, <1>w DEF StartupFiles, Untouched
  <2>2. OnlyTee(j)'
    BY <1>0, <1>2 DEF OnlyTee
  <2> QED
    BY <2>1, <2>2
<1> QED
  BY <1>1, <1>2

(* Nobody's set files are written: then all runs are bystanders.            *)
LEMMA FilesUntouched ==
  ASSUME FilesInv, TypeOK', FirstStep', HandleInv', WritesPaths',
         UNCHANGED <<args, pc, step, set, last, read>>, ~cleared' => ~cleared,
         touched'["set"] = touched["set"], touched'["rival"] = touched["rival"],
         file'.model = file.model, file'.config = file.config,
         InTee("model")' <=> InTee("model"), InTee("config")' <=> InTee("config")
  PROVE  FilesInv'
<1>1. (NonBlank("model") => NonBlank("model")') /\ (NonBlank("config") => NonBlank("config")')
  BY DEF NonBlank
<1>2. \A j \in Instances : StartupFiles(j)' /\ OnlyTee(j)'
  BY <1>1, Bystander DEF FilesInv
<1> QED
  BY <1>2 DEF FilesInv

(* To a step of one run the others are bystanders ...                       *)
LEMMA OtherRuns ==
  ASSUME FilesInv, NEW i \in Instances, NEW j \in Instances \ {i},
         RunStep(i) \/ \E p \in Procs : HandleExit(i, p)
  PROVE  StartupFiles(j)' /\ OnlyTee(j)'
<1> USE DEF instVars, procVars, At
<1>0. TypeOK /\ StartupFiles(j) /\ OnlyTee(j)
  BY DEF FilesInv
<1>1. /\ args'[j] = args[j] /\ pc'[j] = pc[j] /\ step'[j] = step[j] /\ set'[j] = set[j]
      /\ last'[j] = last[j] /\ read'[j] = read[j] /\ cleared' = cleared
  BY <1>0 DEF RunStep, PollStep, Start, InitFile, Attach, FailToStart, PollPpid, PollModel,
       PollConfig, HandleExit, Stop, RemoveFile, Detach, TypeOK
<1>2. CASE InitFile(i) \/ RemoveFile(i)
  <2>1. PICK f \in {"ppid", "model", "config"} :
          Crosses(i, f) /\ f = FileName[step[i]]
    BY <1>0, <1>2, NameOfStep DEF InitFile, RemoveFile
  <2>2. /\ touched'["set"] = touched["set"]
        /\ touched'["rival"] = IF f = "ppid" THEN touched["rival"]
                              ELSE touched["rival"] \cup (Instances \ {i})
    BY <1>0, <2>1, CrossesKeeps
  <2>3. CASE f # "ppid"
    BY <1>0, <1>1, <2>2, <2>3, Bystander
  <2>4. CASE f = "ppid"
    <3>1. file'.model = file.model /\ file'.config = file.config
      BY <1>0, <1>2, <2>1, <2>4 DEF InitFile, RemoveFile, TypeOK, Contents
    <3>2. InTee("model")' = InTee("model") /\ InTee("config")' = InTee("config")
      BY <1>0, <1>2, <2>1, <2>4 DEF InitFile, RemoveFile, InTee, HandleAfter, TypeOK
    <3>3. NonBlank("model")' = NonBlank("model") /\ NonBlank("config")' = NonBlank("config")
      BY <3>1, <3>2 DEF NonBlank
    <3> QED
      BY <1>0, <1>1, <2>2, <2>4, <3>1, <3>3, Bystander
  <2> QED
    BY <2>3, <2>4
<1>3. CASE ~(InitFile(i) \/ RemoveFile(i))
  <2>1. /\ UNCHANGED <<file, gui>>
        /\ j \in touched'["set"] <=> j \in touched["set"]
        /\ j \in touched'["rival"] <=> j \in touched["rival"]
    BY <1>0, <1>3 DEF RunStep, PollStep, Start, Attach, FailToStart, PollPpid, PollModel,
         PollConfig, HandleExit, Stop, Detach, TypeOK
  <2>2. NonBlank("model")' = NonBlank("model") /\ NonBlank("config")' = NonBlank("config")
    BY <2>1 DEF NonBlank, InTee
  <2> QED
    BY <1>0, <1>1, <2>1, <2>2, Bystander
<1> QED
  BY <1>2, <1>3

(* ... and for itself it keeps what is said of its files.                   *)
LEMMA OwnFiles ==
  ASSUME ControlAssumption, FilesInv, NEW i \in Instances,
         RunStep(i) \/ \E p \in Procs : HandleExit(i, p)
  PROVE  StartupFiles(i)' /\ OnlyTee(i)'
<1> USE DEF instVars, procVars, At
<1>0. TypeOK /\ FirstStep /\ StartupFiles(i) /\ OnlyTee(i)
  BY DEF FilesInv
<1>2. args[i].set \in [model : Models, config : Configs] \cup {NoSet}
  BY <1>0 DEF TypeOK, ControlAssumption, Arg
<1>3. CASE Start(i)
  <2>1. /\ pc[i] = "off" /\ pc'[i] = "init" /\ step'[i] = 1
        /\ UNCHANGED <<args, file, set, last, read, attached, gui, cleared>>
    BY <1>0, <1>3 DEF Start, TypeOK, FirstStep
  <2> QED
    BY <1>0, <2>1 DEF StartupFiles, OnlyTee, Waiting, Running, ModelWritten, ConfigWritten
<1>4. CASE InitFile(i)
  <2>1. /\ pc[i] = "init" /\ pc'[i] \in {"init", "load"}
        /\ UNCHANGED <<args, set, last, read, attached, gui, cleared>>
    BY <1>0, <1>4 DEF InitFile, TypeOK
  <2>2. /\ touched'["set"] = touched["set"]
        /\ i \in touched'["rival"] <=> i \in touched["rival"]
    BY <1>0, <1>4, CrossesKeeps DEF InitFile
  <2>3. set[i] = args[i].set /\ last[i] = args[i].set
    BY <1>0, <2>1 DEF StartupFiles, Waiting
  <2>4. set[i] # NoSet => args[i].set.model # Blank /\ args[i].set.config # Blank
    BY <1>2, <2>3 DEF ControlAssumption
  <2>5. step[i] \in {1, 2, 3}
    BY <1>0, NameOfStep
  <2>6. CASE step[i] = 1
    <3>1. pc'[i] = "init" /\ step'[i] = 2
      BY <1>0, <1>4, <2>6 DEF InitFile, TypeOK
    <3> QED
      BY <2>1, <2>3, <3>1 DEF StartupFiles, OnlyTee, Waiting, Running, ModelWritten, ConfigWritten
  <2>7. CASE step[i] = 2
    <3>1. pc'[i] = "init" /\ step'[i] = 3 /\ file'.model = args[i].set.model
      BY <1>0, <1>4, <2>7, NameOfStep DEF InitFile, TypeOK, Seeded, Contents
    <3>2. set[i] # NoSet => NonBlank("model")'
      BY <2>4, <3>1 DEF NonBlank
    <3> QED
      BY <2>1, <2>3, <3>1, <3>2 DEF StartupFiles, OnlyTee, Waiting, Running, ModelWritten,
           ConfigWritten
  <2>8. CASE step[i] = 3
    <3>1. /\ pc'[i] = "load" /\ file'.model = file.model /\ file'.config = args[i].set.config
      BY <1>0, <1>4, <2>8, NameOfStep DEF InitFile, TypeOK, Seeded, Contents
    <3>2. set[i] # NoSet => NonBlank("config")'
      BY <2>4, <3>1 DEF NonBlank
    <3>3. NonBlank("model")' = NonBlank("model")
      BY <2>1, <3>1 DEF NonBlank, InTee
    <3>4. ModelWritten(i)
      BY <2>1, <2>8 DEF ModelWritten
    <3>5. StartupFiles(i)'
      BY <1>0, <2>1, <2>2, <2>3, <3>1, <3>4 DEF StartupFiles, Untouched, Waiting, Running
    <3>6. OnlyTee(i)'
      BY <1>0, <2>1, <2>2, <3>1, <3>2, <3>3, <3>4 DEF OnlyTee
    <3> QED
      BY <3>5, <3>6
  <2> QED
    BY <2>5, <2>6, <2>7, <2>8
<1>5. CASE Attach(i)
  <2>1. /\ pc[i] = "load" /\ pc'[i] = "idle"
        /\ UNCHANGED <<args, file, set, last, read, gui, cleared, touched>>
    BY <1>0, <1>5 DEF Attach, TypeOK
  <2> QED
    BY <1>0, <2>1 DEF StartupFiles, OnlyTee, NonBlank, InTee, Untouched, Waiting, Running,
         ModelWritten, ConfigWritten
<1>6. CASE PollPpid(i)
  <2>1. /\ pc[i] = "idle" /\ pc'[i] \in {"idle", "model"}
        /\ UNCHANGED <<args, file, set, last, read, gui, cleared, touched>>
    BY <1>0, <1>6 DEF PollPpid, TypeOK
  <2> QED
    BY <1>0, <2>1 DEF StartupFiles, OnlyTee, NonBlank, InTee, Untouched, Waiting, Running,
         ModelWritten, ConfigWritten
<1>7. CASE PollModel(i)
  <2>1. /\ pc[i] = "model" /\ pc'[i] = "config" /\ read'[i] = file.model
        /\ UNCHANGED <<args, file, set, last, gui, cleared, touched>>
    BY <1>0, <1>7 DEF PollModel, TypeOK
  <2> QED
    BY <1>0, <2>1 DEF StartupFiles, OnlyTee, NonBlank, InTee, Untouched, Waiting, Running,
         ModelWritten, ConfigWritten
<1>8. CASE PollConfig(i)
  <2> DEFINE new == [model |-> read[i], config |-> file.config]
  <2>1. /\ pc[i] = "config" /\ pc'[i] = "idle"
        /\ set'[i] = SetRead(set[i], last[i], new) /\ last'[i] = new
        /\ UNCHANGED <<args, file, read, gui, cleared, touched>>
    BY <1>0, <1>8 DEF PollConfig, TypeOK
  <2>2. Untouched(i) => set'[i] = args[i].set /\ last'[i] = args[i].set
    <3>1. SUFFICES ASSUME Untouched(i)
                   PROVE  set'[i] = args[i].set /\ last'[i] = args[i].set
      OBVIOUS
    <3>2. /\ set[i] = args[i].set /\ last[i] = args[i].set
          /\ read[i] = args[i].set.model /\ file.config = args[i].set.config
      BY <1>0, <2>1, <3>1 DEF StartupFiles, Running, ConfigWritten
    <3>3. new = args[i].set
      BY <1>2, <3>2 DEF NoSet
    <3> QED
      BY <2>1, <3>2, <3>3 DEF SetRead
  <2>3. ~cleared /\ i \notin touched["rival"] /\ set'[i] # NoSet
          => NonBlank("model") /\ NonBlank("config")
    <3>1. CASE set'[i] = set[i]
      BY <1>0, <2>1, <3>1 DEF OnlyTee, Running, ModelWritten, ConfigWritten
    <3>2. CASE set'[i] # set[i] /\ set'[i] # NoSet
      <4>1. read[i] # Blank /\ file.config # Blank
        BY <2>1, <3>2 DEF SetRead
      <4> QED
        BY <1>0, <2>1, <4>1 DEF OnlyTee, NonBlank
    <3> QED
      BY <3>1, <3>2
  <2>4. NonBlank("model")' = NonBlank("model") /\ NonBlank("config")' = NonBlank("config")
    BY <2>1 DEF NonBlank, InTee
  <2> HIDE DEF new
  <2>5. StartupFiles(i)'
    BY <1>0, <2>1, <2>2 DEF StartupFiles, Untouched, Waiting, Running, ModelWritten, ConfigWritten
  <2>6. OnlyTee(i)'
    BY <2>1, <2>3, <2>4 DEF OnlyTee
  <2> QED
    BY <2>5, <2>6
<1>9. CASE FailToStart(i) \/ Stop(i) \/ Detach(i) \/ RemoveFile(i)
  <2>1. pc'[i] \in {"remove", "detach", "ended"}
    BY <1>0, <1>9 DEF FailToStart, Stop, Detach, RemoveFile, TypeOK
  <2> QED
    BY <2>1 DEF StartupFiles, OnlyTee, Waiting, Running, ModelWritten, ConfigWritten
<1>11. CASE \E p \in Procs : HandleExit(i, p)
  <2>1. UNCHANGED <<args, file, pc, step, set, last, read, attached, gui, cleared, touched>>
    BY <1>11 DEF HandleExit
  <2> QED
    BY <1>0, <2>1 DEF StartupFiles, OnlyTee, NonBlank, InTee, Untouched, Waiting, Running,
         ModelWritten, ConfigWritten
<1> QED
  BY <1>3, <1>4, <1>5, <1>6, <1>7, <1>8, <1>9, <1>11 DEF RunStep, PollStep

(* The steps of all runs keep it ...                                        *)
LEMMA FilesByRuns ==
  ASSUME ControlAssumption, FilesInv, TypeOK', FirstStep',
         NEW i \in Instances, RunStep(i) \/ \E p \in Procs : HandleExit(i, p)
  PROVE  FilesInv'
<1> USE DEF instVars, procVars
<1>0. TypeOK /\ HandleInv /\ WritesPaths
  BY DEF FilesInv
<1>1. \A j \in Instances : StartupFiles(j)' /\ OnlyTee(j)'
  <2>1. ASSUME NEW j \in Instances PROVE StartupFiles(j)' /\ OnlyTee(j)'
    <3>1. CASE j = i
      BY <3>1, OwnFiles
    <3>2. CASE j # i
      BY <3>2, OtherRuns
    <3> QED
      BY <3>1, <3>2
  <2> QED
    BY <2>1
<1>2. /\ gui'.todo = gui.todo /\ cleared' = cleared
      /\ gui'.handle # "none" => gui.handle # "none"
  BY <1>0 DEF RunStep, PollStep, Start, InitFile, Attach, FailToStart, PollPpid, PollModel,
     PollConfig, HandleExit, Stop, RemoveFile, Detach, HandleAfter, TypeOK
<1>3. HandleInv' /\ WritesPaths'
  BY <1>0, <1>2 DEF HandleInv, WritesPaths
<1> QED
  BY <1>1, <1>3 DEF FilesInv

(* ... and so do the processes, the scanner and the GUI.                    *)
LEMMA FilesByOthers ==
  ASSUME ControlAssumption, FilesInv, TypeOK', FirstStep',
         (\E p \in Procs : Die(p)) \/ FamilyMoves \/ ScannerSteps \/ GuiSteps
  PROVE  FilesInv'
<1> USE DEF instVars, procVars
<1>0. /\ TypeOK /\ HandleInv /\ WritesPaths
      /\ \A j \in Instances : StartupFiles(j) /\ OnlyTee(j)
  BY DEF FilesInv
<1>1. CASE UNCHANGED <<args, pc, step, set, last, read, file, gui, cleared, touched>>
  BY <1>0, <1>1, FilesUntouched DEF HandleInv, WritesPaths, InTee
<1>2. CASE (\E p \in Procs : Die(p)) \/ FamilyMoves
  BY <1>1, <1>2 DEF Die, FamilyMoves
<1>3. CASE ScannerSteps
  <2>1. CASE StartScanner \/ ScanOnce \/ Interrupt
    BY <1>1, <2>1 DEF StartScanner, ScanOnce, Interrupt
  <2>2. CASE Publish \/ PublishZero
    <3>1. PICK p : Published(p)
      BY <2>2 DEF Publish, PublishZero
    <3>2. UNCHANGED <<args, pc, step, set, last, read, cleared>>
      BY <2>2 DEF Publish, PublishZero
    <3>3. /\ gui'.todo = gui.todo
          /\ gui'.handle = HandleAfter("ppid")
          /\ touched'["set"] = touched["set"] /\ touched'["rival"] = touched["rival"]
          /\ file'.model = file.model /\ file'.config = file.config
      BY <1>0, <3>1 DEF Published, TypeOK, Contents
    <3>4. /\ gui'.handle # "none" => gui.handle # "none"
          /\ InTee("model")' = InTee("model") /\ InTee("config")' = InTee("config")
      BY <3>3 DEF HandleAfter, InTee
    <3>5. HandleInv' /\ WritesPaths'
      BY <1>0, <3>2, <3>3, <3>4 DEF HandleInv, WritesPaths
    <3> QED
      BY <3>2, <3>3, <3>4, <3>5, FilesUntouched
  <2> QED
    BY <1>3, <2>1, <2>2 DEF ScannerSteps, ScannerStep
<1>4. ASSUME NEW p \in Procs \cup {NoPid}, SetPpid(p) PROVE FilesInv'
  <2> DEFINE w == [file |-> "ppid", value |-> p]
  <2>1. /\ UNCHANGED <<args, pc, step, set, last, read, file, cleared, touched>>
        /\ gui.todo = << >> /\ gui'.todo = <<w>> /\ gui'.handle = gui.handle
    BY <1>0, <1>4 DEF SetPpid, TypeOK
  <2>2. gui.handle = "none"
    BY <1>0, <2>1 DEF HandleInv
  <2>3. Len(gui'.todo) = 1 /\ gui'.todo[1].file = "ppid"
    BY <2>1
  <2>4. HandleInv' /\ WritesPaths'
    BY <2>1, <2>2, <2>3 DEF HandleInv, WritesPaths
  <2>5. ~InTee("model") /\ ~InTee("config") /\ ~InTee("model")' /\ ~InTee("config")'
    BY <2>1, <2>2 DEF InTee
  <2> HIDE DEF w
  <2> QED
    BY <2>1, <2>4, <2>5, FilesUntouched
<1>5. ASSUME NEW s \in Sets \cup {NoSet}, SetTargetSet(s) PROVE FilesInv'
  <2> DEFINE v == [file |-> "model", value |-> s.model]
             w == [file |-> "config", value |-> s.config]
  <2>1. /\ UNCHANGED <<args, pc, step, set, last, read, file, touched>>
        /\ gui.todo = << >> /\ gui'.todo = <<v, w>> /\ gui'.handle = gui.handle
        /\ cleared' = (cleared \/ s = NoSet)
    BY <1>0, <1>5 DEF SetTargetSet, TypeOK
  <2>2. gui.handle = "none"
    BY <1>0, <2>1 DEF HandleInv
  <2>3. Len(gui'.todo) = 2 /\ gui'.todo[1] = v /\ gui'.todo[2] = w
    BY <2>1
  <2>4. ~cleared' => ~cleared /\ v.value # Blank /\ w.value # Blank
    BY <2>1 DEF ControlAssumption
  <2>5. \A k \in 1 .. Len(gui'.todo) : gui'.todo[k] \in {v, w}
    BY <2>3
  <2>6. ~InTee("model") /\ ~InTee("config") /\ ~InTee("model")' /\ ~InTee("config")'
    BY <2>1, <2>2 DEF InTee
  <2>7. HandleInv'
    BY <2>1, <2>2 DEF HandleInv
  <2>8. WritesPaths'
    BY <2>4, <2>5 DEF WritesPaths
  <2> HIDE DEF v, w
  <2> QED
    BY <2>1, <2>4, <2>6, <2>7, <2>8, FilesUntouched
<1>6. CASE Truncate
  <2>1. PICK w \in Write : w = Head(gui.todo) /\ w = gui.todo[1]
    BY <1>6, TodoParts, <1>0 DEF Truncate
  <2>2. /\ UNCHANGED <<args, pc, step, set, last, read, cleared>>
        /\ gui.todo # << >> /\ gui.handle = "none"
        /\ gui'.todo = gui.todo /\ gui'.handle = "open"
        /\ file' = [file EXCEPT ![w.file] = Blank]
    BY <1>0, <1>6, <2>1 DEF Truncate, TypeOK
  <2>3. HandleInv' /\ WritesPaths'
    BY <1>0, <2>2 DEF HandleInv, WritesPaths
  <2>4. touched'["rival"] = touched["rival"]
    BY <1>0, <1>6 DEF Truncate, Touches, TypeOK
  <2>5. CASE w.file = "ppid"
    <3>1. /\ touched'["set"] = touched["set"]
          /\ file'.model = file.model /\ file'.config = file.config
      BY <1>0, <1>6, <2>1, <2>2, <2>5 DEF Truncate, Touches, TypeOK, Contents
    <3>2. ~InTee("model") /\ ~InTee("config") /\ ~InTee("model")' /\ ~InTee("config")'
      BY <2>1, <2>2, <2>5 DEF InTee
    <3> QED
      BY <2>2, <2>3, <2>4, <3>1, <3>2, FilesUntouched
  <2>6. CASE w.file # "ppid"
    <3>1. touched'["set"] = Instances
      BY <1>0, <1>6, <2>1, <2>6 DEF Truncate, Touches, TypeOK
    <3>2. ASSUME NEW f \in {"model", "config"}, NonBlank(f) PROVE NonBlank(f)'
      BY <1>0, <2>1, <2>2, <3>2 DEF NonBlank, InTee, TypeOK, Contents
    <3>3. \A j \in Instances : StartupFiles(j)' /\ OnlyTee(j)'
      BY <1>0, <2>2, <2>4, <3>1, <3>2, Bystander
    <3> QED
      BY <2>3, <3>3 DEF FilesInv
  <2> QED
    BY <2>5, <2>6
<1>7. CASE WriteControl
  <2>1. PICK w \in Write : w = Head(gui.todo) /\ w = gui.todo[1]
    BY <1>7, TodoParts, <1>0 DEF WriteControl
  <2>2. /\ Len(gui.todo) \in {1, 2} /\ Len(Tail(gui.todo)) = Len(gui.todo) - 1
        /\ \A k \in 1 .. Len(Tail(gui.todo)) : Tail(gui.todo)[k] = gui.todo[k + 1]
    BY <1>7, TodoParts, <1>0 DEF WriteControl
  <2>3. /\ UNCHANGED <<args, pc, step, set, last, read, cleared>>
        /\ gui.todo # << >> /\ gui.handle # "none"
        /\ gui'.todo = Tail(gui.todo) /\ gui'.handle = "none"
        /\ file' = IF gui.handle = "orphan" THEN file ELSE [file EXCEPT ![w.file] = w.value]
    BY <1>7, <2>1 DEF WriteControl
  <2>4. \A k \in 1 .. Len(gui'.todo) : \E j \in 1 .. Len(gui.todo) : gui'.todo[k] = gui.todo[j]
    BY <2>2, <2>3
  <2>5. HandleInv' /\ WritesPaths'
    BY <1>0, <2>3, <2>4 DEF HandleInv, WritesPaths
  <2>6. ~cleared /\ w.file # "ppid" => w.value # Blank
    BY <1>0, <2>1, <2>2 DEF WritesPaths
  <2>7. touched'["rival"] = touched["rival"]
    BY <1>0, <1>7 DEF WriteControl, Touches, TypeOK
  <2>8. /\ w.file = "ppid" =>
             /\ touched'["set"] = touched["set"]
             /\ file'.model = file.model /\ file'.config = file.config
        /\ w.file # "ppid" => touched'["set"] = Instances
    BY <1>0, <1>7, <2>1, <2>3 DEF WriteControl, Touches, TypeOK, Contents
  <2>9. ASSUME ~cleared, NEW f \in {"model", "config"}, NonBlank(f) PROVE NonBlank(f)'
    <3>1. CASE InTee(f)
      <4>1. gui.handle = "open" /\ w.file = f
        BY <2>1, <3>1 DEF InTee
      <4>2. file'[f] # Blank
        BY <1>0, <2>3, <2>6, <2>9, <4>1 DEF TypeOK, Contents
      <4> QED
        BY <4>2 DEF NonBlank
    <3>2. CASE file[f] # Blank
      <4>1. file'[f] # Blank
        BY <1>0, <2>3, <2>6, <2>9, <3>2 DEF TypeOK, Contents
      <4> QED
        BY <4>1 DEF NonBlank
    <3> QED
      BY <2>9, <3>1, <3>2 DEF NonBlank
  <2>10. \A j \in Instances : StartupFiles(j)' /\ OnlyTee(j)'
    BY <1>0, <2>3, <2>7, <2>8, <2>9, Bystander
  <2> QED
    BY <2>5, <2>10 DEF FilesInv
<1> QED
  BY <1>2, <1>3, <1>4, <1>5, <1>6, <1>7 DEF GuiSteps

(* It is kept by every step ...                                             *)
LEMMA FilesInvStep ==
  ASSUME ControlAssumption, FilesInv, [Next]_vars PROVE FilesInv'
<1>1. TypeOK' /\ FirstStep'
  BY TypeStep, FirstStepStep DEF FilesInv
<1>2. CASE UNCHANGED vars
  BY <1>1, <1>2, FilesUntouched DEF vars, instVars, FilesInv, HandleInv, WritesPaths, InTee
<1> QED
  BY <1>1, <1>2, NextSplit, FilesByRuns, FilesByOthers

(* ... and so holds always.                                                 *)
LEMMA FilesInvariant == Spec => []FilesInv
<1>1. Init => FilesInv
  BY ControlAssumption, FilesInit
<1>2. FilesInv /\ [Next]_vars => FilesInv'
  BY ControlAssumption, FilesInvStep
<1> QED
  BY <1>1, <1>2, PTL DEF Spec

(* StartupTargetKept, for any number of runs that overlap: init_control_files *)
(* puts the paths of --target-model and --target-config into the files      *)
(* before the first poll, so that poll_target_set sees no change until      *)
(* the GUI writes a path, or another run creates or removes the files.      *)
THEOREM StartupSetKept == Spec => []StartupTargetKept
<1>1. FilesInv => StartupTargetKept
  BY DEF FilesInv, StartupFiles, StartupTargetKept, Running, Waiting
<1> QED
  BY <1>1, FilesInvariant, PTL

(* DisturbedOnlyByTee, for any number of runs, sets and processes and a      *)
(* scanner: poll_target_set of a run that has the files to itself finds an  *)
(* empty path for a set in use only between the truncation by tee and its   *)
(* write, also when an earlier run has left a write under way.              *)
THEOREM OnlyTeeDisturbs == Spec => DisturbedOnlyByTee
<1>1. ASSUME FilesInv, NEW i \in Instances, set[i] # NoSet, ~cleared, i \notin touched["rival"]
      PROVE  /\ PollModel(i) /\ file.model = Blank => InTee("model")
             /\ PollConfig(i) /\ file.config = Blank => InTee("config")
  <2>1. OnlyTee(i)
    BY <1>1 DEF FilesInv
  <2> QED
    BY <1>1, <2>1 DEF OnlyTee, NonBlank, ModelWritten, ConfigWritten, Running, PollModel,
         PollConfig, At
<1>2. FilesInv =>
        [\A i \in Instances : set[i] # NoSet /\ ~cleared /\ i \notin touched["rival"] =>
           /\ PollModel(i) /\ file.model = Blank => InTee("model")
           /\ PollConfig(i) /\ file.config = Blank => InTee("config")]_vars
  BY <1>1
<1> QED
  BY <1>2, FilesInvariant, PTL DEF DisturbedOnlyByTee
=============================================================================
