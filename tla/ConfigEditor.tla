---------------------------- MODULE ConfigEditor ----------------------------
(***************************************************************************)
(* The life of a scheduling configuration: from a file or the defaults     *)
(* into the table of an editor (gui/tabs/_config_editor.py), through the   *)
(* user's edits and the reruns of the page, out again into the files that  *)
(* Start and Apply hand to scx_teddy (gui/tabs/classify.py), and there,    *)
(* parsed and validated (src/main.rs), in force for the clusters of a      *)
(* model.  There are two editors, for the default set and for the set of   *)
(* the target family.                                                      *)
(*                                                                         *)
(* The page is a script: whatever the user does, and every tick of the     *)
(* log, runs it from the top, both editors included.  Between two runs     *)
(* only the session state survives.  How the files that are handed over    *)
(* are named is in Runner, how the control files are written in Control:   *)
(* here a path stands for its contents.                                    *)
(***************************************************************************)
EXTENDS Topology

CONSTANTS Sessions,   \* where a session may begin: see Session
          Models, Files, \* paths of models and of saved configurations
          None, Garbage, \* no such thing; a file that cannot be parsed
          MaxClusters, \* bound: clusters of a model
          OldConfigs, \* the configurations others write into the files
          Edits,      \* what the user may fill in: [field, value]
          Floor,      \* CONFIG_DEFAULT_SLICE_NS
          LowestPrio  \* CONFIG_DEFAULT_PRIO

Editors == {"classify", "classify_tset"}

(* The machine, the clusters of the models, the files; and bounds on what    *)
(* the user and others do.                                                  *)
Session == [machine : Machine(Nat), clusters : [Models -> 1 .. MaxClusters],
            disk : [Files -> OldConfigs \cup {None}], user : Nat, others : Nat]

(* An entry that others have written may lack fields, a configuration of     *)
(* theirs may have entries for any clusters.                                *)
Fields == {"prio", "slice", "kind", "prefer"}
IsEntry(entry) == DOMAIN entry \subseteq Fields /\ \A f \in DOMAIN entry : entry[f] \in Nat
IsConfig(config) ==
  /\ DOMAIN config.clusters \subseteq Nat /\ IsEntry(config.default)
  /\ \A c \in DOMAIN config.clusters : IsEntry(config.clusters[c])

ASSUME EditorAssumption ==
  /\ Sessions \subseteq Session /\ MaxClusters \in Nat
  /\ Floor \in Nat \ {0} /\ LowestPrio \in Nat
  /\ Edits \subseteq [field : Fields, value : Nat]
  /\ \A config \in OldConfigs : IsConfig(config)

PreferLabels == <<"no preference", "prefer fast", "prefer slow">>

(* the words for a kind of CPUs, a tier with its number *)
Words == {<<w>> : w \in {"any", "kind", "core", "P-core", "E-core"}} \cup ({"tier"} \X Nat)

Row == [prio : Nat, slice : Nat, kind : [k : Nat, says : Words], prefer : Range(PreferLabels)]

Setting == [prio : Nat, slice : Nat, kind : Nat, prefer : 0 .. 2]

(* the mode of an editor, its file, the clusters of its model *)
Signatures == {"gui", "file"} \X (Files \cup {None}) \X (1 .. MaxClusters)

(* For a table of n clusters: its configuration; the set that is handed      *)
(* over, with the table it was made from; the set in use, with the clusters *)
(* of its model; and what the set does to each of n clusters.               *)
Config(n) == [clusters : [0 .. n - 1 -> Setting], default : Setting]
Handed(n) == [model : Models, config : Config(n), table : [1 .. n + 1 -> Row]]
InUse(n) == [model : Models, config : Config(n), table : [1 .. n + 1 -> Row],
             count : 1 .. MaxClusters]
Policies(n) ==
  [0 .. n - 1 -> [prio : Nat, slice : Nat, prefer : 0 .. 2, cpus : SUBSET Cpus]]

ASSUME NoneAssumption ==
  /\ None \notin Files \cup Models \cup Nat \cup Signatures
  /\ \A n \in 1 .. MaxClusters : /\ None \notin Handed(n) \cup InUse(n) \cup Policies(n)
                                 /\ \A x \in {None, Garbage} : x \notin Config(n)

VARIABLES
  groups, packed, \* what the GUI and the scheduler have found on the machine
  clusters, \* n_clusters of each model, None if the file is gone or unreadable
  disk,     \* the saved configurations
  ed,       \* the editors: the choices in their widgets, whether the table is
            \* shown, and what the session state has: a signature, a table
  sched,    \* the scheduler that was started, and its two sets
  control,  \* the pair control_model and control_config
  unseen,   \* the pair differs from the one the scheduler has seen last
  left,     \* see Session
  saves     \* history: the table last saved to a file, None if someone else
            \* has written it since

vars == <<groups, packed, clusters, disk, ed, sched, control, unseen, left, saves>>

-----------------------------------------------------------------------------
(* Tables. *)

(* _cpu_kind_label: the number, and what it means on this machine *)
KindLabel(k) ==
  [k |-> k, says |-> IF k = 0 THEN <<"any">>
                     ELSE IF k <= Len(groups) THEN groups[k].name
                     ELSE <<"kind">>]

PreferLabel(p) == IF p \in 0 .. 2 THEN PreferLabels[p + 1] ELSE PreferLabels[1]

Get(entry, field, default) == IF field \in DOMAIN entry THEN entry[field] ELSE default

(* _row_from_entry, of an entry that may lack fields *)
RowFromEntry(entry) ==
  [prio   |-> Get(entry, "prio", LowestPrio),
   slice  |-> Get(entry, "slice", Floor),
   kind   |-> KindLabel(Get(entry, "kind", 0)),
   prefer |-> PreferLabel(Get(entry, "prefer", 0))]

NoEntry  == << >>
NoConfig == [clusters |-> << >>, default |-> NoEntry]

(* _seed_editor_df: a row per cluster, then the default row *)
Seed(count, config) ==
  [i \in 1 .. count + 1 |->
     RowFromEntry(IF i > count THEN config.default
                  ELSE Get(config.clusters, i - 1, NoEntry))]

(* make_cluster_entry, of what the labels of a row say *)
EntryOf(row) ==
  [prio   |-> row.prio,
   slice  |-> IF row.slice < Floor THEN Floor ELSE row.slice,
   kind   |-> row.kind.k,
   prefer |-> (CHOOSE i \in 1 .. 3 : PreferLabels[i] = row.prefer) - 1]

(* slip: the default row is left out *)
ConfigNoDefault(table) ==
  [clusters |-> [c \in 0 .. Len(table) - 2 |-> EntryOf(table[c + 1])],
   default  |-> EntryOf(RowFromEntry(NoEntry))]

(* df_to_config *)
ConfigOf(table) ==
  [clusters |-> [c \in 0 .. Len(table) - 2 |-> EntryOf(table[c + 1])],
   default  |-> EntryOf(table[Len(table)])]

-----------------------------------------------------------------------------
(* A run of the script. *)

(* read_config *)
Loaded(file, files) == file # None /\ files[file] \notin {None, Garbage}

(* The picker keeps its model; in the dropdown, one that is gone gives way  *)
(* to another.                                                              *)
PickModel(e) ==
  IF clusters[e.model] # None THEN {e.model}
  ELSE {e.model} \cup {m \in Models : clusters[m] # None}

(* likewise the file, None if there is none to choose from *)
PickFile(e, files) ==
  LET there == {f \in Files : files[f] # None}
  IN  IF e.mode = "gui" \/ e.file \in there THEN {e.file}
      ELSE {e.file} \cup (IF there = {} THEN {None} ELSE there)

Source(e) == IF e.mode = "file" THEN e.file ELSE None
Signature(e) == <<e.mode, Source(e), clusters[e.model]>>

(* slip: every run seeds the table again *)
RenderAlways(e, files) ==
  IF clusters[e.model] = None THEN [e EXCEPT !.shown = FALSE]
  ELSE [e EXCEPT !.shown = TRUE, !.sig = Signature(e),
                 !.table = Seed(clusters[e.model],
                                IF Loaded(Source(e), files) THEN files[Source(e)]
                                ELSE NoConfig)]

(* render_model_and_config, with these files on disk *)
Render(e, files) ==
  IF clusters[e.model] = None THEN [e EXCEPT !.shown = FALSE]
  ELSE IF e.sig = Signature(e) THEN [e EXCEPT !.shown = TRUE]
  ELSE [e EXCEPT !.shown = TRUE, !.sig = Signature(e),
                 !.table = Seed(clusters[e.model],
                                IF Loaded(Source(e), files) THEN files[Source(e)]
                                ELSE NoConfig)]

(* what an editor may be like when its widgets have been drawn, ...          *)
Drawn(e, files) ==
  UNION {{[e EXCEPT !.model = m, !.file = f] : f \in PickFile(e, files)} : m \in PickModel(e)}

(* ... and after the script has passed it *)
Passed(e, files) == {Render(d, files) : d \in Drawn(e, files)}

(* a whole run, that finds the widgets as in w *)
Page(w) ==
  {[x \in Editors |-> IF x = "classify" THEN a ELSE b] :
     a \in Passed(w["classify"], disk), b \in Passed(w["classify_tset"], disk)}

Moves(who) == left[who] > 0 /\ left' = [left EXCEPT ![who] = @ - 1]

Rerun ==
  /\ ed' \in Page(ed) /\ ed' # ed
  /\ UNCHANGED <<groups, packed, clusters, disk, sched, control, unseen, left, saves>>

(* The user fills in a widget of an editor; the script runs. *)
Choose(x, field, value) ==
  /\ Moves("user") /\ ed[x][field] # value
  /\ ed' \in Page([ed EXCEPT ![x] = [@ EXCEPT ![field] = value]])
  /\ UNCHANGED <<groups, packed, clusters, disk, sched, control, unseen, saves>>

ChooseModel(x, m) == Choose(x, "model", m)
ChooseMode(x, mode) == Choose(x, "mode", mode)
ChooseFile(x, f) == ed[x].mode = "file" /\ Choose(x, "file", f)

(* the options of the data editor *)
Cell(edit) == IF edit.field = "kind" THEN KindLabel(edit.value)
              ELSE IF edit.field = "prefer" THEN PreferLabel(edit.value)
              ELSE edit.value

(* An edit of a table that this run seeds anew is lost with the table. *)
EditCell(x, i, edit) ==
  /\ Moves("user") /\ ed[x].shown /\ i \in DOMAIN ed[x].table
  /\ edit.field = "kind" => edit.value <= Len(groups)
  /\ \E p \in Page(ed) :
       ed' = IF p[x].shown /\ p[x].sig = ed[x].sig
             THEN [p EXCEPT ![x].table[i][edit.field] = Cell(edit)] ELSE p
  /\ UNCHANGED <<groups, packed, clusters, disk, sched, control, unseen, saves>>

(* "Save back to file".  The editors are rendered one after the other, so    *)
(* the second one finds what the first has saved.                           *)
Save(x) ==
  /\ Moves("user") /\ ed[x].shown
  /\ \E e \in Passed(ed[x], disk) :
       /\ e.shown /\ Source(e) # None
       /\ disk' = [disk EXCEPT ![Source(e)] = ConfigOf(e.table)]
       /\ saves' = [saves EXCEPT ![Source(e)] = e.table]
       /\ \E o \in Editors \ {x} :
            \E r \in Passed(ed[o], IF x = "classify" THEN disk' ELSE disk) :
              ed' = [ed EXCEPT ![x] = e, ![o] = r]
  /\ UNCHANGED <<groups, packed, clusters, sched, control, unseen>>

(* write_text fails before or after it has truncated the file *)
SaveFails(x) ==
  /\ Moves("user") /\ ed[x].shown
  /\ \E p \in Page(ed) :
       /\ p[x].shown /\ Source(p[x]) # None
       /\ disk' = [disk EXCEPT ![Source(p[x])] = Garbage]
       /\ saves' = [saves EXCEPT ![Source(p[x])] = None]
       /\ ed' = p
  /\ UNCHANGED <<groups, packed, clusters, sched, control, unseen>>

-----------------------------------------------------------------------------
(* The scheduler. *)

NoSched == [pc |-> "off", default |-> None, target |-> None]

Given(e) == [model |-> e.model, config |-> ConfigOf(e.table), table |-> e.table]

(* Start: the target set goes along if its editor has a table *)
Start ==
  /\ Moves("user") /\ sched.pc = "off"
  /\ \E p \in Page(ed) :
       /\ ed' = p
       /\ sched' = IF ~p["classify"].shown THEN sched
                   ELSE [pc |-> "starting", default |-> Given(p["classify"]),
                         target |-> IF p["classify_tset"].shown
                                    THEN Given(p["classify_tset"]) ELSE None]
  /\ UNCHANGED <<groups, packed, clusters, disk, control, unseen, saves>>

(* load_sched_set: the model as it is now *)
LoadSet(s) ==
  [model |-> s.model, config |-> s.config, table |-> s.table,
   count |-> clusters[s.model]]

(* slip: only the clusters are looked at *)
ValidClusters(config) ==
  \A c \in DOMAIN config.clusters : config.clusters[c].kind <= packed.kindNum

(* validate_config_kinds; a kind that is no u8 is not parsed at all *)
Valid(config) ==
  /\ config.default.kind <= packed.kindNum
  /\ \A c \in DOMAIN config.clusters : config.clusters[c].kind <= packed.kindNum

Load ==
  /\ sched.pc = "starting"
  /\ sched' = IF \E s \in {sched.default, sched.target} \ {None} : clusters[s.model] = None
              THEN NoSched
              ELSE [pc |-> "loaded", default |-> LoadSet(sched.default),
                    target |-> IF sched.target = None THEN None ELSE LoadSet(sched.target)]
  /\ UNCHANGED <<groups, packed, clusters, disk, ed, control, unseen, left, saves>>

(* init_control_files, then the validation *)
Attach ==
  /\ sched.pc = "loaded"
  /\ sched' = IF \A s \in {sched.default, sched.target} \ {None} : Valid(s.config)
              THEN [sched EXCEPT !.pc = "running"] ELSE NoSched
  /\ control' = IF sched.target = None THEN None
                ELSE [model |-> sched.target.model, config |-> sched.target.config,
                      table |-> sched.target.table]
  /\ unseen' = FALSE
  /\ UNCHANGED <<groups, packed, clusters, disk, ed, left, saves>>

(* poll_target_set *)
Poll ==
  /\ sched.pc = "running" /\ unseen
  /\ unseen' = FALSE
  /\ sched' = IF control = None THEN [sched EXCEPT !.target = None]
              ELSE IF clusters[control.model] # None /\ Valid(control.config)
              THEN [sched EXCEPT !.target = LoadSet(control)]
              ELSE sched
  /\ UNCHANGED <<groups, packed, clusters, disk, ed, control, left, saves>>

(* Stop, or scx_teddy ends by itself: the control files may stay behind *)
Stop ==
  /\ sched.pc # "off"
  /\ sched' = NoSched /\ control' \in {control, None}
  /\ UNCHANGED <<groups, packed, clusters, disk, ed, unseen, left, saves>>

(* The buttons of a run that is live.  Two Applies of one second have the   *)
(* same path: the scheduler sees no difference.                             *)
Apply ==
  /\ Moves("user") /\ sched.pc # "off"
  /\ \E p \in Page(ed) :
       /\ ed' = p
       /\ IF ~p["classify_tset"].shown THEN UNCHANGED <<control, unseen>>
          ELSE /\ control' = Given(p["classify_tset"])
               /\ \/ unseen' = TRUE
                  \/ control # None /\ control.model = control'.model /\ UNCHANGED unseen
  /\ UNCHANGED <<groups, packed, clusters, disk, sched, saves>>

Clear ==
  /\ Moves("user") /\ sched.pc # "off"
  /\ ed' \in Page(ed)
  /\ control' = None /\ unseen' = TRUE
  /\ UNCHANGED <<groups, packed, clusters, disk, sched, saves>>

-----------------------------------------------------------------------------
(* Others: an editor at the shell, a training, a removal. *)

FileWritten(f, config) ==
  /\ Moves("others") /\ config # disk[f]
  /\ disk' = [disk EXCEPT ![f] = config]
  /\ saves' = [saves EXCEPT ![f] = None]
  /\ UNCHANGED <<groups, packed, clusters, ed, sched, control, unseen>>

ModelChanged(m, count) ==
  /\ Moves("others") /\ count # clusters[m]
  /\ clusters' = [clusters EXCEPT ![m] = count]
  /\ UNCHANGED <<groups, packed, disk, ed, sched, control, unseen, saves>>

Init ==
  /\ \E s \in Sessions :
       /\ groups = Groups(s.machine) /\ packed = Packed(s.machine)
       /\ clusters = s.clusters /\ disk = s.disk
       /\ left = [user |-> s.user, others |-> s.others]
  /\ \E m \in Models :
       LET e == [model |-> m, mode |-> "gui", file |-> None, sig |-> None,
                 table |-> << >>, shown |-> FALSE]
       IN  ed = [x \in Editors |-> Render(e, disk)]
  /\ sched = NoSched /\ control = None /\ unseen = FALSE
  /\ saves = [f \in Files |-> None]

UserMove ==
  \/ \E x \in Editors :
       \/ \E m \in Models : ChooseModel(x, m)
       \/ \E mode \in {"gui", "file"} : ChooseMode(x, mode)
       \/ \E f \in Files : ChooseFile(x, f)
       \/ \E i \in 1 .. MaxClusters + 1, edit \in Edits : EditCell(x, i, edit)
       \/ Save(x) \/ SaveFails(x)
  \/ Start \/ Apply \/ Clear

SchedMove == Load \/ Attach \/ Poll \/ Stop

OthersMove ==
  \/ \E f \in Files, config \in OldConfigs \cup {None, Garbage} : FileWritten(f, config)
  \/ \E m \in Models, count \in 1 .. MaxClusters \cup {None} : ModelChanged(m, count)

Next == UserMove \/ Rerun \/ SchedMove \/ OthersMove

Spec == Init /\ [][Next]_vars

-----------------------------------------------------------------------------
(* What is in force. *)

SetsInForce ==
  IF sched.pc = "running" THEN {sched.default, sched.target} \ {None} ELSE {}

(* the lookup of run_classify_cycle *)
SettingOf(set, cluster) == Get(set.config.clusters, cluster, set.config.default)

(* the CPUs whose dispatch reads the queue of a kind *)
CpusOf(kind) == {c \in Cpus : kind \in {0, packed.kind[c]}}

Policy(set) ==
  [cluster \in 0 .. set.count - 1 |->
     LET entry == SettingOf(set, cluster)
     IN  [prio |-> entry.prio, slice |-> entry.slice, prefer |-> entry.prefer,
          cpus |-> CpusOf(entry.kind)]]

Enforced == INSTANCE Enforcement WITH
  default <- IF sched.pc = "running" THEN Policy(sched.default) ELSE None,
  target  <- IF sched.pc = "running" /\ sched.target # None
             THEN Policy(sched.target) ELSE None

(* The scheduler enforces policies and does nothing else to them: each can   *)
(* be carried out on this machine, the default one is kept for a whole run. *)
ImplementsEnforcement == Enforced!Spec

-----------------------------------------------------------------------------
IsTable(t) == t \in Seq(Row) /\ \A i \in DOMAIN t : t[i].kind = KindLabel(t[i].kind.k)

Editor == [model : Models, mode : {"gui", "file"}, file : Files \cup {None},
           sig : Signatures \cup {None}, table : Seq(Row), shown : BOOLEAN]

IsHanded(set) == \E n \in 1 .. MaxClusters : set \in Handed(n)
IsInUse(set) == \E n \in 1 .. MaxClusters : set \in InUse(n)

(* in particular a table has a row for each cluster and the default row      *)
TypeOK ==
  /\ clusters \in [Models -> 1 .. MaxClusters \cup {None}]
  /\ DOMAIN disk = Files /\ DOMAIN saves = Files
  /\ \A f \in Files : /\ disk[f] \in {None, Garbage} \/ IsConfig(disk[f])
                      /\ saves[f] = None \/ IsTable(saves[f])
  /\ ed \in [Editors -> Editor]
  /\ \A x \in Editors :
       /\ IsTable(ed[x].table)
       /\ ed[x].sig # None => Len(ed[x].table) = ed[x].sig[3] + 1
  /\ DOMAIN sched = {"pc", "default", "target"}
  /\ sched.pc \in {"off", "starting", "loaded", "running"}
  /\ sched.pc = "off" => sched = NoSched
  /\ sched.pc = "starting" => IsHanded(sched.default)
                              /\ (sched.target = None \/ IsHanded(sched.target))
  /\ sched.pc \in {"loaded", "running"} =>
       IsInUse(sched.default) /\ (sched.target = None \/ IsInUse(sched.target))
  /\ control = None \/ IsHanded(control)
  /\ unseen \in BOOLEAN /\ left \in [{"user", "others"} -> Nat]

(* The GUI and the scheduler scan the machine each by itself, and agree on   *)
(* the CPUs of every kind; and the lists in which the scheduler looks for   *)
(* an idle CPU name each CPU that has a kind once.                          *)
TwoScansAgree == SidesAgree(groups, packed) /\ OrderComplete(packed)

(* the CPUs that the words of a label name *)
CpusNamed(label) ==
  IF label.says = <<"any">> THEN Cpus
  ELSE UNION {groups[i].cpus : i \in {j \in DOMAIN groups : groups[j].name = label.says}}

RowOf(table, cluster) ==
  IF cluster + 1 < Len(table) THEN table[cluster + 1] ELSE table[Len(table)]

(* Every cluster of the model that runs is scheduled as its row on the       *)
(* screen said when the set was handed over: the priority, the slice down   *)
(* to the floor, the preference, and the CPUs that the name of the kind     *)
(* stands for in the GUI ("The table is the source of truth").              *)
InForceAsShown ==
  \A set \in SetsInForce : \A cluster \in DOMAIN Policy(set) :
    LET row == RowOf(set.table, cluster)
        got == Policy(set)[cluster]
    IN  /\ got.prio = row.prio
        /\ got.slice = IF row.slice < Floor THEN Floor ELSE row.slice
        /\ PreferLabels[got.prefer + 1] = row.prefer
        /\ got.cpus = CpusNamed(row.kind)

(* While neither the user nor anyone else changes what an editor shows,      *)
(* reruns, launches, saves that fail and the other editor leave every edit  *)
(* in its table ("keep the user's in-table edits across reruns").           *)
SameSource(x) ==
  ed[x].shown /\ Signature(ed[x]) = ed[x].sig /\ Signature(ed[x])' = ed[x].sig
EditsKept ==
  [][\A x \in Editors :
       SameSource(x) =>
         \/ ed'[x].table = ed[x].table
         \/ \E i \in DOMAIN ed[x].table, edit \in Edits :
              ed'[x].table = [ed[x].table EXCEPT ![i][edit.field] = Cell(edit)]]_vars

Floored(row) == [row EXCEPT !.slice = IF @ < Floor THEN Floor ELSE @]

(* A table that was saved, and is loaded from the file by either editor,     *)
(* comes back as it was, cut or filled up to the clusters of the model.     *)
SavedIsShown ==
  [][\A x \in Editors :
       LET old == saves[ed'[x].file]
           new == ed'[x].table
       IN  /\ ed'[x].sig # ed[x].sig /\ ed'[x].sig[1] = "file"
           /\ ed'[x].file # None
           /\ old # None /\ saves' = saves
           => /\ new[Len(new)] = Floored(old[Len(old)])
              /\ \A i \in 1 .. Len(new) - 1 :
                   new[i] = IF i < Len(old) THEN Floored(old[i])
                            ELSE RowFromEntry(NoEntry)]_vars
=============================================================================
