-------------------------- MODULE ConfigStoreProofs --------------------------
(***************************************************************************)
(* For every set of contents and values: a module whose text was replaced  *)
(* is not in force, and what runs is what the store holds.                 *)
(*                                                                         *)
(* The store is written while the phase is Stopped and read while it is    *)
(* not, and an import under way keeps the main thread: so what a start has *)
(* read stays true to its end, and so does what a view has rendered.       *)
(***************************************************************************)
EXTENDS ConfigStore, TLAPS

FileOf(contents) == contents \cup {None, Torn}
Disk == [text : FileOf(Texts), script : FileOf(Scripts),
         manifest : FileOf(Texts), list : FileOf(Scripts)]
Module == {None} \cup (Texts \X Scripts)
Plan == [module : Module, arguments : Values, port : {DefaultPort} \cup FallbackPorts]
Config == [settings : Values, proxies : Values, plan : Plan]
Runs == [singBox : Config, mitm : Plan \cup {None}]

Imports ==
  [at : {"text", "script", "manifest", "list", "conf"}, text : Texts,
   script : Scripts \cup {None, Ambiguous}, list : Scripts \cup {None},
   replaced : BOOLEAN]
Views == [at : {"view", "viewing"}, config : Config]
Planning == [at : {"plan"}, values : Values]
Launching == [at : {"truncate", "write", "spawn", "mitm"}, values : Values, plan : Plan]

\* The types.
TypeOK ==
  /\ conf \in [values : Values, enabled : BOOLEAN]
  /\ disk \in Disk
  /\ config \in Config \cup {None, Torn}
  /\ main \in {Idle} \cup Imports \cup Views
  /\ worker \in {Idle} \cup Planning \cup Launching
  /\ phase \in {"Stopped", "Starting", "Running"}
  /\ running \in Runs \cup {None}
  /\ broken \in [import : BOOLEAN, view : BOOLEAN]

\* The manifest of an enabled module names the approved text, unless the import that
\* has replaced it is about to switch the module off.
Approved ==
  conf.enabled =>
    /\ disk.manifest # None
    /\ ~broken.import /\ disk.manifest # Torn =>
         disk.manifest = approved \/ (main.at \in {"list", "conf"} /\ main.replaced)

\* What was read from the store is what it holds.
Fits(plan) == plan.module = RuntimePlan.module /\ plan.arguments = conf.values
Read(c) == c.settings = conf.values /\ c.proxies = conf.values /\ Fits(c.plan)

\* An import and a start exclude each other; a view and a start do not.
Apart ==
  /\ phase # "Stopped" => main.at \in {"idle", "view", "viewing"}
  /\ phase = "Starting" <=> worker.at # "idle"
  /\ main.at = "viewing" /\ phase = "Starting" => broken.view
  /\ main.at \in {"view", "viewing"} => Read(main.config)

\* The start under way has read the store as it is.
Routed(c) == Read(c) /\ (c.plan.port = worker.plan.port \/ broken.view)
Started ==
  /\ worker.at # "idle" => worker.values = conf.values
  /\ worker.at \in {"truncate", "write", "spawn", "mitm"} => Fits(worker.plan)
  /\ worker.at = "spawn" => config = Torn \/ (config \in Config /\ Routed(config))
  /\ worker.at = "mitm" => running \in Runs /\ Routed(running.singBox)

\* The inductive invariant.
StoreSound == TypeOK /\ Approved /\ Apart /\ Started /\ RunsTheStore

-------------------------------------------------------------------------------

\* A plan made of the store is one, and fits it.
LEMMA PlanMade ==
  ASSUME StoreAssumption, TypeOK
  PROVE  /\ RuntimePlan \in Plan
         /\ Fits(RuntimePlan)
         /\ RuntimePlan.port = DefaultPort
<1>1. InForce => <<disk.text, disk.script>> \in Texts \X Scripts
  BY DEF InForce, Verified, Loadable, TypeOK, Disk, FileOf
<1>2. conf.values \in Values
  BY DEF TypeOK
<1> QED
  BY <1>1, <1>2 DEF RuntimePlan, Plan, Module, Fits

\* A plan changes with the values and the files only.
LEMMA PlanKept ==
  ASSUME conf' = conf, disk' = disk
  PROVE  RuntimePlan' = RuntimePlan
BY DEF RuntimePlan, InForce, Verified, Loadable

\* A place tells the three things the main thread may do apart, and those of a start.
LEMMA Places ==
  ASSUME TypeOK
  PROVE  /\ main.at \in {"text", "script", "manifest", "list", "conf"} => main \in Imports
         /\ main.at \in {"view", "viewing"} => main \in Views
         /\ main = Idle <=> main.at = "idle"
         /\ worker = Idle <=> worker.at = "idle"
         /\ worker.at = "plan" => worker \in Planning
         /\ worker.at \in {"truncate", "write", "spawn", "mitm"} => worker \in Launching
BY DEF TypeOK, Idle, Imports, Views, Planning, Launching

\* Only a start writes these; the rest of the invariant follows the store.
LEMMA InitSound ==
  ASSUME StoreAssumption, Init
  PROVE  StoreSound
<1>1. TypeOK
  BY DEF Init, TypeOK, StoreAssumption, Disk, FileOf, Idle
<1>2. Approved
  BY DEF Init, Approved
<1>3. Apart /\ Started /\ RunsTheStore
  BY DEF Init, Apart, Started, RunsTheStore, Idle
<1> QED
  BY <1>1, <1>2, <1>3 DEF StoreSound

\* While nothing runs and nothing is viewed the store may change at will.
LEMMA StoppedSound ==
  ASSUME StoreSound, phase = "Stopped", phase' = phase, worker' = worker,
         main'.at \notin {"view", "viewing"}
  PROVE  Apart' /\ Started' /\ RunsTheStore'
<1>1. worker.at = "idle"
  BY DEF StoreSound, Apart
<1> QED
  BY <1>1 DEF Apart, Started, RunsTheStore

-------------------------------------------------------------------------------
(* Commands that change the store.                                         *)

LEMMA SaveValuesSound ==
  ASSUME StoreAssumption, StoreSound, NEW v \in Values, SaveValues(v)
  PROVE  StoreSound'
<1>1. phase = "Stopped" /\ main' = Idle
  BY DEF SaveValues, MutationAllowed
<1>2. TypeOK'
  BY DEF StoreSound, TypeOK, SaveValues, Changes
<1>3. Approved'
  BY DEF StoreSound, TypeOK, Approved, SaveValues, Changes
<1>4. Apart' /\ Started' /\ RunsTheStore'
  BY <1>1, StoppedSound DEF SaveValues, Changes, Idle
<1> QED
  BY <1>2, <1>3, <1>4 DEF StoreSound

LEMMA SetModuleEnabledSound ==
  ASSUME StoreAssumption, StoreSound, NEW e \in BOOLEAN, SetModuleEnabled(e)
  PROVE  StoreSound'
<1>1. phase = "Stopped" /\ main' = Idle
  BY DEF SetModuleEnabled, MutationAllowed
<1>2. TypeOK'
  BY DEF StoreSound, TypeOK, SetModuleEnabled, Changes
<1>3. Approved'
  BY DEF StoreSound, TypeOK, Approved, SetModuleEnabled, Changes, Verified
<1>4. Apart' /\ Started' /\ RunsTheStore'
  BY <1>1, StoppedSound DEF SetModuleEnabled, Changes, Idle
<1> QED
  BY <1>2, <1>3, <1>4 DEF StoreSound

LEMMA BeginImportSound ==
  ASSUME StoreAssumption, StoreSound,
         NEW t \in Texts, NEW s \in Scripts \cup {None, Ambiguous}, BeginImport(t, s)
  PROVE  StoreSound'
<1>1. phase = "Stopped" /\ main'.at = "text"
  BY DEF BeginImport, MutationAllowed
<1>2. TypeOK'
  BY DEF StoreSound, TypeOK, BeginImport, Changes, store, Imports
<1>3. Approved'
  BY DEF StoreSound, TypeOK, Approved, BeginImport, Changes, store, Idle
<1>4. Apart' /\ Started' /\ RunsTheStore'
  BY <1>1, StoppedSound DEF BeginImport, Changes
<1> QED
  BY <1>2, <1>3, <1>4 DEF StoreSound

\* A write that breaks off leaves the old content, the new one or a part of it, and
\* it counts as broken once the manifest names another text.
LEMMA InterruptedFiles ==
  ASSUME StoreAssumption, StoreSound, Interrupted
  PROVE  /\ disk' \in Disk
         /\ broken' \in [import : BOOLEAN, view : BOOLEAN]
         /\ disk.manifest # None => disk'.manifest # None
         /\ ~broken'.import => /\ ~broken.import
                               /\ main.at \notin {"list", "conf"}
                               /\ disk'.manifest \in {disk.manifest, Torn}
<1>1. disk \in Disk /\ broken \in [import : BOOLEAN, view : BOOLEAN]
  BY DEF StoreSound, TypeOK
<1>2. /\ broken' \in [import : BOOLEAN, view : BOOLEAN]
      /\ ~broken'.import => /\ ~broken.import
                            /\ main.at \notin {"list", "conf"}
                            /\ disk'.manifest \in {disk.manifest, Torn}
  BY <1>1 DEF Interrupted
<1>3. CASE disk' = disk
  BY <1>1, <1>2, <1>3
<1>4. ASSUME disk' # disk
      PROVE  disk' \in Disk /\ (disk.manifest # None => disk'.manifest # None)
  <2>1. Writes(main.at)
    BY <1>4 DEF Interrupted
  <2>2. PICK c \in {Torn, Content(main.at)} : disk' = [disk EXCEPT ![main.at] = c]
    BY <1>4 DEF Interrupted
  <2>3. main.at \in {"text", "script", "manifest", "list"}
    BY <2>1 DEF Writes
  <2>4. main \in Imports
    BY <2>3, Places DEF StoreSound
  <2>5. CASE main.at = "text"
    BY <1>1, <2>2, <2>4, <2>5 DEF Disk, FileOf, Content, Imports
  <2>6. CASE main.at = "script"
    <3>1. main.script \in Scripts
      BY <2>1, <2>6 DEF Writes
    <3> QED
      BY <1>1, <2>2, <2>6, <3>1 DEF Disk, FileOf, Content
  <2>7. CASE main.at = "manifest"
    BY <1>1, <2>2, <2>4, <2>7 DEF Disk, FileOf, Content, Imports, StoreAssumption
  <2>8. CASE main.at = "list"
    BY <1>1, <2>2, <2>4, <2>8 DEF Disk, FileOf, Content, Imports
  <2> QED
    BY <2>3, <2>5, <2>6, <2>7, <2>8
<1> QED
  BY <1>2, <1>3, <1>4

LEMMA ImportFailsSound ==
  ASSUME StoreAssumption, StoreSound, ImportFails
  PROVE  StoreSound'
<1>1. phase = "Stopped" /\ main' = Idle
  BY DEF ImportFails, StoreSound, Apart
<1>2. TypeOK'
  BY InterruptedFiles DEF StoreSound, TypeOK, ImportFails, Changes
<1>3. Approved'
  BY InterruptedFiles DEF StoreSound, Approved, ImportFails, Changes
<1>4. Apart' /\ Started' /\ RunsTheStore'
  BY <1>1, StoppedSound DEF ImportFails, Changes, Idle
<1> QED
  BY <1>2, <1>3, <1>4 DEF StoreSound

\* The steps of an import leave the rest of its record alone.
LEMMA WriteTextSound ==
  ASSUME StoreAssumption, StoreSound, WriteText
  PROVE  StoreSound'
<1>1. main \in Imports /\ phase = "Stopped"
  BY Places DEF StoreSound, Apart, WriteText, Importing
<1>2. main' \in Imports /\ main'.at = "script"
  BY <1>1 DEF Imports, WriteText, ImportTo
<1>3. TypeOK'
  BY <1>1, <1>2 DEF StoreSound, TypeOK, WriteText, Changes, Disk, FileOf, Imports
<1>4. Approved'
  BY <1>1 DEF StoreSound, TypeOK, Disk, Approved, WriteText, Importing, Changes
<1>5. Apart' /\ Started' /\ RunsTheStore'
  BY <1>1, <1>2, StoppedSound DEF WriteText, Changes
<1> QED
  BY <1>3, <1>4, <1>5 DEF StoreSound

LEMMA WriteScriptSound ==
  ASSUME StoreAssumption, StoreSound, WriteScript
  PROVE  StoreSound'
<1>1. main \in Imports /\ phase = "Stopped"
  BY Places DEF StoreSound, Apart, WriteScript, Importing
<1>2. main' \in Imports /\ main'.at = "manifest"
  BY <1>1 DEF Imports, WriteScript
<1>3. TypeOK'
  BY <1>1, <1>2 DEF StoreSound, TypeOK, WriteScript, Changes, Disk, FileOf, Imports
<1>4. Approved'
  BY <1>1 DEF StoreSound, TypeOK, Disk, Approved, WriteScript, Importing, Changes
<1>5. Apart' /\ Started' /\ RunsTheStore'
  BY <1>1, <1>2, StoppedSound DEF WriteScript, Changes
<1> QED
  BY <1>3, <1>4, <1>5 DEF StoreSound

\* Whether the text is replaced is decided against the manifest as it was.
LEMMA WriteManifestSound ==
  ASSUME StoreAssumption, StoreSound, WriteManifest
  PROVE  StoreSound'
<1>1. main \in Imports /\ phase = "Stopped"
  BY Places DEF StoreSound, Apart, WriteManifest, Importing
<1>2. /\ main' \in Imports /\ main'.at = "list"
      /\ main'.replaced = ContentReplaced(disk.manifest, main.text)
  BY <1>1 DEF Imports, WriteManifest, ContentReplaced
<1>3. TypeOK'
  BY <1>1, <1>2 DEF StoreSound, TypeOK, WriteManifest, Changes, Disk, FileOf, Imports
<1>4. Approved'
  BY <1>1, <1>2 DEF StoreSound, TypeOK, Disk, Imports, Approved, WriteManifest, Importing,
     Changes, ContentReplaced, StoreAssumption
<1>5. Apart' /\ Started' /\ RunsTheStore'
  BY <1>1, <1>2, StoppedSound DEF WriteManifest, Changes
<1> QED
  BY <1>3, <1>4, <1>5 DEF StoreSound

LEMMA WriteListSound ==
  ASSUME StoreAssumption, StoreSound, WriteList
  PROVE  StoreSound'
<1>1. main \in Imports /\ phase = "Stopped"
  BY Places DEF StoreSound, Apart, WriteList, Importing
<1>2. main' \in Imports /\ main'.at = "conf" /\ main'.replaced = main.replaced
  BY <1>1 DEF Imports, WriteList, ImportTo
<1>3. TypeOK'
  BY <1>1, <1>2 DEF StoreSound, TypeOK, WriteList, Changes, Disk, FileOf, Imports
<1>4. Approved'
  BY <1>1, <1>2 DEF StoreSound, TypeOK, Disk, Approved, WriteList, Importing, Changes
<1>5. Apart' /\ Started' /\ RunsTheStore'
  BY <1>1, <1>2, StoppedSound DEF WriteList, Changes
<1> QED
  BY <1>3, <1>4, <1>5 DEF StoreSound

LEMMA WriteConfSound ==
  ASSUME StoreAssumption, StoreSound, WriteConf
  PROVE  StoreSound'
<1>1. main \in Imports /\ phase = "Stopped"
  BY Places DEF StoreSound, Apart, WriteConf, Importing
<1>2. TypeOK'
  BY <1>1 DEF StoreSound, TypeOK, WriteConf, Changes, Imports
<1>3. Approved'
  BY <1>1 DEF StoreSound, TypeOK, Imports, Approved, WriteConf, Importing, Changes
<1>4. Apart' /\ Started' /\ RunsTheStore'
  BY <1>1, StoppedSound DEF WriteConf, Changes, Idle
<1> QED
  BY <1>2, <1>3, <1>4 DEF StoreSound

-------------------------------------------------------------------------------
(* Views.                                                                  *)

LEMMA BeginViewSound ==
  ASSUME StoreAssumption, StoreSound, BeginView
  PROVE  StoreSound'
<1>1. conf' = conf /\ disk' = disk /\ RuntimePlan' = RuntimePlan
  BY PlanKept DEF BeginView, store
<1>2. /\ main' \in Views /\ main'.at = "view"
      /\ Read(main'.config)
  BY PlanMade DEF BeginView, RuntimeConfig, Views, Config, Read, StoreSound, TypeOK
<1>3. TypeOK'
  BY <1>1, <1>2 DEF StoreSound, TypeOK, BeginView, store, Changes
<1>4. Approved'
  BY <1>1, <1>2 DEF StoreSound, Approved, BeginView, store, Changes, Idle
<1>5. Apart'
  BY <1>1, <1>2 DEF StoreSound, Apart, BeginView, Changes, Read, Fits
<1>6. Started' /\ RunsTheStore'
  BY <1>1 DEF StoreSound, Started, RunsTheStore, BeginView, Changes, Read, Fits, Routed
<1> QED
  BY <1>3, <1>4, <1>5, <1>6 DEF StoreSound

LEMMA ViewTruncatesSound ==
  ASSUME StoreAssumption, StoreSound, ViewTruncates
  PROVE  StoreSound'
<1>1. conf' = conf /\ disk' = disk /\ RuntimePlan' = RuntimePlan
  BY PlanKept DEF ViewTruncates, store
<1>2. /\ main \in Views
      /\ main' \in Views /\ main'.at = "viewing" /\ main'.config = main.config
  BY Places DEF StoreSound, ViewTruncates, Views
<1>3. broken' \in [import : BOOLEAN, view : BOOLEAN] /\ broken'.import = broken.import
      /\ (broken.view \/ phase = "Starting" => broken'.view)
  BY DEF StoreSound, TypeOK, ViewTruncates
<1>4. TypeOK'
  BY <1>1, <1>2, <1>3 DEF StoreSound, TypeOK, ViewTruncates, store
<1>5. Approved'
  BY <1>1, <1>3 DEF StoreSound, Approved, ViewTruncates, store
<1>6. Apart'
  BY <1>1, <1>2, <1>3 DEF StoreSound, Apart, ViewTruncates, Read, Fits
<1>7. Started' /\ RunsTheStore'
  BY <1>1, <1>3 DEF StoreSound, Started, RunsTheStore, ViewTruncates, Read, Fits, Routed
<1> QED
  BY <1>4, <1>5, <1>6, <1>7 DEF StoreSound

\* A view that writes while a start is under way has come into it.
LEMMA ViewWritesSound ==
  ASSUME StoreAssumption, StoreSound, ViewWrites
  PROVE  StoreSound'
<1>1. conf' = conf /\ disk' = disk /\ RuntimePlan' = RuntimePlan
  BY PlanKept DEF ViewWrites, store
<1>2. main \in Views /\ main'.at = "idle"
  BY Places DEF StoreSound, ViewWrites, Idle
<1>3. TypeOK'
  BY <1>1, <1>2 DEF StoreSound, TypeOK, ViewWrites, store, Views
<1>4. Approved'
  BY <1>1 DEF StoreSound, Approved, ViewWrites, store
<1>5. Apart'
  BY <1>1, <1>2 DEF StoreSound, Apart, ViewWrites
<1>6. Started'
  <2>1. config' \in {main.config, Torn} /\ Read(main.config) /\ main.config \in Config
    BY <1>2 DEF StoreSound, Apart, ViewWrites, Views
  <2>2. worker.at = "spawn" => broken.view
    BY DEF StoreSound, Apart, ViewWrites
  <2> QED
    BY <1>1, <2>1, <2>2 DEF StoreSound, Started, ViewWrites, Read, Fits, Routed
<1>7. RunsTheStore'
  BY <1>1 DEF StoreSound, RunsTheStore, ViewWrites
<1> QED
  BY <1>3, <1>4, <1>5, <1>6, <1>7 DEF StoreSound

-------------------------------------------------------------------------------
(* Starts.                                                                 *)

\* What a step of a start leaves alone.
LEMMA WorksKeeps ==
  ASSUME StoreSound, Works
  PROVE  /\ conf' = conf /\ disk' = disk /\ main' = main /\ broken' = broken
         /\ RuntimePlan' = RuntimePlan
         /\ Approved'
<1>1. conf' = conf /\ disk' = disk /\ main' = main /\ broken' = broken /\ approved' = approved
  BY DEF Works, store
<1> QED
  BY <1>1, PlanKept DEF StoreSound, Approved

LEMMA StartMixDirectSound ==
  ASSUME StoreAssumption, StoreSound, StartMixDirect
  PROVE  StoreSound'
<1>1. conf' = conf /\ disk' = disk /\ main' = main
  BY DEF StartMixDirect, store
<1>2. broken' \in [import : BOOLEAN, view : BOOLEAN] /\ broken'.import = broken.import
  BY DEF StoreSound, TypeOK, StartMixDirect
<1>3. worker' \in Planning /\ worker'.at = "plan" /\ worker'.values = conf.values
  BY DEF StoreSound, TypeOK, StartMixDirect, Planning
<1>4. TypeOK'
  BY <1>1, <1>2, <1>3 DEF StoreSound, TypeOK, StartMixDirect, store
<1>5. Approved'
  BY <1>1, <1>2 DEF StoreSound, Approved, StartMixDirect, store
<1>6. Apart' /\ Started' /\ RunsTheStore'
  BY <1>1, <1>3 DEF StoreSound, Apart, Started, RunsTheStore, StartMixDirect, Idle
<1> QED
  BY <1>4, <1>5, <1>6 DEF StoreSound

LEMMA WritePlanSound ==
  ASSUME StoreAssumption, StoreSound, WritePlan
  PROVE  StoreSound'
<1>1. /\ conf' = conf /\ disk' = disk /\ main' = main /\ broken' = broken
      /\ RuntimePlan' = RuntimePlan /\ Approved'
  BY WorksKeeps DEF WritePlan
<1>2. /\ worker' \in Launching /\ worker'.at = "truncate"
      /\ worker'.values = worker.values
      /\ Fits(worker'.plan)
  <2>1. PICK p \in {DefaultPort} \cup FallbackPorts :
          worker' = [at |-> "truncate", values |-> worker.values,
                     plan |-> [RuntimePlan EXCEPT !.port = p]]
    BY DEF WritePlan, SelectedPorts
  <2>2. [RuntimePlan EXCEPT !.port = p] \in Plan /\ Fits([RuntimePlan EXCEPT !.port = p])
    BY PlanMade DEF StoreSound, Plan, Fits
  <2>3. worker.values \in Values
    BY Places DEF StoreSound, WritePlan, Planning
  <2> QED
    BY <2>1, <2>2, <2>3 DEF Launching
<1>3. TypeOK'
  BY <1>1, <1>2 DEF StoreSound, TypeOK, WritePlan
<1>4. Apart'
  BY <1>1, <1>2 DEF StoreSound, Apart, WritePlan, Read, Fits
<1>5. Started' /\ RunsTheStore'
  BY <1>1, <1>2 DEF StoreSound, Apart, Started, RunsTheStore, WritePlan, Fits
<1> QED
  BY <1>1, <1>3, <1>4, <1>5 DEF StoreSound

LEMMA TruncateConfigSound ==
  ASSUME StoreAssumption, StoreSound, TruncateConfig
  PROVE  StoreSound'
<1>1. /\ conf' = conf /\ disk' = disk /\ main' = main /\ broken' = broken
      /\ RuntimePlan' = RuntimePlan /\ Approved'
  BY WorksKeeps DEF TruncateConfig
<1>2. /\ worker' \in Launching /\ worker'.at = "write"
      /\ worker'.values = worker.values /\ worker'.plan = worker.plan
  BY Places DEF StoreSound, TruncateConfig, Launching
<1>3. TypeOK'
  BY <1>1, <1>2 DEF StoreSound, TypeOK, TruncateConfig
<1>4. Apart'
  BY <1>1, <1>2 DEF StoreSound, Apart, TruncateConfig, Read, Fits
<1>5. Started' /\ RunsTheStore'
  BY <1>1, <1>2 DEF StoreSound, Apart, Started, RunsTheStore, TruncateConfig, Fits
<1> QED
  BY <1>1, <1>3, <1>4, <1>5 DEF StoreSound

\* The proxies are read now, the settings were read when the start began.
LEMMA WriteConfigSound ==
  ASSUME StoreAssumption, StoreSound, WriteConfig
  PROVE  StoreSound'
<1>1. /\ conf' = conf /\ disk' = disk /\ main' = main /\ broken' = broken
      /\ RuntimePlan' = RuntimePlan /\ Approved'
  BY WorksKeeps DEF WriteConfig
<1>2. /\ worker \in Launching
      /\ worker' \in Launching /\ worker'.at = "spawn"
      /\ worker'.values = worker.values /\ worker'.plan = worker.plan
  BY Places DEF StoreSound, WriteConfig, Launching
<1>3. config' \in {RuntimeConfig(worker.values, worker.plan), Torn}
  BY DEF WriteConfig
<1>4. RuntimeConfig(worker.values, worker.plan) \in Config
  BY <1>2 DEF RuntimeConfig, Config, Launching, StoreSound, TypeOK
<1>5. /\ Read(RuntimeConfig(worker.values, worker.plan))
      /\ RuntimeConfig(worker.values, worker.plan).plan = worker.plan
  BY DEF RuntimeConfig, Read, StoreSound, Started, WriteConfig
<1>6. TypeOK'
  BY <1>1, <1>2, <1>3, <1>4 DEF StoreSound, TypeOK, WriteConfig
<1>7. Apart'
  BY <1>1, <1>2 DEF StoreSound, Apart, WriteConfig, Read, Fits
<1>8. Started'
  BY <1>1, <1>2, <1>3, <1>4, <1>5 DEF StoreSound, Started, WriteConfig, Read, Fits, Routed
<1>9. RunsTheStore'
  BY <1>2 DEF StoreSound, Apart, RunsTheStore, WriteConfig
<1> QED
  BY <1>1, <1>6, <1>7, <1>8, <1>9 DEF StoreSound

LEMMA SpawnSound ==
  ASSUME StoreAssumption, StoreSound, Spawn
  PROVE  StoreSound'
<1>1. /\ conf' = conf /\ disk' = disk /\ main' = main /\ broken' = broken
      /\ RuntimePlan' = RuntimePlan /\ Approved'
  BY WorksKeeps DEF Spawn
<1>2. /\ worker \in Launching
      /\ worker' \in Launching /\ worker'.at = "mitm"
      /\ worker'.values = worker.values /\ worker'.plan = worker.plan
  BY Places DEF StoreSound, Spawn, Launching
<1>3. config \in Config /\ Routed(config)
  BY DEF Spawn, StoreSound, Started
<1>4. running' \in Runs /\ running'.singBox = config
  BY <1>3 DEF Spawn, Runs
<1>5. TypeOK'
  BY <1>1, <1>2, <1>4 DEF StoreSound, TypeOK, Spawn
<1>6. Apart'
  BY <1>1, <1>2 DEF StoreSound, Apart, Spawn, Read, Fits
<1>7. Started' /\ RunsTheStore'
  BY <1>1, <1>2, <1>3, <1>4
     DEF StoreSound, Apart, Started, RunsTheStore, Spawn, Read, Fits, Routed
<1> QED
  BY <1>1, <1>5, <1>6, <1>7 DEF StoreSound
LEMMA SpawnMitmSound ==
  ASSUME StoreAssumption, StoreSound, SpawnMitm
  PROVE  StoreSound'
<1>1. /\ conf' = conf /\ disk' = disk /\ main' = main /\ broken' = broken
      /\ RuntimePlan' = RuntimePlan /\ Approved'
  BY WorksKeeps DEF SpawnMitm
<1>2. worker \in Launching /\ running \in Runs /\ Routed(running.singBox)
  BY Places DEF StoreSound, Started, SpawnMitm
<1>3. /\ running' \in Runs /\ running'.singBox = running.singBox
      /\ running'.mitm \in {worker.plan, None}
  BY <1>2 DEF SpawnMitm, Runs, Launching
<1>4. worker'.at = "idle"
  BY DEF SpawnMitm, Idle
<1>5. TypeOK'
  BY <1>1, <1>3 DEF StoreSound, TypeOK, SpawnMitm
<1>6. Apart' /\ Started'
  BY <1>1, <1>4 DEF StoreSound, Apart, Started, SpawnMitm, Read, Fits
<1>7. RunsTheStore'
  <2>1. Fits(worker.plan)
    BY DEF StoreSound, Started, SpawnMitm
  <2> QED
    BY <1>1, <1>2, <1>3, <2>1 DEF RunsTheStore, SpawnMitm, Routed, Read, Fits
<1> QED
  BY <1>1, <1>5, <1>6, <1>7 DEF StoreSound

\* Whatever ends a start or a runtime leaves nothing to compare with the store.
LEMMA EndSound ==
  ASSUME StoreAssumption, StoreSound, StartFails \/ StopRuntime
  PROVE  StoreSound'
<1>1. /\ conf' = conf /\ disk' = disk /\ main' = main /\ broken' = broken
      /\ RuntimePlan' = RuntimePlan /\ Approved'
  BY WorksKeeps DEF StartFails, StopRuntime
<1>2. phase' = "Stopped" /\ running' = None /\ config' = config
  BY DEF StartFails, StopRuntime
<1>3. worker' = Idle
  BY Places DEF StartFails, StopRuntime, StoreSound, Apart
<1>4. TypeOK'
  BY <1>1, <1>2, <1>3 DEF StoreSound, TypeOK
<1>5. Apart' /\ Started' /\ RunsTheStore'
  BY <1>1, <1>2, <1>3 DEF StoreSound, Apart, Started, RunsTheStore, Idle, Read, Fits
<1> QED
  BY <1>1, <1>4, <1>5 DEF StoreSound

LEMMA CrashSound ==
  ASSUME StoreAssumption, StoreSound, Crash
  PROVE  StoreSound'
<1>1. TypeOK'
  BY InterruptedFiles DEF StoreSound, TypeOK, Crash
<1>2. Approved'
  BY InterruptedFiles DEF StoreSound, Approved, Crash
<1>3. Apart' /\ Started' /\ RunsTheStore'
  BY DEF Crash, Apart, Started, RunsTheStore, Idle
<1> QED
  BY <1>1, <1>2, <1>3 DEF StoreSound

LEMMA StutterSound ==
  ASSUME StoreSound, UNCHANGED vars
  PROVE  StoreSound'
<1>1. RuntimePlan' = RuntimePlan
  BY PlanKept DEF vars
<1> QED
  BY <1>1 DEF vars, StoreSound, TypeOK, Approved, Apart, Started, RunsTheStore,
     Read, Fits, Routed

-------------------------------------------------------------------------------

\* The store and what was made of it stay sound, through imports and starts that fail
\* or are killed at any point and views that come between.
THEOREM StoreSoundness == Spec => []StoreSound
<1>1. Init => StoreSound
  BY InitSound, StoreAssumption
<1>2. StoreSound /\ [Next]_vars => StoreSound'
  <2> SUFFICES ASSUME StoreSound, [Next]_vars
               PROVE  StoreSound'
    OBVIOUS
  <2> USE StoreAssumption
  <2>1. CASE \E v \in Values : SaveValues(v)
    BY <2>1, SaveValuesSound
  <2>2. CASE \E e \in BOOLEAN : SetModuleEnabled(e)
    BY <2>2, SetModuleEnabledSound
  <2>3. CASE \E t \in Texts, s \in Scripts \cup {None, Ambiguous} : BeginImport(t, s)
    BY <2>3, BeginImportSound
  <2>4. CASE Import
    BY <2>4, ImportFailsSound, WriteTextSound, WriteScriptSound, WriteManifestSound,
       WriteListSound, WriteConfSound DEF Import
  <2>5. CASE BeginView \/ ViewTruncates \/ ViewWrites
    BY <2>5, BeginViewSound, ViewTruncatesSound, ViewWritesSound
  <2>6. CASE StartMixDirect \/ WritePlan \/ TruncateConfig
    BY <2>6, StartMixDirectSound, WritePlanSound, TruncateConfigSound
  <2>7. CASE WriteConfig \/ Spawn \/ SpawnMitm
    BY <2>7, WriteConfigSound, SpawnSound, SpawnMitmSound
  <2>8. CASE StartFails \/ StopRuntime
    BY <2>8, EndSound
  <2>9. CASE Crash
    BY <2>9, CrashSound
  <2>10. CASE UNCHANGED vars
    BY <2>10, StutterSound
  <2> QED
    BY <2>1, <2>2, <2>3, <2>4, <2>5, <2>6, <2>7, <2>8, <2>9, <2>10 DEF Next
<1> QED
  BY <1>1, <1>2, PTL DEF Spec

\* A module whose text differs from the approved one is not in force, unless an import
\* broke off after its manifest was written (persist_imported_module_files).
THEOREM ReplacedModuleIsOff == Spec => []ReplacedIsOff
<1>1. StoreSound => ReplacedIsOff
  BY DEF StoreSound, Approved, ReplacedIsOff, InForce, Verified, Loadable, Idle
<1> QED
  BY <1>1, StoreSoundness, PTL

\* What sing-box and mitmdump were started with is what the store holds for as long as
\* they run, and they agree on the port unless a view came into the start
\* (start_mix_direct_transaction, get_config_documents).
THEOREM RuntimeRunsTheStore == Spec => []RunsTheStore
<1>1. StoreSound => RunsTheStore
  BY DEF StoreSound
<1> QED
  BY <1>1, StoreSoundness, PTL
===============================================================================
