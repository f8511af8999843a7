------------------------------ MODULE ConfigStore ------------------------------
(***************************************************************************)
(* The files of the host: SongsterX.conf, the imported module with its     *)
(* script and their two manifests, and what a start generates from them    *)
(* (src-tauri/src/lib.rs).                                                 *)
(*                                                                         *)
(* Commands run on the main thread, one after another; a start is a worker *)
(* thread.  The gate runtime_mutation_allowed admits changes of the store  *)
(* only in phase Stopped; viewing the configuration is admitted always,    *)
(* and it writes.  A file is truncated and written, so an error or the end *)
(* of the application may leave it torn; SongsterX.conf alone is renamed   *)
(* into place.                                                             *)
(*                                                                         *)
(* One module with one script is imported again and again.  A hash is the  *)
(* content it was computed from.                                           *)
(***************************************************************************)
EXTENDS Naturals

CONSTANTS
  Texts,        \* what the module file may hold; every text names the script
  Intercepting, \* the texts that need the MITM engine
  Scripts,      \* what the script may hold
  Values,       \* settings, proxies and module arguments
  GatewayMode,  \* those of them that select the Gateway
  DefaultPort, FallbackPorts,
  Ambiguous,    \* two files of the script's name were selected
  Torn, None

ASSUME StoreAssumption ==
  /\ Intercepting \subseteq Texts /\ GatewayMode \subseteq Values
  /\ DefaultPort \notin FallbackPorts
  /\ {Torn, None} \cap (Texts \cup Scripts) = {} /\ Torn # None
  /\ Ambiguous \notin Scripts \cup {None}

VARIABLES
  conf,      \* SongsterX.conf: the values, and whether the module is enabled
  disk,      \* the module's text and script, the manifest, the list of assets
  config,    \* the runtime configuration of sing-box
  main,      \* what the main thread is doing
  worker,    \* the start under way
  phase,     \* LifecyclePhase
  running,   \* what sing-box and mitmdump were started with
  approved,  \* history: the text that the user enabled
  broken     \* history: since then an import broke off, or a view came into a start

vars == <<conf, disk, config, main, worker, phase, running, approved, broken>>
store == <<conf, disk, approved>>

Idle == [at |-> "idle"]

Init ==
  /\ conf \in [values : Values, enabled : {FALSE}]
  /\ disk = [text |-> None, script |-> None, manifest |-> None, list |-> None]
  /\ config = None
  /\ main = Idle /\ worker = Idle
  /\ phase = "Stopped" /\ running = None
  /\ approved = None /\ broken = [import |-> FALSE, view |-> FALSE]

-------------------------------------------------------------------------------
(* Reading the store.                                                      *)

\* load_imported_manifest and load_imported_assets: a torn list ends the command.
\* load_modules reads the module file of every entry, which is there.
Loadable == Torn \notin {disk.manifest, disk.list}

\* load_modules_with_preferences: the text has the hash of the manifest, and the
\* script is listed with the hash it has.
Verified ==
  /\ Loadable
  /\ disk.text = disk.manifest /\ disk.text # None
  /\ disk.script = disk.list /\ disk.script # None

InForce == conf.enabled /\ Verified

\* load_module_runtime_plan, before a port is chosen: the module and its arguments.
RuntimePlan ==
  [module |-> IF InForce THEN <<disk.text, disk.script>> ELSE None,
   arguments |-> conf.values, port |-> DefaultPort]

\* render_runtime_config_document: the proxies are read when it is rendered.
RuntimeConfig(settings, plan) == [settings |-> settings, proxies |-> conf.values, plan |-> plan]

\* module_plan_requires_mitm
RequiresMitm(plan) == plan.module # None /\ plan.module[1] \in Intercepting

-------------------------------------------------------------------------------
(* Changing the store: commands of the main thread that pass the gate.     *)

\* Mutant: only a runtime that is up refuses changes.
MutationAllowedEarly == phase # "Running"

\* runtime_mutation_allowed
MutationAllowed == phase = "Stopped"

Changes == UNCHANGED <<config, worker, phase, running>>

\* save_runtime_settings, reset_runtime_settings, save_proxy_config and
\* set_module_argument: the whole of SongsterX.conf is rewritten, or nothing.
SaveValues(v) ==
  /\ main = Idle /\ MutationAllowed /\ Loadable
  /\ conf' = [conf EXCEPT !.values = v]
  /\ UNCHANGED <<disk, main, approved, broken>> /\ Changes

\* set_module_enabled: only a verified module can be enabled.
SetModuleEnabled(e) ==
  /\ main = Idle /\ MutationAllowed /\ Loadable
  /\ disk.manifest # None
  /\ e => Verified
  /\ conf' = [conf EXCEPT !.enabled = e]
  /\ approved' = IF e THEN disk.text ELSE None
  /\ broken' = [broken EXCEPT !.import = FALSE]
  /\ UNCHANGED <<disk, main>> /\ Changes

\* import_module, or import_module_url, which has then downloaded everything.
\* Bound: one script, of which no, one or two files were selected.
BeginImport(t, s) ==
  /\ main = Idle /\ MutationAllowed
  /\ main' = [at |-> "text", text |-> t, script |-> s, list |-> None, replaced |-> FALSE]
  /\ UNCHANGED <<store, broken>> /\ Changes

Importing(at) == main.at = at
ImportTo(at) == main' = [main EXCEPT !.at = at]

\* What the step of an import writes to its file, if it comes to write at all.
Content(at) ==
  CASE at = "script" -> main.script [] at = "list" -> main.list [] OTHER -> main.text
Writes(at) ==
  CASE at \in {"text", "list"} -> TRUE
    [] at = "script"   -> disk.list # Torn /\ main.script \in Scripts
    [] at = "manifest" -> disk.manifest # Torn
    [] OTHER -> FALSE

\* write_private_file: whoever does not get to its end leaves what was there, or a
\* part of the new content, or (sync_all) all of it.
Interrupted ==
  /\ disk' \in {disk} \cup IF Writes(main.at)
                          THEN {[disk EXCEPT ![main.at] = c] : c \in {Torn, Content(main.at)}}
                          ELSE {}
  /\ broken' = [broken EXCEPT !.import = @ \/ main.at \in {"list", "conf"}
                                          \/ disk'.manifest \notin {disk.manifest, Torn}]

\* The command returns an error.
ImportFails ==
  /\ main.at \in {"text", "script", "manifest", "list", "conf"}
  /\ main' = Idle
  /\ Interrupted
  /\ UNCHANGED <<conf, approved>> /\ Changes

\* persist_imported_module_files, file by file.
WriteText ==
  /\ Importing("text")
  /\ disk' = [disk EXCEPT !.text = main.text]
  /\ ImportTo("script")
  /\ UNCHANGED <<conf, approved, broken>> /\ Changes

\* The entries of the module are dropped from the list, also when no file was
\* selected; the script itself then stays.
WriteScript ==
  /\ Importing("script") /\ disk.list # Torn /\ main.script # Ambiguous
  /\ disk' = [disk EXCEPT !.script = IF main.script = None THEN @ ELSE main.script]
  /\ main' = [main EXCEPT !.at = "manifest", !.list = main.script]
  /\ UNCHANGED <<conf, approved, broken>> /\ Changes

\* Mutant: the manifest is compared after the entry was replaced.
ContentReplacedLate(old, new) == FALSE

\* content_replaced: the manifest names another text, not: the file holds another.
ContentReplaced(old, new) == old # None /\ old # new

WriteManifest ==
  /\ Importing("manifest") /\ disk.manifest # Torn
  /\ main' = [main EXCEPT !.at = "list",
                          !.replaced = ContentReplaced(disk.manifest, main.text)]
  /\ disk' = [disk EXCEPT !.manifest = main.text]
  /\ UNCHANGED <<conf, approved, broken>> /\ Changes

WriteList ==
  /\ Importing("list")
  /\ disk' = [disk EXCEPT !.list = main.list]
  /\ ImportTo("conf")
  /\ UNCHANGED <<conf, approved, broken>> /\ Changes

\* persist_module_preferences with the module switched off, or
\* write_songsterx_config_from_current_state.
WriteConf ==
  /\ Importing("conf")
  /\ conf' = [conf EXCEPT !.enabled = @ /\ ~main.replaced]
  /\ main' = Idle
  /\ UNCHANGED <<disk, approved, broken>> /\ Changes

Import == ImportFails \/ WriteText \/ WriteScript \/ WriteManifest \/ WriteList \/ WriteConf

-------------------------------------------------------------------------------
(* Viewing the configuration: get_config_documents asks no gate.           *)

\* What is viewed is what the store holds, with no port chosen.
BeginView ==
  /\ main = Idle /\ Loadable
  /\ main' = [at |-> "view", config |-> RuntimeConfig(conf.values, RuntimePlan)]
  /\ UNCHANGED <<store, broken>> /\ Changes

\* write_runtime_config and write_gateway_guest_runtime_config: the file is
\* truncated, then written.  Two writers may leave a mixture.
ViewTruncates ==
  /\ main.at = "view"
  /\ config' = Torn
  /\ main' = [main EXCEPT !.at = "viewing"]
  /\ broken' = [broken EXCEPT !.view = @ \/ phase = "Starting"]
  /\ UNCHANGED <<store, worker, phase, running>>
ViewWrites ==
  /\ main.at = "viewing"
  /\ config' \in {main.config, Torn}
  /\ main' = Idle
  /\ UNCHANGED <<store, broken, worker, phase, running>>

-------------------------------------------------------------------------------
(* A start: start_mix_direct, and its worker.                              *)

Works == UNCHANGED <<store, main, broken>>

\* The values are read on the main thread, everything else by the worker.
StartMixDirect ==
  /\ main = Idle /\ phase = "Stopped"
  /\ phase' = "Starting"
  /\ worker' = [at |-> "plan", values |-> conf.values]
  /\ broken' = [broken EXCEPT !.view = FALSE]
  /\ UNCHANGED <<store, config, main, running>>

\* select_module_proxy_port: the first port nobody listens on; the guest of a
\* Gateway has the default port to itself.
SelectedPorts(values) ==
  IF values \in GatewayMode THEN {DefaultPort} ELSE {DefaultPort} \cup FallbackPorts

\* write_module_runtime_plan, and again with the port: nobody else reads the file
\* before the worker's own processes do.
WritePlan ==
  /\ worker.at = "plan" /\ Loadable
  /\ \E p \in IF RequiresMitm(RuntimePlan) THEN SelectedPorts(worker.values)
              ELSE {DefaultPort} :
       worker' = [at |-> "truncate", values |-> worker.values,
                  plan |-> [RuntimePlan EXCEPT !.port = p]]
  /\ UNCHANGED <<config, phase, running>> /\ Works

TruncateConfig ==
  /\ worker.at = "truncate"
  /\ config' = Torn
  /\ worker' = [worker EXCEPT !.at = "write"]
  /\ UNCHANGED <<phase, running>> /\ Works

WriteConfig ==
  /\ worker.at = "write"
  /\ LET mine == RuntimeConfig(worker.values, worker.plan)
     IN config' \in IF main.at = "viewing" THEN {mine, Torn} ELSE {mine}
  /\ worker' = [worker EXCEPT !.at = "spawn"]
  /\ UNCHANGED <<phase, running>> /\ Works

\* sing-box of this host reads the file; or it is hashed and sent to the guest,
\* whose sing-box checks it.  A torn one is refused.
Spawn ==
  /\ worker.at = "spawn" /\ config # Torn
  /\ running' = [singBox |-> config, mitm |-> None]
  /\ worker' = [worker EXCEPT !.at = "mitm"]
  /\ UNCHANGED <<config, phase>> /\ Works

\* spawn_mitmproxy, and in a Gateway start_mitm of the guest, with the plan and
\* its port.
SpawnMitm ==
  /\ worker.at = "mitm"
  /\ running' = [running EXCEPT !.mitm =
                    IF RequiresMitm(worker.plan) THEN worker.plan ELSE None]
  /\ phase' = "Running" /\ worker' = Idle
  /\ UNCHANGED config /\ Works

\* Anything may fail, and a stop cancels a start; what ran is stopped before the
\* phase is Stopped (Lifecycle!StoppedIsQuiet).
StartFails ==
  /\ worker # Idle
  /\ worker' = Idle /\ phase' = "Stopped" /\ running' = None
  /\ UNCHANGED config /\ Works

StopRuntime ==
  /\ main = Idle /\ phase = "Running"
  /\ phase' = "Stopped" /\ running' = None
  /\ UNCHANGED <<config, worker>> /\ Works

\* The application is killed and started again: the file being written may be torn.
Crash ==
  /\ main' = Idle /\ worker' = Idle
  /\ phase' = "Stopped" /\ running' = None
  /\ Interrupted
  /\ UNCHANGED <<conf, config, approved>>

Next ==
  \/ \E v \in Values : SaveValues(v)
  \/ \E e \in BOOLEAN : SetModuleEnabled(e)
  \/ \E t \in Texts, s \in Scripts \cup {None, Ambiguous} : BeginImport(t, s)
  \/ Import
  \/ BeginView \/ ViewTruncates \/ ViewWrites
  \/ StartMixDirect \/ WritePlan \/ TruncateConfig \/ WriteConfig \/ Spawn \/ SpawnMitm
  \/ StartFails \/ StopRuntime
  \/ Crash

Spec == Init /\ [][Next]_vars

-------------------------------------------------------------------------------
(* What the store promises.                                                *)

\* A module whose text differs from the one the user enabled is not in force, after
\* whatever sequence of imports, errors and restarts, unless an import broke off
\* between its manifest and its preferences: any earlier, the text and the manifest
\* differ, any later it has been switched off.
ReplacedIsOff == main = Idle /\ InForce /\ ~broken.import => disk.text = approved

\* While the runtime is up, the values and the module that sing-box and mitmdump
\* were started with are those of the store, although the store was read at three
\* moments of the start; and sing-box hands the module's hosts to the port on which
\* mitmdump listens, unless the configuration was viewed during the start: the view
\* rewrites sing-box's file with the default port (docs/ui-architecture.md:37 calls
\* the view read-only).
RunsTheStore ==
  phase = "Running" =>
    /\ running.singBox.settings = conf.values /\ running.singBox.proxies = conf.values
    /\ LET routed == running.singBox.plan
           served == running.mitm
       IN /\ routed.module = RuntimePlan.module /\ routed.arguments = conf.values
          /\ served # None =>
               /\ served.module = routed.module /\ served.arguments = conf.values
               /\ served.port = routed.port \/ broken.view
===============================================================================
