# SongsterX: TLA+ models, checks and proofs

SongsterX is a macOS desktop application (Tauri: Rust behind a React window) that runs a proxy,
sing-box, in one of two modes. In *Mixed* mode sing-box, and mitmdump when modules need it, run
on the host. In *Gateway* mode the host boots a small Linux VM (vfkit with two vmnet helpers) and
a guest agent in the VM runs sing-box and mitmdump. This directory models the programs that
own processes, the guest agent and the host with its lifecycle, Gateway supervisor and client of
the agent, and the store of settings and modules they run, and states what they promise when
steps fail, cross each other, or come late.

Paths below are relative to the repository (`src/` here). `PROJECT.json` maps each definition to
the lines it stands for.

## 1. Inventory

| Component | State it keeps | Operations | Talks to |
|---|---|---|---|
| Guest agent, `src-tauri/guest-agent/main.rs` | `AgentRuntime` (two child handles, pending session, `liveness_fault`, restart backoff), readiness file, configuration and plan with their incoming and staged copies, version slots with `active`/`previous`/`staged` | one control request at a time: `status`, `stage_config`, `stage_module_plan`, `activate_session`, `stop_runtime`, `stage_upgrade`, `activate_upgrade`, `rollback`; relays to the Clash API | host client over TCP; children; network script |
| Host lifecycle, `src-tauri/src/lib.rs` | `RuntimeState`: phase, generation, `gateway_transition`, three ownership slots, status, metrics session and generation, `exit_cleanup_started` | `start_mix_direct`, `stop_runtime`, `get_runtime_status`, `ExitRequested`, their worker threads, metrics pollers | gateway supervisor, guest client, UI |
| Host guest client, `src-tauri/src/guest_agent.rs` | none between calls; a deadline and a cancellation per call | `sync_session`, `upgrade_sing_box`, `rollback`, `query_status`, reconciliation of lost answers | guest agent |
| Gateway supervisor, `src-tauri/src/gateway_runtime.rs` | children in start order, owned artifacts | parallel helper start, vfkit, agent probe, rollback, `stop` | process groups |
| Process groups, `src-tauri/src/process_group.rs` | child handle, process group id or launchd job, output threads | spawn, `request_stop`, `finish_stop_until`, artifact clean-up, `Drop` | operating system |
| Launch plan, `src-tauri/src/vfkit.rs` | none | pure: settings to command lines, validation | supervisor |
| Readiness record, `src-tauri/src/packet_path.rs` | a phase and a message | `mark_*` | lifecycle |
| Boot configuration, `guest-agent/boot_config.rs` | none | pure: parse and validate the guest network | agent, network script |
| Configuration builder and module engine, `lib.rs` | files on disk | parse, validate, translate rules, proxies and modules; import and enable modules | UI, lifecycle (gate on the phase) |
| Metrics and connections, `lib.rs` | last sample of the system connections | poll, merge, assign identities | lifecycle (generation), UI |
| User interface, `src/App.tsx` | React state, runtime operation lock, intent generation | buttons, save-and-restart flow | Tauri commands |
| Guest network script, `guest-runtime/songsterx-gateway-net.sh` | `network.ready`, nftables, routes | boot, `stop-forwarding` | agent |
| Module runtime (`scripts/mitm_addon.py`), build scripts, vmnet-helper, bundled modules | – | per-request HTTP transformation; build time; vendored; data | – |

What is hard here, and what would make each part correct:

* **Guest agent.** A handler is a chain of fallible calls, and each failure has a way back that is
  itself fallible. Correct means: processes stay owned; the pair of configuration and plan changes
  together or not at all; a pair reported as ready is never rolled back; the readiness file tells
  the truth; an acknowledged stop is final; slots and pointers describe what runs; a pending
  session is always resolved.
* **Host lifecycle.** Commands return at once and leave work to threads that meet in a phase, a
  generation and a lock. Correct means: every process has an owner, one runtime at a time,
  *stopped* means stopped, what could not be stopped stays stoppable, status and metrics agree
  with the phase once everything is at rest, and everything that begins ends.
* **Gateway supervisor and process groups.** Two threads start helpers; a failure or a cancel at
  any point must stop exactly what was started. Correct means: vfkit only over two living helpers,
  every survivor stays in the residue, files are removed only when nobody uses them, a retry
  never reports success over a living group.
* **Host client.** Answers get lost after the agent has acted. Correct means: the reported result
  is the agent's actual one, an upgrade is not undone because its answer was lost.
* **Pure parts.** Boot configuration, launch plan, translation of rules and module arguments:
  agreement with a reference definition, rejection of what the other end would refuse.

`PROJECT.json` lists the hazards at the lines where they bite.

## 2. Plan

Most important behaviour first. Items 1–11 exist.

1. `GuestAgent` – the data plane's owner, one action per request. Runs `ga_*`.
2. `Lifecycle` – the host's phases, workers and lock. Runs `lc_*`.
3. `GuestAgentProofs` – ownership and readiness of the agent for all constants.
4. `ProcessGroup`, and `GatewayRuntime` over it: signals, deadlines, survivors; parallel start,
   rollback, residue, artifacts, orphans of a killed application. Run `gw_start`;
   `ProcessGroupProofs` and `GatewayRuntimeProofs`.
5. `SessionStore` – what a session promises, which `GuestAgent` implements. Checked in `ga_faults`.
6. `HostSync` – the host's client composed with `GuestAgent`. Run `hs_sync`.
7. `NetworkPlan` – the three checks of the Gateway's network as a pipeline. Run `net_plan`;
   `NetworkPlanProofs`.
8. `ConfigStore` – the files of the host, imports, views and what a start makes of them. Run
   `cs_store`; `ConfigStoreProofs`.
9. `LifecycleProofs` – one transaction at a time, no process lost, and what the phases mean.
10. `GuestAgentPromises` – the session, version and stop promises of the agent, and its refinement
    of `SessionStore`.
11. `HostSyncProofs` – the composition of host and agent, over the lemmas of `GuestAgentPromises`.
12. Next: `RuntimeSlots`, an abstract owner (free, starting, owned) that `Lifecycle` implements
   when not overtaken and `GatewayRuntime` refines; the identity of connections across samples;
   the order of rules in the generated configuration against a reference definition.

Theorems planned next: the two refinements of `RuntimeSlots`, from `CalmHolds` and `Invariance`.

## 3. The modules

### GuestAgent

One variable, `agent`, a record of six parts:

| Field | Code |
|---|---|
| `run` | `AgentRuntime` plus what the operating system knows: `sb`, `mitm` are the handles, `sbUp`, `mitmUp` the processes, `stray` a process nobody owns, `api` what the probes find, `cfg`, `plan` what the children were started with, `ready` the readiness file |
| `pending` | `pending_session`, its deadline as `late` |
| `files` | session files; `cfgIn`/`planIn` may be `Partial`, `cfgStaged`/`planStaged` are the digests on record |
| `slots` | version directories, `active`, `previous`, `staged.json` |
| `network` | `network.ready` |
| `log` | history no handler reads: last committed pair, torn restore, last pair told ready, acknowledged stop |

The control loop serves one connection at a time, so a request handler is one action. Inside it
each fallible call of the code is an operator from a state to its set of outcomes (`Done(s)` or
`Failed(s)`), and a handler is the union over the outcomes of its calls in the order of the code.
`Faults` selects which kinds of failure an instance may have. `Crashing` configurations pass
`sing-box check` and leave within the startup grace, so a candidate can fail without any fault of
the environment. A probe that answers may be sampled differently by two calls of one handler
(`flap`), because the code samples it several times.

Contents of files are model values; digests are identified with contents. A version's binary has
no effect beyond its label. The copy `config.previous` and `last_error` are not modelled: nothing
reads the first, and the second is a message. After the boot the shipped version is active and no
configuration exists (`scripts/build_gateway_guest.sh` builds the image, `init` does not restart
the agent, and its file system is volatile), so there is no restart over an old state.

### Lifecycle

One program counter per thread: the start workers, the stop workers, the main thread, which runs
all commands one at a time, and the worker of a quit. An action is a section under one of the
short locks or between two of them. `lock` is `gateway_transition`. `slot` holds the owners,
`hand` what a thread holds outside a slot (a process it is starting or has taken out to stop),
`alive` the processes. The Gateway, its VM and helpers included, is one process here.
A start's plan is the sequence of slots it fills: `<<"gateway">>`, `<<"child">>` or
`<<"child","mitm">>`. A process is named by its slot and its start, so that two of one kind are
told apart.

`metrics` keeps who drew the current `metrics_generation` and whether a poller with it exists;
a poller with an older one ends by its own check. The panic handlers and poisoned locks are left
out. `GatewayRuntime` is what this module takes in one step (`Launch`, and the stop of `"gateway"`
with its residue), `HostSync` the session inside it and the detached stop request after it.

### SessionStore

What a client of the guest agent may rely on, without processes, files or faults: a pair in
force, a trial with the pair to go back to, a torn way back, and the pair last reported as
serving. `GuestAgent` instantiates it as `Sessions`, with the files as the pair in force, the
pending session as the trial and its history for the rest; `Implements` is `Sessions!Spec`, and
`ga_faults` checks that each of its steps is one of `SessionStore`'s or leaves all of it alone.

### ProcessGroup, GatewayRuntime

`ProcessGroup` is `ManagedChild` without state of its own: a child is a record (the handle, the
group id, the leader, a descendant, launchd's label) and each call an operator from a child to its
outcomes, in the idiom of `GuestAgent`. A grace period is a choice between a process that has left
and one that has not. Only vfkit has descendants; a helper is a process group or a job of launchd.

`GatewayRuntime` is `start_with_cancellation` and `GatewayRuntime::stop` with what surrounds them
in `lib.rs`. `pc` is the supervising thread, `thread` and `hand` the step of each role with the
child it holds, `children` the runtime's, `slot` whether it is registered. The two helper threads
interleave with each other, with exits, with the user's cancel and with a crash of the
application, after which the processes are `orphans` that the next start has to reclaim. `stray`
collects processes whose handle was dropped; `NothingLost` says that none ever is. Reclaiming
looks at `ps`: it sees leaders only, and so does the model (`Found`).

### HostSync

The start worker, the upgrade command and the detached stop thread against `GuestAgent`, which the
module extends: `agent`, its handlers and its environment are those of the agent, unchanged, and
where both modules need a name the one here has `Host` or `Sync` in front. Each request has a
connection of its own, the agent serves them in the order of `backlog`, and a client that gives up
leaves its request there (`live = FALSE`): it will still be served. An answer may be lost after the
agent has acted. `Reboot` replaces the agent and all connections, as killing the VM does; the stop
thread of the previous boot may still be on its way and reach the new one.

The composition answers what `ga_*` assume. Each boot gets one activation (`ActivatesIdle`), so
`Overlap = FALSE` in `ga_faults` is what the host does, although the agent would accept more; the
theorem `ActivatesIdleAgent` says so for every instance. A
session is the first of its boot, so the rollback of a session has no earlier version to restart
and upgrades may overlap it (`OverlapRunsActive`).

### NetworkPlan

The Gateway's network goes through three checks written apart: the settings (`lib.rs`), the launch
plan (`vfkit.rs`), and the agent at boot, from the kernel command line (`boot_config.rs`). The
module is a pipeline of these: enter and save (or load an edited file), build the plan, boot. Each
check is an operator over addresses of `Width` bits with its own rules on prefixes, networks,
broadcasts and overlaps as the code has them. The reference definition is in `AddressesApart`:
sets of addresses instead of arithmetic on prefixes.

### ConfigStore

The files of the host: `conf` is SongsterX.conf (renamed into place, so whole), `disk` the module's
text, its script, the manifest and the list of assets, each truncated and written and so possibly
`Torn`; `config` is the generated file of sing-box, or in a Gateway the one for the guest. `main`
runs commands one after another; an import is five steps, so that errors and crashes fall between
them. `worker` is a start, which reads the store at three moments. `StartFails` leaves phase
`Stopped` only when the worker is done, which `StoppedIsQuiet` says of `Lifecycle` when it is not
overtaken (`lc_cancel` shows where it fails). A hash is identified with what it was computed from.
`generate_gateway_guest_config` is registered but no part of the interface calls it; it does what
a view does.

### MC modules

Model values, runtimes and symmetry sets for the configurations.

## 4. The runs

Every `cfg` sets `CHECK_DEADLOCK FALSE`: workers are finite in number and the user may stop
acting, so a final state is legitimate. That nobody waits for ever is stated as liveness instead.

| Run | Checks | Instance | What it shows |
|---|---|---|---|
| `ga_faults` | `TypeOK`, `NoStrayProcess`, `ReadyServesFiles`, `ExplicitStopIsFinal`, `SessionAtomic`, `Implements` | 1 version, 2 configurations, one crashing, a plan needing mitmdump; every fault | ownership, readiness, finality of a stop; the pair changes as a whole unless a restore failed; the agent implements `SessionStore` |
| `ga_upgrade` | `RunsActiveVersion` | 2 versions, labels may be reused; kill, spawn, write | what runs is what `active` names |
| `ga_live` | `RollbackSlotUsable`, `ReadyReplyIsCommitted`, `PendingResolves` | 2 versions with fresh labels, 2 configurations, 2 plans; exit, spawn, wait; fairness | the rollback slot is another version with its binary; a pair told ready is committed; commit or rollback, always |
| `lc_workers` | `NoOrphan`, `SingleRuntime`, `StoppedIsQuiet`, `StatusAgrees`, `StoppedIsNotPolled`, `RunningIsPolled` | 3 starts, 2 stops, all runtimes, all faults, `Overtaking = FALSE` | the safety of starts and stops |
| `lc_live` | `TypeOK`, `RunningIsOwned`, `StartEnds`, `StopEnds`, `QuitEnds` | 2 starts, 1 stop, 1 quit, boot, reap, `Overtaking = TRUE`; fairness | a running phase can be stopped; nobody waits for ever |
| `gw_start` | `TypeOK`, `NothingLost`, `DirOutlivesProcesses`, `VfkitBehindHelpers`, `NoSecondGateway`, `ResidueStoppable`, `Ends` | 3 starts, 2 crashes, both launch modes, every fault; fairness | what was started is owned or gone; files outlive their users; orphans are reclaimed first; a residue can be stopped; each start and stop ends |
| `hs_sync` | `HostTypeOK`, `SyncedIsCommitted`, `ActivatesIdle`, `OverlapRunsActive`, `UpgradeReportTrue`, `NoSecondDowngrade`, `SyncEnds` | 2 boots, 2 waiting connections, a session and an upgrade, exits and failing starts in the guest, lost answers; fairness | what the host reports is so, whichever answers were lost |
| `net_plan` | `AddressesApart`, `PlannedBoots`, `RightWires` | 4-bit addresses, 6 networks, 4 selectors a card | what the host accepts the guest boots with |
| `cs_store` | `ReplacedIsOff`, `RunsTheStore` | 2 texts, 2 scripts, 2 sets of values, 2 ports | a replaced module is off until enabled again; what runs is what is stored |

Runs that refute what a document, a comment or a message says; `PROJECT.json` quotes each line:

| Run | Refutes | In short |
|---|---|---|
| `ga_mitm_restart` | `MitmRestarted` | a second exit within the backoff is announced as "waiting for restart" and never restarted |
| `lc_cancel` | `StoppedIsQuiet` | a late cancelled start marks the next one stopped |
| `lc_exit` | `ExitLeavesNothing` | a start waiting for the lock boots after the quit's clean-up |

One run checks several properties where one instance serves them. What follows was observed while
modelling and has no run of its own.

In the guest agent:

* Activating an upgrade under the label of the active version writes it as `previous` too
  (`main.rs:1065`); the version kept before is forgotten, while `docs/vfkit-gateway.md:122` says
  that an activation keeps the current version as the rollback slot. An upload under the active
  label is renamed over the active slot, while `docs/vfkit-gateway.md:70` speaks of the inactive
  one.
* When a candidate session crashes, the old data plane is restarted, and stopped again unless its
  probes answer at once (`main.rs:1232`); `docs/vfkit-gateway.md:79-80` says it is restored.
* A status request samples the probes of a pending session twice. When a service wavers between
  the two (`flap`), or its readiness file could not be written (`write`), the request that reports
  the pair as ready need not be the one that commits it, and it may still be rolled back:
  `ReadyReplyIsCommitted` and `SyncedIsCommitted` are checked without these two faults.

In the lifecycle:

* After the error of `lc_cancel` a further start is accepted while a sing-box runs; it overwrites
  `child`, and nobody owns the old process (`NoOrphan`, three starters, one stopper,
  `MixedRuntimes`, `prepare`, `Overtaking = TRUE`).
* A failed stop restarts the observers without a lock, also after a second stop has completed:
  a stopped runtime is polled (`StoppedIsNotPolled`, two starters, two stoppers, `reap`,
  `Overtaking = TRUE`).
* A quit that is given up has advanced the metrics generation in each attempt and restarts no
  poller: a running runtime is no longer polled (`RunningIsPolled`, `reap`, `Quits = 1`).
* A second quit of the user while the clean-up runs is taken for the clean-up's own and ends the
  application in the middle of it (`lib.rs:9046`; the comment at 8188 wants it kept alive).

In the Gateway:

* A job of launchd whose process leaves between `running()` and `launchctl kill` keeps its handle,
  and once its label is booted out every further bootout fails (`process_group.rs:596-616`): the
  residue, announced as stoppable again (`lib.rs:6320`), is not. `ResidueStoppable` excepts it.
* A job of launchd survives a crash of the application as a loaded label, and
  `LaunchdJob::submit` refuses every later start.
* Reclaiming orphans returns without having confirmed that they died, and misses the descendants
  of a vfkit whose leader has left; a group that may not be signalled is given up (`EPERM`).
* Inputs outside the sets of `net_plan` that the host accepts and the guest refuses or miswires:
  two equal MAC addresses, the two interface names exchanged, `net.ifnames` in the extra command
  line, a MAC address in capitals. A blank `gateway_cidr` in an edited file passes the settings'
  check and fails the plan's.

In the host's client: an upgrade whose first status is not ready yet is rolled back after one
query; an upgrade to the label already active could be downgraded to the one before it.

In the store:

* Viewing the configuration while a start is under way rewrites sing-box's file with the default
  port: sing-box may then route to 8080 while mitmdump listens on a fallback port
  (`lib.rs:8342`; `docs/ui-architecture.md:37` calls the view read-only). `RunsTheStore` excepts it.
* A crash or an error between the manifest and the preferences leaves a replaced module enabled,
  and importing the same text again does not disable it. `ReplacedIsOff` excepts it.
* Failed imports can leave the text of one with the script of another, and they verify. The same
  text with a new script stays enabled. A torn manifest or list blocks every later import, save
  and start. Rule sets and data files are never checked against their hash
  (`docs/ui-architecture.md:29`).

### Bounds, and why they are enough

* `Configs = {c1, c2}`, `Plans = {p0, pM}`: a candidate and the one before it; a plan with and one
  without mitmdump; a configuration that crashes and one that does not. A third content is only
  ever compared for equality.
* Two versions: active and candidate, and, under a reused label, the same one twice. Two binaries
  tell an overwritten slot from the same slot.
* `Faults`: all together in `ga_faults` and in `lc_workers`; the other runs leave out what their
  properties do not withstand, as stated above and under fairness.
* `Overlap` and `ReuseVersions` are what clients may do. The host client sends neither a second
  session nor an upgrade while one pends, and `Overlap = FALSE` states that; ownership and
  readiness are proved without it (section 5). `ReuseVersions = FALSE` is an assumption on the
  releases, needed for `RollbackSlotUsable` only.
* Three starts and two stops: the second start can meet the late end of the first, the third can
  meet what the second left, and both stops can be under way between them. With two starts and
  two stops and `Overtaking = TRUE`, `NoOrphan` still holds; the third start is needed to break it.
* `Overtaking = FALSE` names an assumption: no command comes between a stop worker's publication
  of the phase and its last writes, and a start is accepted once the workers before it are done.
  The windows are short, the code has nothing that closes them, and `lc_cancel` and the second and
  third observation above show what they let through. `RunningIsOwned` and the liveness properties
  are checked without the assumption.
* `MaxAttempts = 3` is the code's constant. `Quits` bounds a user.
* `MaxStarts = 3`, `MaxCrashes = 2`: a start over the residue of a failed one and over orphans of
  one that was killed, and one killed while it reclaims.
* `MaxBoots = 2`: a late stop request meets the next guest. `MaxBacklog = 2`: a request that was
  given up waits before the one that follows it. One status query waits at a time, and one upgrade
  is made in a run; more of them repeat what the first did.
* `Width = 4`: the prefixes 0, 1 and `Width - 2` of the bounds and two sizes between them. The
  networks chosen contain one another, touch, coincide, and have host bits set.
* One module with one script: modules share nothing but the two lists, which are written whole.
  SongsterX.conf is not edited by hand while a command runs.
* Symmetry: workers of one kind, in the safety runs only.

### Fairness

`GuestAgent`: weak fairness of `Status` (the host polls for as long as it runs, and a handler
terminates because its calls have timeouts) and of the two clocks. Nothing is assumed about
services: they may never answer. The write fault is left out of `ga_live`: while the readiness
file cannot be written, `progress_pending_session` returns before it looks at its deadline.
`GatewayRuntime`: weak fairness of the supervising thread and of each step's; that helpers listen,
exit or answer is not assumed, since every wait of the code has a deadline.
`HostSync`: weak fairness of the start worker, its deadline and the upgrade command. The agent need
not serve: a client that hears nothing ends by its own clock.
`NetworkPlan` and `ConfigStore` state safety only.
`Lifecycle`: weak fairness of each thread's step once it has begun, which is what an operating
system's scheduler gives. Commands, crashes and failures are never forced. A thread waiting for
`gateway_transition` is not promised it while others keep taking it: `std::sync::Mutex` queues
nobody. Starts, stops and quits of an instance are finite in number, but status queries are not,
and a Gateway that has died and cannot be reaped makes every query tear down again under the lock.
With `crash` and `reap` together TLC therefore finds a quit that never gets the lock between two
queries. Real queries are at least 250 ms apart (`App.tsx:1071`), so this is a limit of weak fairness
rather than an error of the code, and `lc_live` leaves `crash` out. `lc_workers` has it.

## 5. What is proved

`GuestAgentProofs` proves for every value of the constants that satisfies `ConstantsAssumption`
(any sets of versions, contents and plans, any `Faults`, `Overlap` and `ReuseVersions` included):

* `TypeCorrect`: `Spec => []TypeOK`
* `NoStrayProcesses`: `Spec => []NoStrayProcess`
* `ReadyServes`: `Spec => []ReadyServesFiles`
* `Soundness`: `Spec => []AgentSound`, from which the three follow.

`AgentSound` says of the one record `agent` that it is a `State`, that every process that runs is
owned and every owned child carries what it was started with (`Owns`: a sing-box that runs has a
configuration), and that readiness implies the files in force (`Serves`). `NoStrayProcess` alone is
not inductive: `start_version` would make a stray of a process that runs without a handle, so the
handles must be tied to the processes. `ReadyServesFiles` alone is not either: it breaks when a
handler rewrites the session files. The fact that carries it is that each handler that writes them
has stopped everything before, or at least removed the readiness file: after `Stop`, whatever its
outcome, the agent is not ready (`Quiet`), and no call between the stop and the end of the rewrite
makes it so.

The proof follows the program. Each call has a lemma that all its outcomes are sound when its
argument is; each handler's lemma cites those of its calls; `Soundness` has one step per action.

`ConfigStoreProofs` proves for all contents, values and ports that satisfy `StoreAssumption`:

* `ReplacedModuleIsOff`: `Spec => []ReplacedIsOff`
* `RuntimeRunsTheStore`: `Spec => []RunsTheStore`
* `StoreSoundness`: `Spec => []StoreSound`, from which both follow.

`StoreSound` adds to the types three facts. `Approved`: the manifest of an enabled module names
the approved text, or the import that has just replaced it still holds the order to switch it off;
`ReplacedIsOff` speaks of a main thread at rest, so it says nothing of the steps of an import.
`Apart`: an import and a start exclude each other, and what a view has rendered is what the store
holds, because the view keeps the main thread. `Started`: what the worker has read and written so
far fits the store; `RunsTheStore` speaks of the phase `Running` only. `InterruptedFiles` is the
lemma on errors and crashes: it bounds what any interrupted write leaves behind.

`ProcessGroupProofs` is about `ManagedChild` alone, for any set of failures (`ChildFaults`):

* `TrackedIsStoppable`: of a tracked child that is not a job already booted out, some outcome of
  the next `stop_group` is success, whatever earlier attempts failed.
* `FinishStopSafe`, `StopGroupSafe`: a stop of a tracked child that reports success leaves no
  process of it, and one that fails leaves a tracked child. `Tracked` says that a process which runs
  can be reached: through the handle, or, when only descendants of vfkit are left, through the group
  id. A helper is alone in its group, which is why giving its group up with the leader is safe.
  `TrackedIsStoppable` needs one more conjunct of `Tracked`: the handle goes only once the leader
  was waited for, since a zombie without a handle would keep its group in existence for ever.

`GatewayRuntimeProofs` uses these for every step that stops something. For all values that
satisfy `GatewayAssumption` and `ChildFaultsAssumption` (any faults and launch modes, any number of
starts and crashes):

* `GatewayTypeCorrect`, `NothingIsLost`, `DirIsLast`, `VfkitIsBehind`, `OneGateway`,
  `ResidueCanBeStopped`: `Spec => []P` for `TypeOK`, `NothingLost`, `DirOutlivesProcesses`,
  `VfkitBehindHelpers`, `NoSecondGateway` and `ResidueStoppable`
* `Invariance`: `Spec => []Inv`, from which the six follow.

`Inv` ties the three places where a child can be (a thread's hand, the runtime, nowhere) to where
the supervisor is: `Working` (a thread runs only until it is joined, and holds its child from the
spawn on), `Registered` (children outside a start or stop belong to the registered runtime, and a
start begins with none, because `Admit` looks at the slot), `Housed`, `Reclaimed` (once orphans
have been looked for, none with a leader is left until the next crash) and `Behind` (sockets and
helpers are there from the gate on, and in a failed start until vfkit was dealt with). None of the
first five is inductive without `Working`, since a child changes hands without a lock between the step
that spawned it and the thread that joins it.

`GuestAgentPromises` builds on `AgentSound`. Besides `ConstantsAssumption` it uses
`AbsenceAssumption`: `None`, which stands for an empty option, is no pair and no session. The
theorems, for every set of versions, contents and plans, with what each assumes of the failures
and of the clients:

| Theorem | Property | Hypotheses |
|---|---|---|
| `StopIsFinal` | `ExplicitStopIsFinal` | none |
| `SessionsAreAtomic` | `SessionAtomic` | `~Overlap` |
| `AgentImplementsSessions` | `Implements`, the refinement of `SessionStore` | `~Overlap` |
| `ActiveVersionRuns` | `RunsActiveVersion` | `~Overlap` |
| `RollbackHasASlot` | `RollbackSlotUsable` | `~ReuseVersions`, no `"write"` fault |
| `ReadyIsCommitted` | `ReadyReplyIsCommitted` | `~Overlap`, neither `"write"` nor `"flap"` |

Each hypothesis is needed: without it TLC finds the property violated on the instances of
section 4 (with `Overlap = TRUE`, with `ReuseVersions = TRUE`, or with the fault added). They are
the hypotheses under which the runs check the same properties.

The operators that start and stop children change nothing but the children (`OnlyRun`). Every
handler, retry, rollback and timer is a `Move` of the session, whatever its calls return: the
session `Stays`, `Begins`, is committed (`Commits`), `Returns` to the pair before it, or is torn
(`Tears`, only where a write fails). The step that makes this classification possible is that a
candidate which got as far as a pending session has no child that failed: a handler that begins a
session never rolls it back in the same request, so no handler is two moves at once. A promise is
then an invariant which each move keeps: `Finished` (after an acknowledged stop there is no data
plane, no session on trial and no network, so no probe succeeds and no readiness file can be
written), `Atomic` (the committed pair is in force or is the way back), `Steady` (what runs is the
active version and a session on trial goes back to it), `Usable` (both pointers name filled slots),
`Certain` (nothing is torn, a session on trial has the files it asked for, what was told is in
force and no session pends). `Usable` speaks of the active slot although the property does not,
because a switch makes it the previous one; `Certain` speaks of the staged digests, because an
activation is judged by them.
The refinement is read off the moves: `Begins` is `SessionStore`'s begin, and so on, and a handler
that changes both the session and what is reported as ready is covered since a report follows a
commit only.

`LifecycleProofs` is about `Lifecycle` for every number of start and stop workers, every set of
runtimes, `Faults`, `MaxAttempts` and `Quits`. `ThreadsAssumption` says of the constants that
`None` is no thread and no process, and that a runtime is a non-empty list of slots without
repetitions, as the three runtimes of the code are. Without further hypotheses:

* `LifecycleTypeCorrect`: `Spec => []TypeOK`
* `OneTransaction`: two threads are never both inside a transaction. It is the meaning of
  `gateway_transition` in the code, and the lock is a variable any action could have ignored; the
  conjunct `Locking` ties the labels to it.
* `RunningCanBeStopped`: `Spec => []RunningIsOwned`
* `BaseHolds`: `Spec => []Base`, types, labels, lists and what a thread holds at which label.

`RunningIsOwned` needs `Ground`: at most one stop is under way for a phase, generations and tickets
are numbered so that one start alone is current (`Numbered`), a start that is no longer current is
outside its transaction before the current one is inside (`Lone`), and the current start's success
is backed by an owner in a slot (`Backed`). The property alone is not inductive, because the phase
becomes `running` in a step that reads no slot.

Under `Undisturbed == Quits = 0 /\ ~Overtaking`, the instance of `lc_workers` for any number of
workers:

* `NoProcessIsLost`, `OneRuntime`, `StoppedMeansStopped`, `StatusIsThePhase`,
  `StoppedEndsThePoller`, `RunningKeepsThePoller`: `Spec => []P` for `NoOrphan`, `SingleRuntime`,
  `StoppedIsQuiet`, `StatusAgrees`, `StoppedIsNotPolled` and `RunningIsPolled`
* `CalmHolds`: `Spec => []Calm`, from which the six follow.

`Calm` adds to `Base`: `Control` (one start and one stop at a time, and what each phase says of
where they and the main thread are), `Owning` (every process that runs is held, those around
belong to one start, the slots a start has yet to fill are free and those it has filled are its
own), `Shown` and `Polling`. The hypotheses are not for convenience: with one quit TLC violates
`NoOrphan`, `SingleRuntime` and `StoppedIsQuiet`, with `Overtaking` `StoppedIsQuiet` and
`StatusAgrees`, and with `Overtaking` and three starts `NoOrphan`. Section 4 describes those runs.

`NetworkPlanProofs` is about `NetworkPlan` for addresses of any width, any networks and any
selectors (`NetworkAssumption`). The provers know nothing of powers of two, so the module states
what the proofs need of `Size` as `SizesAssumption`: sizes are positive, and the smaller of two
divides the larger. It is arithmetic and says nothing of the code; TLC evaluates it for the width
of the run.

* `NoAddressInBoth`: `cidr_overlaps` compares bases only, and that finds every overlap: an address
  of two networks puts the base of the smaller one into the larger (`Nested`, `Share`).
* `AddressesAreApart`: `Spec => []AddressesApart`. The invariant `Checked` carries what each stage
  has found out about the forms to the next one.
* `WiresAreRight`: `Selected => (Spec => []RightWires)`. `Selected`: each card is selected by its
  default name or by an address. Exchanged names are what it excludes, and section 4 describes
  them; equal addresses and other card names only keep the VM from booting.
* `PlannedVmBoots`: `Selected /\ Distinct => (Spec => []PlannedBoots)`. `Distinct`: the two cards
  get different addresses and keep the names the selectors use. The numbers need no hypothesis:
  `Narrow` shows that the prefix 0, which the plan accepts and the agent does not, never passes
  the settings.

`HostSyncProofs` is about `HostSync` for every set of pairs to start with, any release, `Network`,
`MaxBoots` and `MaxBacklog`, and everything that is free in the agent (`HostAssumption` besides the
agent's assumptions; `Overlap` is free too, since here the host decides what overlaps). Of each
theorem, what it assumes of the failures in the guest:

| Theorem | Property | Hypotheses |
|---|---|---|
| `ActivatesIdleAgent` | `ActivatesIdle` | none |
| `OverlappingRunsActive` | `OverlapRunsActive` | none |
| `UpgradeReports` | `UpgradeReportTrue` | none |
| `RollbackUndoesRelease` | `NoSecondDowngrade` | none |
| `SuccessIsCommitted` | `SyncedIsCommitted` | neither `"write"` nor `"flap"` |
| `HostTypeCorrect` | `HostTypeOK` | no `"write"` fault |

With `"flap"` added to `hs_sync` TLC violates `SyncedIsCommitted`, with `"write"` both this and
`HostTypeOK`: a file that was not written whole may be what a status reports, and it is no pair
that was ever sent. With `"flap"` alone `HostTypeOK` holds in TLC's run too.

The properties speak of a client and of the agent; what connects them is the backlog, where a
request waits after its client has gone. The invariants are about what waits there:

* `OneActivation`: while the start worker may still send its activation (`Unsent`), or while the
  one it sent waits, the agent is `Blank`, that is, no session was ever begun in this boot; and at
  most one waits. A request whose client still reads is the one that client waits for (`Awaited`).
* `Sure`: an answer that convinces the start worker, and the success it then reports, find its pair
  committed and no activation left in the backlog or still to come (`Secured`).
* `OneSwitch`: the release is switched to at most once, and the query waits behind the switch, so
  that with its answer the switch is no longer waiting and what it said stays true. A rollback is
  sent, and waits, only while the release is active and no switch waits (`Settled`).
* `HostSound`: types, and `AgentSound` of the agent at every step; `Named`: what the two clients
  were told names whole files.

Each request is handled by one lemma per invariant (`HandledFirst`, `HandledExact`, ...), which
cites what `GuestAgentProofs` and `GuestAgentPromises` prove of that handler; the steps of the
clients change the backlog in two ways only, by a request at the end and by connections that die
(`Hung`).

Two theorems meet here. `SessionsAreAtomic`, `ActiveVersionRuns`, `ReadyIsCommitted` and
`AgentImplementsSessions` assume `~Overlap`, which in `GuestAgent` forbids sessions over sessions
as well as upgrades over sessions. `ActivatesIdleAgent` justifies the first half for the host.
The second half it does not keep, since no lifecycle phase excludes an upgrade;
`OverlappingRunsActive` and `SuccessIsCommitted` state directly what remains true.

Only model-checked: what needs fairness (`PendingResolves`, `StartEnds`, `StopEnds`, `QuitEnds`,
`Ends`, `SyncEnds`). Every other property of a passing run is stated by a theorem above. Liveness
under fairness and ENABLED are outside the prover's reach and stay with TLC. So does induction over
data: what a recursive definition computes for every input cannot be proved with the installed
provers, and a module with a RECURSIVE operator cannot be proved about at all. No module here needs
either yet.

## 6. What is not modelled, and why

* Parsing and rendering of SongsterX.conf and of module files, argument substitution, the
  translation of rules, groups and outbounds: transformations of text and JSON that have no
  reference definition but themselves.
* The samples of the metrics and connections; only who may publish them is modelled.
* The interface's own operation lock and intent: the models let it call anything at any moment.
* The probes of the packet path, which report and decide nothing; output threads; the digest
  checks of the bundle.
* The relays to the Clash API (`connections`, `proxies`, `select_proxy`, `test_proxy_delay`):
  no state of the agent changes.
* The guest network script, the mitmproxy add-on, the build scripts: shell and Python outside the
  two programs; of the first the models use only that `stop-forwarding` removes `network.ready`
  before anything else and that nothing creates it again in that boot.
* The vendored vmnet-helper, bundled modules, assets.
* Dead code in the agent (`activate_config`, `activate_module_plan`, `stop_mitm`), which no request
  reaches.
* Panics and poisoned locks on the host.
