------------------------------ MODULE GuestAgent ------------------------------
(***************************************************************************)
(* The guest agent (src-tauri/guest-agent/main.rs): the process that owns  *)
(* the data plane inside the gateway VM.  It serves one control request at *)
(* a time, so each request handler is one action here; what the operating  *)
(* system may do to a handler in between (a child that dies, a write that  *)
(* fails, a probe that stops answering) is a choice made inside the action.*)
(*                                                                         *)
(* A handler is a chain of fallible calls.  Each call is an operator that  *)
(* maps a state of the agent to the set of its outcomes, and a handler is  *)
(* the union over the outcomes of its calls, in the order of the code.     *)
(***************************************************************************)
CONSTANTS
  Versions,        \* version labels of sing-box, the names of the slots
  Binaries,        \* contents a version slot can hold
  Configs,         \* contents of a sing-box configuration
  Plans,           \* contents of a module plan
  MitmPlans,       \* the plans that need the Module Engine (mitmdump)
  Crashing,        \* configurations that pass `sing-box check` and then make
                   \* the process leave within its startup grace
  BootVersion,     \* the version the guest image ships as active ...
  BootBinary,      \* ... and its content
  None,            \* no value: an absent file, handle or pointer
  Partial,         \* the content of an upload cut short
  Faults,          \* the failures the environment may cause in this instance
  Overlap,         \* may clients change sessions or versions while one pends?
  ReuseVersions    \* may an upgrade reuse the label of a version in use?

FaultKinds == {"exit",   \* a child exits on its own
               "kill",   \* try_wait, kill or wait fails while stopping a child
               "spawn",  \* check, spawn or the startup grace fails
               "wait",   \* try_wait on a running child fails
               "write",  \* a file cannot be written, restored or read back
               "flap",   \* a probe that answered no longer does
               "drop"}   \* an upload is cut short or fails its digest

ASSUME ConstantsAssumption ==
  /\ MitmPlans \subseteq Plans
  /\ Crashing \subseteq Configs
  /\ BootVersion \in Versions
  /\ BootBinary \in Binaries
  /\ None \notin Versions \cup Binaries \cup Configs \cup Plans
  /\ Partial \notin Configs \cup Plans \cup {None}
  /\ Faults \subseteq FaultKinds
  /\ Overlap \in BOOLEAN
  /\ ReuseVersions \in BOOLEAN

VARIABLE agent     \* the agent, its children and its files: one of State

-------------------------------------------------------------------------------
(* The state.                                                              *)

Opt(S) == S \cup {None}

Pair == Opt(Configs) \X Opt(Plans)

\* AgentRuntime: the handles the agent holds, and the processes behind them.
Runtime ==
  [sb      : Opt(Versions),       \* sing_box: the version it was started from
   mitm    : BOOLEAN,             \* mitm
   fault   : BOOLEAN,             \* liveness_fault
   backoff : BOOLEAN,             \* next_mitm_restart lies in the future
   sbUp    : BOOLEAN,             \* the owned sing-box runs
   mitmUp  : BOOLEAN,             \* the owned mitmdump runs
   stray   : BOOLEAN,             \* a process runs that nobody owns
   api     : BOOLEAN,             \* the Clash API, and mitmdump with its CA if
                                  \* the plan needs it, answer
   cfg     : Opt(Configs),        \* what sing-box was started with
   plan    : Opt(Plans),          \* what mitmdump was started with
   ready   : BOOLEAN]             \* the readiness file exists

\* AgentRuntime.pending_session
PendingSession ==
  [cfg : Configs, plan : Plans, prevCfg : Opt(Configs), prevPlan : Opt(Plans),
   version : Versions, late : BOOLEAN]

\* The session files under the state directory.
Files ==
  [cfg       : Opt(Configs),              plan       : Opt(Plans),
   cfgIn     : Opt(Configs \cup {Partial}), planIn   : Opt(Plans \cup {Partial}),
   cfgStaged : Opt(Configs),              planStaged : Opt(Plans)]

\* The version slots and the pointers to them.
Slots == [bin      : [Versions -> Opt(Binaries)],
          staged   : Opt(Versions \X Binaries),
          active   : Opt(Versions),
          previous : Opt(Versions)]

\* History, which no handler reads.
History == [committed : Pair,             \* the last session that became ready
            torn      : BOOLEAN,          \* a restore of the old pair failed
            told      : Opt(Pair),        \* the pair last reported as ready
            stopped   : BOOLEAN]          \* a stop_runtime was answered ok

State == [run     : Runtime,
          pending : Opt(PendingSession),
          files   : Files,
          slots   : Slots,
          network : BOOLEAN,              \* network.ready exists
          log     : History]

\* An absent session is not a session (Option::None).
ASSUME AbsenceAssumption == None \notin Pair /\ None \notin PendingSession

NeedsMitm(p) == p \in MitmPlans           \* module_plan_requires_mitm

Done(s)   == [ok |-> TRUE,  s |-> s]
Failed(s) == [ok |-> FALSE, s |-> s]
May(kind, outcome) == IF kind \in Faults THEN {outcome} ELSE {}

-------------------------------------------------------------------------------
(* Children: refresh, stop and start.                                      *)

\* Mutant: a child that could not be reaped is forgotten.
ReapForgets(owned, up) ==
  {[kept |-> FALSE, up |-> u] : u \in {up, FALSE}}

\* stop_child: the handle is kept exactly when the child could not be reaped.
Reap(owned, up) ==
  {[kept |-> FALSE, up |-> FALSE]}
    \cup IF owned /\ "kill" \in Faults
         THEN {[kept |-> TRUE, up |-> u] : u \in {up, FALSE}} ELSE {}

\* Mutant: a stop that fails leaves the readiness file.
StoppedReady(s, m, b) ==
  [s EXCEPT !.run = [@ EXCEPT !.mitm = m.kept, !.mitmUp = m.up,
                              !.plan = IF m.kept THEN s.run.plan ELSE None,
                              !.sb = IF b.kept THEN s.run.sb ELSE None, !.sbUp = b.up,
                              !.cfg = IF b.kept THEN s.run.cfg ELSE None,
                              !.api = FALSE, !.ready = s.run.ready /\ b.kept]]

\* The agent after stop: m and b say what became of mitmdump and sing-box.
Stopped(s, m, b) ==
  [s EXCEPT !.run = [@ EXCEPT !.mitm = m.kept, !.mitmUp = m.up,
                              !.plan = IF m.kept THEN s.run.plan ELSE None,
                              !.sb = IF b.kept THEN s.run.sb ELSE None, !.sbUp = b.up,
                              !.cfg = IF b.kept THEN s.run.cfg ELSE None,
                              !.api = FALSE, !.ready = FALSE]]

StopOutcome(s, m, b) ==
  IF m.kept \/ b.kept
  THEN Failed([Stopped(s, m, b) EXCEPT !.run.fault = TRUE])
  ELSE Done([Stopped(s, m, b) EXCEPT !.run.fault = FALSE, !.run.backoff = FALSE])

\* AgentRuntime::stop: mitmdump, then sing-box, then the readiness file.
Stop(s) == {StopOutcome(s, m, b) : m \in Reap(s.run.mitm, s.run.mitmUp),
                                   b \in Reap(s.run.sb # None, s.run.sbUp)}

\* What a sample of all the probes finds when none of them wavers.
Answering(s) ==
  /\ s.run.api /\ ~s.run.fault /\ s.run.sb # None /\ s.network
  /\ NeedsMitm(s.files.plan) => s.run.mitm

\* dataplane_probes_ready: the values one sample of all the probes may take.
Probes(s) ==
  IF ~Answering(s) THEN {FALSE} ELSE IF "flap" \in Faults THEN BOOLEAN ELSE {TRUE}

\* write_readiness: it samples the probes again before it creates the file.
Published(s) == [s EXCEPT !.run.ready = TRUE]
WriteReadiness(s) ==
  UNION {IF ~up THEN {Failed(s)}
         ELSE {Done(Published(s))} \cup May("write", Failed(s))
                                   \cup May("write", Failed(Published(s))) :
           up \in Probes(s)}

\* start_mitm: a no-op when the plan does not need it or it is already owned.
MitmStarted(s) ==
  [s EXCEPT !.run = [@ EXCEPT !.mitm = TRUE, !.mitmUp = TRUE, !.plan = s.files.plan,
                              !.api = FALSE, !.stray = s.run.stray \/ s.run.mitmUp]]
StartMitm(s) ==
  IF s.run.fault THEN {Failed(s)}
  ELSE IF s.run.mitm \/ ~NeedsMitm(s.files.plan) THEN {Done(s)}
  ELSE {Done(MitmStarted(s))}
         \cup May("spawn", Failed(s))
         \cup May("wait", Failed([MitmStarted(s) EXCEPT !.run.fault = TRUE]))

\* What start_version refuses to start over.
Owned(s) == s.run.sb # None \/ s.run.mitm \/ s.run.fault

Unpublished(s) == [s EXCEPT !.run.ready = FALSE]

SingBoxStarted(s, v) ==
  [s EXCEPT !.run = [@ EXCEPT !.sb = v, !.sbUp = TRUE, !.cfg = s.files.cfg,
                              !.api = FALSE, !.stray = s.run.stray \/ s.run.sbUp]]

StopAndFail(s) == {Failed(stop.s) : stop \in Stop(s)}

\* The end of start_version: publish readiness if the services answer already,
\* else leave that to a later status request.
Publish(s) ==
  {Done(Unpublished(s))}
    \cup UNION {IF w.ok THEN {w} ELSE StopAndFail(w.s) :
                  w \in WriteReadiness([s EXCEPT !.run.api = TRUE])}

\* start_version: one sing-box, and one mitmdump if the plan needs it.
Start(s, v) ==
  LET clean == Unpublished(s)
      up == SingBoxStarted(clean, v)
  IN IF ~s.network \/ Owned(s) THEN {Failed(s)}
     ELSE IF s.slots.bin[v] = None \/ s.files.cfg \in Crashing \cup {None}
     THEN {Failed(clean)}
     ELSE May("spawn", Failed(clean))
            \cup May("wait", Failed([up EXCEPT !.run.fault = TRUE]))
            \cup UNION {IF m.ok THEN Publish(m.s) ELSE StopAndFail(m.s) :
                          m \in StartMitm(up)}

\* restart_version: nothing to start is not an error.
Restart(s, v) == IF v = None THEN {Done(s)} ELSE Start(s, v)

\* refresh: drop the handle of a sing-box that exited, with the readiness file.
Refresh(s) ==
  IF s.run.sb = None THEN {s}
  ELSE {IF s.run.sbUp THEN s
        ELSE [s EXCEPT !.run = [@ EXCEPT !.sb = None, !.cfg = None, !.ready = FALSE]]}
         \cup May("wait", [s EXCEPT !.run = [@ EXCEPT !.ready = FALSE, !.fault = TRUE]])

\* refresh_mitm: one restart attempt, at the moment an exit is observed.
MitmLost(s) == [s EXCEPT !.run = [@ EXCEPT !.mitm = FALSE, !.plan = None]]
Restartable(s) ==
  /\ NeedsMitm(s.files.plan) /\ s.run.sb # None /\ ~s.run.fault /\ ~s.run.backoff
RefreshMitm(s) ==
  IF ~s.run.mitm THEN {s}
  ELSE May("wait", [s EXCEPT !.run.fault = TRUE])
         \cup IF s.run.mitmUp THEN {s}
              ELSE IF Restartable(s)
              THEN {m.s : m \in StartMitm([MitmLost(s) EXCEPT !.run.backoff = TRUE])}
              ELSE {MitmLost(s)}

-------------------------------------------------------------------------------
(* Sessions: the pair of configuration and module plan.                    *)

\* write_atomic_bytes: all or nothing.
Store(s, stored) == {Done(stored)} \cup May("write", Failed(s))

\* Mutant: the way back forgets the module plan.
PutBackConfig(s, c, p) == [s EXCEPT !.files.cfg = c]

\* restore_config, restore_file and verify_restored_file: both files are tried,
\* and both must be put back and read back.
PutBack(s, c, p) ==
  [s EXCEPT !.files = [@ EXCEPT !.cfg = c, !.plan = p]]
Torn(s, c, p) ==
  [PutBack(s, c, p) EXCEPT !.log.torn = TRUE]
Restore(s, c, p) ==
  {Done(PutBack(s, c, p))}
    \cup May("write", Failed(PutBack(s, c, p)))
    \cup May("write", Failed(Torn(s, c, s.files.plan)))
    \cup May("write", Failed(Torn(s, s.files.cfg, p)))
    \cup May("write", Failed(Torn(s, s.files.cfg, s.files.plan)))

\* Every way back from a candidate: stop it, whatever comes of that put the old
\* pair back; ok when both succeeded.
StopAndRestore(s, c, p) ==
  UNION {{IF stop.ok THEN r ELSE Failed(r.s) : r \in Restore(stop.s, c, p)} :
           stop \in Stop(s)}

\* remove_session_artifacts
Discard(s) == [s EXCEPT !.files = [@ EXCEPT !.cfgIn = None, !.cfgStaged = None,
                                            !.planIn = None, !.planStaged = None]]

NotPending(s) == [s EXCEPT !.pending = None]

\* The states after a stop whose outcome the caller does not look at.
After(outcomes) == {o.s : o \in outcomes}

\* rollback_pending_session: stop, put the old pair back, restart it.
RollbackPending(s, old) ==
  UNION {IF ~back.ok THEN After(Stop(Discard(back.s)))
         ELSE IF old.prevCfg = None THEN {Discard(back.s)}
         ELSE UNION {IF re.ok THEN {re.s} ELSE After(Stop(re.s)) :
                       re \in Restart(Discard(back.s), old.version)} :
           back \in StopAndRestore(NotPending(s), old.prevCfg, old.prevPlan)}

\* Mutant: a session that became ready stays pending.
CommitPending(s) ==
  [Discard(s) EXCEPT
     !.log = [@ EXCEPT !.torn = FALSE,
                       !.committed = <<s.files.cfg, s.files.plan>>]]

\* The pending session becomes the committed one.
Commit(s) ==
  [Discard(NotPending(s)) EXCEPT
     !.log = [@ EXCEPT !.torn = FALSE,
                       !.committed = <<s.files.cfg, s.files.plan>>]]

\* The files in force are the ones the pending session asked for.
FilesMatch(s) == s.files.cfg = s.pending.cfg /\ s.files.plan = s.pending.plan

\* Ownership alone decides here whether a child of the candidate failed.
ChildFailed(s) ==
  s.run.fault \/ s.run.sb = None \/ (NeedsMitm(s.files.plan) /\ ~s.run.mitm)

\* Mutant: only the exit of a child ends a pending session, not its deadline.
GivenUpOnExit(s) == ChildFailed(s)

\* A session that is not ready by now is rolled back.
GivenUp(s) == ChildFailed(s) \/ s.pending.late

\* progress_pending_session
Progress(s) ==
  IF s.pending = None THEN {s}
  ELSE UNION {IF up /\ FilesMatch(s)
              THEN {IF w.ok THEN Commit(w.s) ELSE w.s : w \in WriteReadiness(s)}
              ELSE IF GivenUp(s)
              THEN RollbackPending(s, s.pending)
              ELSE {s} : up \in Probes(s)}

-------------------------------------------------------------------------------
(* The request handlers: the states each may leave behind.                 *)

\* The last answer reported the pair as ready, or did not.
Tell(s, pair) == [s EXCEPT !.log.told = pair]
Refused(s) == Tell(s, None)

\* status: refresh the children, move a pending session on, report.
Report(s) ==
  UNION {IF up /\ s.slots.active # None /\ s.run.sb = s.slots.active
         THEN {IF w.s.run.ready THEN Tell(w.s, <<s.files.cfg, s.files.plan>>)
               ELSE Refused(w.s) :
                 w \in IF s.run.ready THEN {Done(s)} ELSE WriteReadiness(s)}
         ELSE {Refused(s)} : up \in Probes(s)}

StatusResponse(s) ==
  UNION {UNION {UNION {UNION {Report(z) : z \in Refresh(y)} :
                         y \in Progress(x)} : x \in RefreshMitm(w)} :
           w \in Refresh(s)}

\* stage_config and stage_module_plan: the digest is recorded last.
StageConfig(s, c) ==
  {[s EXCEPT !.files = [@ EXCEPT !.cfgIn = c, !.cfgStaged = c]]}
    \cup May("write", [s EXCEPT !.files.cfgIn = c])
    \cup May("drop", [s EXCEPT !.files.cfgIn = Partial])
    \cup May("drop", [s EXCEPT !.files.cfgIn = None])

StageModulePlan(s, p) ==
  {[s EXCEPT !.files = [@ EXCEPT !.planIn = p, !.planStaged = p]]}
    \cup May("write", [s EXCEPT !.files.planIn = p])
    \cup May("drop", [s EXCEPT !.files.planIn = Partial])
    \cup May("drop", [s EXCEPT !.files.planIn = None])

\* Mutant: the digest on record is trusted, whatever the upload left behind.
ActivatableUnread(s, c, p) ==
  /\ s.files.cfgStaged = c /\ s.files.planStaged = p
  /\ s.files.cfgIn # None /\ s.files.planIn # None
  /\ s.slots.active # None
  /\ s.slots.bin[s.slots.active] # None

\* activate_session, its checks before anything is stopped.
Activatable(s, c, p) ==
  /\ s.files.cfgStaged = c /\ s.files.planStaged = p
  /\ s.files.cfgIn \in Configs /\ s.files.planIn \in Plans
  /\ s.slots.active # None
  /\ s.slots.bin[s.slots.active] # None

\* ... the candidate: both files, then the data plane.
StartCandidate(s) ==
  UNION {IF ~w.ok THEN {w}
         ELSE UNION {IF ~x.ok THEN {x} ELSE Start(x.s, s.slots.active) :
                       x \in Store(w.s, [w.s EXCEPT !.files.plan = s.files.planIn])} :
           w \in Store(s, [s EXCEPT !.files.cfg = s.files.cfgIn])}

\* ... the way back when the candidate did not start: the old pair is restarted
\* and must answer at once, or it is stopped as well.
Undo(t, old) ==
  UNION {IF ~back.ok THEN {back.s}
         ELSE UNION {UNION {IF re.ok /\ up /\ re.s.run.ready THEN {re.s}
                            ELSE After(Stop(re.s)) : up \in Probes(re.s)} :
                       re \in Restart(back.s, old.slots.active)} :
           back \in StopAndRestore(t, old.files.cfg, old.files.plan)}

\* ... a candidate that started becomes the pending session.
Begin(t, old, c, p) ==
  [t EXCEPT !.pending =
     [cfg |-> c, plan |-> p, prevCfg |-> old.files.cfg, prevPlan |-> old.files.plan,
      version |-> old.slots.active, late |-> FALSE]]

Answer(s, c, p) ==
  {IF up /\ s.run.ready /\ s.pending = None THEN Tell(s, <<c, p>>) ELSE Refused(s) :
     up \in Probes(s)}

SwitchSession(s, c, p) ==
  UNION {IF ~stop.ok THEN {Refused(stop.s)}
         ELSE UNION {IF t.ok
                     THEN UNION {Answer(z, c, p) : z \in Progress(Begin(t.s, s, c, p))}
                     ELSE {Refused(z) : z \in Undo(t.s, s)} :
                       t \in StartCandidate(stop.s)} : stop \in Stop(s)}

ActivateSession(s, c, p) ==
  UNION {IF up /\ s.run.ready /\ s.files.cfg = c /\ s.files.plan = p
         THEN {Tell(s, <<c, p>>)}
         ELSE IF ~Activatable(s, c, p) THEN {Refused(s)}
         ELSE SwitchSession(s, c, p) \cup May("spawn", Refused(s))
                                     \cup May("write", Refused(s)) :
           up \in Probes(s)}

\* stop_runtime: abort a pending session without a restart, then close the
\* forwarding path.
AbortForStop(s) ==
  IF s.pending = None THEN Stop(s)
  ELSE UNION {IF back.ok THEN {Done(Discard(back.s))} ELSE StopAndFail(Discard(back.s)) :
                back \in StopAndRestore(NotPending(s), s.pending.prevCfg,
                                        s.pending.prevPlan)}

\* Mutant: the forwarding path is closed, but the network stays ready.
StillConnected(s) == s

\* The network controller removes network.ready before anything else.
Disconnected(s) == [s EXCEPT !.network = FALSE]
StopNetworkForwarding(s) ==
  {Done(Disconnected(s))} \cup May("spawn", Failed(Disconnected(s)))
                          \cup May("spawn", Failed(s))

StopGuestRuntime(s) ==
  UNION {{IF a.ok /\ n.ok THEN [Refused(n.s) EXCEPT !.log.stopped = TRUE]
          ELSE Refused(n.s) : n \in StopNetworkForwarding(a.s)} :
            a \in AbortForStop(s)}

\* stage_upgrade: the rename into the slot comes before the staged record.
StageUpgrade(s, v, b) ==
  {[s EXCEPT !.slots = [@ EXCEPT !.bin[v] = b, !.staged = <<v, b>>]]}
    \cup May("write", [s EXCEPT !.slots.bin[v] = b])

\* Mutant: the previous pointer is taken from the version just activated.
WritePointersLate(s, current, v) ==
  {Done([s EXCEPT !.slots = [@ EXCEPT !.previous = v, !.active = v]])}

\* The two pointers, previous first.
WritePointers(s, current, v) ==
  {Done([s EXCEPT !.slots = [@ EXCEPT !.previous = current, !.active = v]])}
    \cup May("write", Failed(s))
    \cup May("write", Failed([s EXCEPT !.slots.previous = current]))

\* Mutant: the current version is restarted over what is left of the candidate.
RecoverAtOnce(s) == After(Restart(s, s.slots.active))

\* activate_upgrade and rollback when v did not start or was not recorded: stop
\* what is left and restart the current version.
Recover(s) ==
  UNION {IF stop.ok THEN After(Restart(stop.s, s.slots.active)) ELSE {stop.s} :
           stop \in Stop(s)}

\* activate_upgrade and rollback: stop, start v, commit the pointers.
SwitchVersion(s, v) ==
  UNION {IF ~stop.ok THEN {stop.s}
         ELSE UNION {IF ~t.ok THEN Recover(t.s)
                     ELSE UNION {IF w.ok THEN {w.s} ELSE Recover(w.s) :
                                   w \in WritePointers(t.s, s.slots.active, v)} :
                       t \in Start(stop.s, v)} : stop \in Stop(s)}

ActivateUpgrade(s, v, b) ==
  IF s.slots.staged # <<v, b>> \/ s.slots.bin[v] = None THEN {Refused(s)}
  ELSE {Refused(z) : z \in SwitchVersion(s, v)}

Rollback(s) ==
  IF s.slots.previous = None THEN {Refused(s)}
  ELSE IF s.slots.bin[s.slots.previous] = None THEN {Refused(s)}
  ELSE {Refused(z) : z \in SwitchVersion(s, s.slots.previous)}

-------------------------------------------------------------------------------
(* The system: requests of the host, and what happens to the children.     *)

Idle == Overlap \/ agent.pending = None

Status == agent' \in StatusResponse(agent)
SendConfig == \E c \in Configs : agent' \in StageConfig(agent, c)
SendPlan == \E p \in Plans : agent' \in StageModulePlan(agent, p)
Activate ==
  /\ Idle
  /\ \E c \in Configs, p \in Plans : agent' \in ActivateSession(agent, c, p)
StopRuntime == agent' \in StopGuestRuntime(agent)
SendBinary ==
  \E v \in Versions, b \in Binaries :
    /\ ReuseVersions \/ v \notin {agent.slots.active, agent.slots.previous}
    /\ agent' \in StageUpgrade(agent, v, b)
Upgrade ==
  /\ Idle
  /\ \E v \in Versions, b \in Binaries :
       /\ ReuseVersions \/ v # agent.slots.active
       /\ agent' \in ActivateUpgrade(agent, v, b)
RollbackVersion ==
  /\ Idle
  /\ agent' \in Rollback(agent)

\* The services the plan needs start to answer; a probe stops answering.
ServicesAnswer ==
  /\ agent.run.sb # None /\ agent.run.sbUp /\ ~agent.run.api
  /\ NeedsMitm(agent.files.plan) => agent.run.mitm /\ agent.run.mitmUp
  /\ agent' = [agent EXCEPT !.run.api = TRUE]
ProbeFlaps ==
  /\ "flap" \in Faults /\ agent.run.api
  /\ agent' = [agent EXCEPT !.run.api = FALSE]

\* A child exits; nobody is told until the next refresh.
SingBoxExits ==
  /\ "exit" \in Faults /\ agent.run.sbUp
  /\ agent' = [agent EXCEPT !.run = [@ EXCEPT !.sbUp = FALSE, !.api = FALSE]]
MitmExits ==
  /\ "exit" \in Faults /\ agent.run.mitmUp
  /\ agent' = [agent EXCEPT !.run = [@ EXCEPT !.mitmUp = FALSE, !.api = FALSE]]

\* SESSION_READY_TIMEOUT and MITM_RESTART_BACKOFF run out.
DeadlinePasses ==
  /\ agent.pending # None
  /\ ~agent.pending.late
  /\ agent' = [agent EXCEPT !.pending.late = TRUE]
BackoffElapses ==
  /\ agent.run.backoff
  /\ agent' = [agent EXCEPT !.run.backoff = FALSE]

\* run: the guest boots with the shipped version active and no configuration,
\* so start_active fails and only the control channel is up.
Booted ==
  [run     |-> [sb |-> None, mitm |-> FALSE, fault |-> FALSE, backoff |-> FALSE,
                sbUp |-> FALSE, mitmUp |-> FALSE, stray |-> FALSE, api |-> FALSE,
                cfg |-> None, plan |-> None, ready |-> FALSE],
   pending |-> None,
   files   |-> [cfg |-> None, plan |-> None, cfgIn |-> None, planIn |-> None,
                cfgStaged |-> None, planStaged |-> None],
   slots   |-> [bin |-> [v \in Versions |-> IF v = BootVersion THEN BootBinary ELSE None],
                staged |-> None, active |-> BootVersion, previous |-> None],
   network |-> TRUE,
   log     |-> [committed |-> <<None, None>>, torn |-> FALSE, told |-> None,
                stopped |-> FALSE]]

Init == agent = Booted

Requests == \/ Status \/ SendConfig \/ SendPlan \/ Activate \/ StopRuntime
            \/ SendBinary \/ Upgrade \/ RollbackVersion
Environment == \/ ServicesAnswer \/ ProbeFlaps \/ SingBoxExits \/ MitmExits
               \/ DeadlinePasses \/ BackoffElapses

Next == Requests \/ Environment

Spec == Init /\ [][Next]_agent

\* The host polls status for as long as it runs, and time passes; that the
\* services ever answer is not assumed.
FairSpec == /\ Spec
            /\ WF_agent(Status)
            /\ WF_agent(DeadlinePasses) /\ WF_agent(BackoffElapses)
-------------------------------------------------------------------------------
(* What the agent promises.                                                *)

\* Every field has its type.
TypeOK == agent \in State

\* Whatever fails, and in whatever order the requests come, no data-plane process
\* runs without the agent owning it: start_version never starts over a child that
\* could not be reaped.
NoStrayProcess ==
  /\ ~agent.run.stray
  /\ agent.run.sb = None => ~agent.run.sbUp
  /\ ~agent.run.mitm => ~agent.run.mitmUp

\* The readiness file exists only while the agent owns a sing-box that was started
\* from the configuration now in force, and a mitmdump it owns next to it was
\* started from the plan in force: no handler rewrites the pair under a data plane
\* that is published as ready.
ReadyServesFiles ==
  agent.run.ready =>
    /\ agent.run.sb # None
    /\ agent.run.cfg = agent.files.cfg
    /\ agent.run.mitm => agent.run.plan = agent.files.plan

\* A session changes both files or neither.  With no session pending the files are
\* the last session that became ready; with one pending, they can be put back.
\* Only a restore that itself failed breaks this (torn), until the next commit.
SessionAtomic ==
  ~agent.log.torn =>
    IF agent.pending = None
    THEN <<agent.files.cfg, agent.files.plan>> = agent.log.committed
    ELSE <<agent.pending.prevCfg, agent.pending.prevPlan>> = agent.log.committed

\* A pair the agent reported as ready is committed: no rollback of it is pending.
\* The host ends its own activation on that report (wait_for_session_ready).
ReadyReplyIsCommitted ==
  agent.log.told # None => /\ agent.pending = None
                           /\ agent.log.told = agent.log.committed

\* After a stop_runtime that was answered ok nothing brings a data plane back in
\* this boot: no later request, retry or rollback.
ExplicitStopIsFinal ==
  agent.log.stopped => /\ agent.run.sb = None /\ ~agent.run.mitm
                       /\ ~agent.run.ready /\ agent.pending = None

\* The version that runs is the version the active pointer names, also after a
\* failed upgrade, a rollback of a version and a rollback of a session: only a
\* candidate that could not be stopped stays behind, and with it the fault.
RunsActiveVersion ==
  agent.run.sb # None /\ ~agent.run.fault => agent.run.sb = agent.slots.active

\* The rollback slot holds a version other than the active one, with its binary.
RollbackSlotUsable ==
  agent.slots.previous # None => /\ agent.slots.previous # agent.slots.active
                                 /\ agent.slots.bin[agent.slots.previous] # None

\* A pending session is always resolved, into a commit or a rollback.
PendingResolves == agent.pending # None ~> agent.pending = None

\* What a session is to the host, without the processes, the staged files and the
\* versions: the agent implements SessionStore, the pending session being the pair
\* on trial.  No handler, retry or fault leaves half a session in force, drops the
\* way back early, or reports a pair that is no longer in force.
Sessions == INSTANCE SessionStore WITH
  Pairs <- Pair, NoPair <- None,
  force <- <<agent.files.cfg, agent.files.plan>>,
  back <- IF agent.pending = None THEN None
          ELSE <<agent.pending.prevCfg, agent.pending.prevPlan>>,
  torn <- agent.log.torn,
  told <- agent.log.told
Implements == Sessions!Spec

-------------------------------------------------------------------------------
(* What documentation and messages say, and the code does not do.          *)

\* main.rs:198 reports "waiting for automatic restart" for a mitmdump that exited
\* and that the plan still needs.
MitmWanted == /\ agent.run.sb # None /\ agent.run.sbUp /\ ~agent.run.fault
              /\ NeedsMitm(agent.files.plan) /\ ~agent.run.mitm
MitmRestarted == MitmWanted ~> ~MitmWanted
===============================================================================
