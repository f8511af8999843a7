------------------------------- MODULE HostSync -------------------------------
(***************************************************************************)
(* The host's client of the guest agent (src-tauri/src/guest_agent.rs)     *)
(* against the agent itself.  Three callers use it at once: the start      *)
(* worker, which sends one session and waits until it serves               *)
(* (sync_session_with_cancellation); the command that upgrades sing-box    *)
(* (upgrade_sing_box), which no lifecycle phase excludes; and the detached *)
(* thread that asks a guest about to be killed to stop                     *)
(* (stop_guest_runtime).                                                   *)
(*                                                                         *)
(* Every request has a connection of its own.  The agent accepts them in   *)
(* the order they were made and serves one at a time; a client that gives  *)
(* up leaves its request in the backlog, where the agent still serves it.  *)
(*                                                                         *)
(* The module extends the agent's: agent, its handlers and its Environment *)
(* are the ones of GuestAgent; a name that both need has Host or Sync in   *)
(* front of it here.                                                       *)
(***************************************************************************)
EXTENDS GuestAgent, Naturals, Sequences

CONSTANTS
  StartPairs,      \* the pairs the host starts a gateway with
  Release,         \* the version and the content an upgrade installs
  Network,         \* may connections break?
  MaxBoots,        \* bound: boots of the guest
  MaxBacklog       \* bound: connections the agent has not served

ASSUME HostAssumption ==
  /\ StartPairs \subseteq Configs \X Plans /\ StartPairs # {}
  /\ Release \in Versions \X Binaries
  /\ Release[1] # BootVersion
  /\ Network \in BOOLEAN
  /\ MaxBoots \in Nat \ {0} /\ MaxBacklog \in Nat

VARIABLES          \* besides agent, the guest agent
  sync,            \* the start worker
  upgrade,         \* the upgrade command
  thread,          \* a stop_guest_runtime thread has not connected yet
  backlog,         \* the connections the agent has not served, oldest first
  boots            \* how often the guest has booted

hostVars == <<agent, sync, upgrade, thread, backlog, boots>>

-------------------------------------------------------------------------------
(* The state.                                                              *)

\* A client is where the request it makes or has made is; then at its outcome.
SyncOps       == {"config", "plan", "activate", "ready", "resolve"}
SyncPlaces    == SyncOps \cup {"idle", "synced", "failed"}
UpgradeOps    == {"stage", "switch", "query", "rollback"}
UpgradePlaces == UpgradeOps \cup {"idle", "upgraded", "kept", "failed"}

\* An answer: how the request fared, and what a status reports: the pair that
\* serves, the active version, and whether lastError names a session.  "accepted"
\* is an activation that was begun, "active" one that serves.
Answers ==
  [says : {"ok", "accepted", "active", "error"}, pair : Opt(Configs \X Plans),
   active : Opt(Versions), blamed : BOOLEAN]

Plain(says) == [says |-> says, pair |-> None, active |-> None, blamed |-> FALSE]

Client(places) ==
  [at : places, asked : BOOLEAN, reply : Opt(Answers),
   boot : Nat]                      \* history: the boot that answered it last

\* A connection: the request, and whether its client still reads the answer.
Connection == [op : SyncOps \cup UpgradeOps \cup {"stop", "status"}, live : BOOLEAN]

Fresh == [at |-> "idle", asked |-> FALSE, reply |-> None, boot |-> 0]

HostInit ==
  /\ agent = Booted
  /\ sync = [client |-> Fresh, target |-> CHOOSE s \in StartPairs : TRUE, late |-> FALSE,
             cancelled |-> FALSE]
  /\ upgrade = Fresh
  /\ thread = FALSE /\ backlog = <<>> /\ boots = 1

-------------------------------------------------------------------------------
(* The agent's side: it serves the oldest connection.                      *)

\* Mutant: a status names the pair in the files, also when it does not serve.
ReportsUnready(s) == {[says |-> "ok", pair |-> <<s.files.cfg, s.files.plan>>,
                       active |-> s.slots.active, blamed |-> b] : b \in BOOLEAN}

\* What a status says of agent state s.  lastError is a text many handlers
\* overwrite, so whether it names a session is left open.
Reports(s) == {[says |-> "ok", pair |-> s.log.told, active |-> s.slots.active,
                blamed |-> b] : b \in BOOLEAN}

\* A staging request is answered "staged" when its record was written.
Staging(staged, states) ==
  {<<s, Plain("ok")>> : s \in staged}
    \cup IF Faults \cap {"write", "drop"} = {} THEN {}
         ELSE {<<s, Plain("error")>> : s \in states}

\* activate_session answers that the pair serves, that it was begun, or an error;
\* a session that is neither pending nor ready was refused, was taken back, or has
\* stopped answering the probes since it was committed.
Activating(c, p) ==
  UNION {IF s.log.told # None THEN {<<s, Plain("active")>>}
         ELSE IF s.pending # None THEN {<<s, Plain("accepted")>>}
         ELSE {<<s, Plain("accepted")>>, <<s, Plain("error")>>} :
           s \in ActivateSession(agent, c, p)}

\* activate_upgrade answers "active" once the pointers are written; an answer that
\* is not ready yet counts as an error with the host.
Switching(v, b) ==
  UNION {IF s.slots.active = v
         THEN {<<s, Plain(IF up /\ s.run.ready THEN "active" ELSE "error")>> :
                 up \in Probes(s)}
         ELSE {<<s, Plain("error")>>} : s \in ActivateUpgrade(agent, v, b)}

Outcomes(op) ==
  LET c == sync.target[1]
      p == sync.target[2]
      v == Release[1]
      b == Release[2]
  IN CASE op = "config" ->
            LET after == StageConfig(agent, c)
            IN Staging({s \in after : s.files.cfgIn = c /\ s.files.cfgStaged = c}, after)
       [] op = "plan" ->
            LET after == StageModulePlan(agent, p)
            IN Staging({s \in after : s.files.planIn = p /\ s.files.planStaged = p}, after)
       [] op = "stage" ->
            LET after == StageUpgrade(agent, v, b)
            IN Staging({s \in after : s.slots.staged = Release}, after)
       [] op = "activate" -> Activating(c, p)
       [] op = "switch"   -> Switching(v, b)
       [] op = "rollback" -> {<<s, Plain("ok")>> : s \in Rollback(agent)}
       [] op = "stop"     -> {<<s, Plain("ok")>> : s \in StopGuestRuntime(agent)}
       [] OTHER ->
            UNION {{<<s, r>> : r \in Reports(s)} : s \in StatusResponse(agent)}

\* The answer goes to the client that asked, if it still reads this connection.
Answered(client, ops, conn, reply) ==
  IF conn.live /\ conn.op \in ops THEN [client EXCEPT !.reply = reply, !.boot = boots]
  ELSE client

Serve ==
  /\ backlog # <<>>
  /\ \E o \in Outcomes(Head(backlog).op) :
       /\ agent' = o[1]
       /\ sync' = [sync EXCEPT !.client = Answered(@, SyncOps, Head(backlog), o[2])]
       /\ upgrade' = Answered(upgrade, UpgradeOps, Head(backlog), o[2])
  /\ backlog' = Tail(backlog)
  /\ UNCHANGED <<thread, boots>>

\* What happens to the children of the agent, and the passing of its time.
GuestRuns ==
  /\ Environment
  /\ UNCHANGED <<sync, upgrade, thread, backlog, boots>>

-------------------------------------------------------------------------------
(* Making requests.                                                        *)

\* request and request_cancellable: one connection, one line.
Asks(client) ==
  /\ ~client.asked
  /\ Len(backlog) < MaxBacklog
  /\ backlog' = Append(backlog, [op |-> client.at, live |-> TRUE])

\* The client closes its connection: what it has asked stays in the backlog.
Hangs(ops) ==
  backlog' = [i \in DOMAIN backlog |->
                [backlog[i] EXCEPT !.live = @ /\ backlog[i].op \notin ops]]

Goes(client, place) == [client EXCEPT !.at = place, !.asked = FALSE, !.reply = None]

-------------------------------------------------------------------------------
(* sync_session_with_cancellation.                                         *)

Syncing == sync.client.at \in SyncOps

SyncTo(place) == sync' = [sync EXCEPT !.client = Goes(@, place)]
SyncOnly      == UNCHANGED <<agent, upgrade, thread, boots>>

\* The supervisor calls it once the agent is ready for the bootstrap.
BeginSync ==
  /\ sync.client.at = "idle" /\ agent.network
  /\ \E t \in StartPairs :
       sync' = [client |-> [Fresh EXCEPT !.at = "config"], target |-> t, late |-> FALSE,
                cancelled |-> FALSE]
  /\ UNCHANGED backlog /\ SyncOnly

SyncAsks ==
  /\ Syncing /\ ~sync.late /\ ~sync.cancelled
  /\ Asks(sync.client)
  /\ sync' = [sync EXCEPT !.client.asked = TRUE]
  /\ SyncOnly

\* Does the status say that the target serves; that it was given up?
Serving(r) == r.pair = sync.target
Blamed(r)  == r.pair # sync.target /\ r.blamed

\* Mutant: an activation that was begun is taken for one that serves.
AfterAnswerHasty(at, r) ==
  CASE at = "config"   -> IF r.says = "ok" THEN "plan" ELSE "failed"
    [] at = "plan"     -> IF r.says = "ok" THEN "activate" ELSE "failed"
    [] at = "activate" -> IF r.says = "error" THEN "failed" ELSE "synced"
    [] OTHER -> IF Serving(r) THEN "synced" ELSE IF Blamed(r) THEN "failed" ELSE at

\* Where the answer r leads: the uploads, the one activation, then status after
\* status until the pair serves (wait_for_session_ready and
\* resolve_session_activation_failure).
AfterAnswer(at, r) ==
  CASE at = "config"   -> IF r.says = "ok" THEN "plan" ELSE "failed"
    [] at = "plan"     -> IF r.says = "ok" THEN "activate" ELSE "failed"
    [] at = "activate" -> CASE r.says = "active"   -> "synced"
                            [] r.says = "accepted" -> "ready"
                            [] OTHER          -> "failed"
    [] OTHER -> IF Serving(r) THEN "synced" ELSE IF Blamed(r) THEN "failed" ELSE at

SyncHears ==
  /\ Syncing /\ sync.client.reply # None
  /\ SyncTo(AfterAnswer(sync.client.at, sync.client.reply))
  /\ UNCHANGED backlog /\ SyncOnly

\* Mutant: an activation whose answer is lost is sent again.
AfterLossResent(at) == IF at \in {"activate", "resolve"} THEN at ELSE "failed"

\* No answer came, for a reason other than time: an upload and a status are given
\* up, an activation is never sent again but looked into.
AfterLoss(at) == IF at \in {"activate", "resolve"} THEN "resolve" ELSE "failed"

\* The activation is resolved under a deadline of its own, unless cancelled.
SyncLoses ==
  LET next == AfterLoss(sync.client.at)
  IN sync' = [sync EXCEPT !.client = Goes(@, IF sync.cancelled THEN "failed" ELSE next),
                          !.late = @ /\ next = sync.client.at]

SyncBreaks ==
  /\ Network /\ Syncing /\ sync.client.asked
  /\ SyncLoses
  /\ Hangs(SyncOps) /\ SyncOnly

\* connect_timeout fails: only a resolution tries again.
SyncUnconnected ==
  /\ Network /\ Syncing /\ ~sync.client.asked /\ ~sync.cancelled
  /\ sync.client.at # "resolve"
  /\ SyncTo("failed")
  /\ UNCHANGED backlog /\ SyncOnly

\* A status request of wait_for_session_ready is read for one slice only.
SliceEnds ==
  /\ sync.client.at = "ready" /\ sync.client.asked
  /\ SyncTo("ready")
  /\ Hangs(SyncOps) /\ SyncOnly

\* GATEWAY_CONFIG_SYNC_TIMEOUT, and the two seconds of a resolution.
SyncDeadlinePasses ==
  /\ Syncing /\ ~sync.late
  /\ sync' = [sync EXCEPT !.late = TRUE]
  /\ UNCHANGED backlog /\ SyncOnly

\* Mutant: the deadline is looked at only between two requests.
SyncLateBetween ==
  /\ Syncing /\ sync.late /\ ~sync.client.asked
  /\ SyncTo("failed")
  /\ Hangs(SyncOps) /\ SyncOnly

\* A deadline that passed ends whatever is asked, except that an activation under
\* way is looked into.
SyncLate ==
  /\ Syncing /\ sync.late
  /\ IF sync.client.at = "activate" /\ sync.client.asked THEN SyncLoses ELSE SyncTo("failed")
  /\ Hangs(SyncOps) /\ SyncOnly

\* The user stops the start, on the main thread too; the reading of an activation
\* and of a resolution is interrupted, that of an upload or a status is not.
Cancel ==
  /\ Syncing /\ ~sync.cancelled /\ upgrade.at \notin UpgradeOps
  /\ sync' = [sync EXCEPT !.cancelled = TRUE]
  /\ UNCHANGED backlog /\ SyncOnly

SyncCancelled ==
  /\ Syncing /\ sync.cancelled
  /\ sync.client.asked => sync.client.at \in {"activate", "resolve"}
  /\ SyncTo("failed")
  /\ Hangs(SyncOps) /\ SyncOnly

SyncStep == SyncAsks \/ SyncHears \/ SliceEnds \/ SyncLate \/ SyncCancelled

-------------------------------------------------------------------------------
(* upgrade_sing_box, at any time, and the end of a guest.                  *)

UpgradeOnly == UNCHANGED <<agent, sync, thread, boots>>

BeginUpgrade ==
  /\ upgrade.at = "idle"
  /\ upgrade' = Goes(upgrade, "stage")
  /\ UNCHANGED backlog /\ UpgradeOnly

UpgradeAsks ==
  /\ upgrade.at \in UpgradeOps
  /\ Asks(upgrade)
  /\ upgrade' = [upgrade EXCEPT !.asked = TRUE]
  /\ UpgradeOnly

\* Where the answer r leads.  An activation that did not end active and ready is
\* looked into, and undone only when the version is active and not ready.
UpgradeAfter(at, r) ==
  CASE at = "stage"  -> IF r.says = "ok" THEN "switch" ELSE "failed"
    [] at = "switch" -> IF r.says = "active" THEN "upgraded" ELSE "query"
    [] at = "query"  -> IF r.active # Release[1] THEN "kept"
                        ELSE IF r.pair # None THEN "upgraded" ELSE "rollback"
    [] OTHER -> "failed"

UpgradeHears ==
  /\ upgrade.at \in UpgradeOps /\ upgrade.reply # None
  /\ upgrade' = Goes(upgrade, UpgradeAfter(upgrade.at, upgrade.reply))
  /\ UNCHANGED backlog /\ UpgradeOnly

\* Mutant: without an answer the version is undone unseen.
UpgradeLossUndone(at, asked) ==
  IF at = "switch" /\ asked THEN "query" ELSE IF at = "query" THEN "rollback" ELSE "failed"

\* Mutant: an activation without an answer is taken for one that failed.
UpgradeLossKept(at, asked) == IF at = "switch" THEN "kept" ELSE "failed"

\* No answer: only an activation that was sent is looked into.
UpgradeLoss(at, asked) == IF at = "switch" /\ asked THEN "query" ELSE "failed"

\* Each request has its own timeout, and its connection may break.
UpgradeUnanswered ==
  /\ upgrade.at \in UpgradeOps
  /\ upgrade.asked \/ Network
  /\ upgrade' = Goes(upgrade, UpgradeLoss(upgrade.at, upgrade.asked))
  /\ Hangs(UpgradeOps) /\ UpgradeOnly

UpgradeStep == UpgradeAsks \/ UpgradeHears \/ UpgradeUnanswered

\* A runtime is stopped, or a start failed: the VM is killed with the connections
\* it had, and the next start boots another.  stop_runtime_processes has sent a
\* thread ahead, which nothing waits for.  The next start begins on the main thread,
\* which an upgrade under way holds.
Reboot ==
  /\ sync.client.at \in {"synced", "failed"} /\ boots < MaxBoots
  /\ upgrade.at \notin UpgradeOps
  /\ boots' = boots + 1
  /\ agent' = Booted /\ backlog' = <<>>
  /\ thread' = (thread \/ sync.client.at = "synced" \/ sync.cancelled)
  /\ sync' = [sync EXCEPT !.client = Fresh, !.late = FALSE, !.cancelled = FALSE]
  /\ UNCHANGED upgrade

\* The thread reaches whichever guest answers the address now, or nobody.
ThreadConnects ==
  /\ thread /\ Len(backlog) < MaxBacklog
  /\ backlog' = Append(backlog, [op |-> "stop", live |-> FALSE])
  /\ thread' = FALSE
  /\ UNCHANGED <<agent, sync, upgrade, boots>>
ThreadGivesUp ==
  /\ thread /\ thread' = FALSE
  /\ UNCHANGED <<agent, sync, upgrade, backlog, boots>>

\* get_gateway_guest_status, which the user interface polls: its answer changes
\* nothing here.  Bound: one of them waits at a time.
StatusAsked ==
  /\ Len(backlog) < MaxBacklog /\ \A i \in DOMAIN backlog : backlog[i].op # "status"
  /\ backlog' = Append(backlog, [op |-> "status", live |-> FALSE])
  /\ UNCHANGED <<agent, sync, upgrade, thread, boots>>

HostNext ==
  \/ Serve \/ GuestRuns
  \/ BeginSync \/ SyncStep \/ SyncBreaks \/ SyncUnconnected
  \/ SyncDeadlinePasses \/ Cancel
  \/ BeginUpgrade \/ UpgradeStep
  \/ Reboot \/ ThreadConnects \/ ThreadGivesUp \/ StatusAsked

HostSpec == HostInit /\ [][HostNext]_hostVars

\* The host's threads run and its clocks advance.  That the agent serves, that its
\* services answer or that a broken connection is noticed is not assumed.
HostFairSpec ==
  /\ HostSpec
  /\ WF_hostVars(SyncStep) /\ WF_hostVars(SyncDeadlinePasses) /\ WF_hostVars(UpgradeStep)

-------------------------------------------------------------------------------
(* What the client promises.                                               *)

HostTypeOK ==
  /\ agent \in State
  /\ sync \in [client : Client(SyncPlaces), target : StartPairs, late : BOOLEAN,
               cancelled : BOOLEAN]
  /\ upgrade \in Client(UpgradePlaces)
  /\ thread \in BOOLEAN /\ boots \in 1..MaxBoots
  /\ backlog \in Seq(Connection) /\ Len(backlog) <= MaxBacklog

\* A start reported as successful left the guest with exactly that pair, committed:
\* whatever answer was lost, abandoned or late, no rollback of it can follow.
SyncedIsCommitted ==
  sync.client.at = "synced" => /\ agent.log.committed = sync.target
                               /\ agent.pending = None

\* guest_agent.rs:838 promises that a mutation is never sent again on another
\* connection: every activation the agent serves, also one whose client is long
\* gone, meets an agent with no session under way.
ActivatesIdle ==
  [][Serve /\ Head(backlog).op = "activate" => agent.pending = None]_hostVars

\* The version that runs is the active one although upgrades and sessions overlap:
\* a session is the first of its boot, so its rollback has nothing to restart.
OverlapRunsActive == RunsActiveVersion

\* What the upgrade command reports is so, whichever of its requests went
\* unanswered: "upgraded" means the release is active, and "the guest still runs
\* another version" means no request is left that could still activate it.
UpgradeReportTrue ==
  upgrade.boot = boots =>
    /\ upgrade.at = "upgraded" => agent.slots.active = Release[1]
    /\ upgrade.at = "kept" => agent.slots.active # Release[1]

\* docs/vfkit-gateway.md:73: a lost or failed answer never downgrades twice.  The
\* agent serves a rollback only while the release it undoes is active.
NoSecondDowngrade ==
  [][Serve /\ Head(backlog).op = "rollback" /\ upgrade.boot = boots
       => agent.slots.active = Release[1]]_hostVars

\* A start and an upgrade come to an end even when the agent never answers.
SyncEnds == []<>(~Syncing /\ upgrade.at \notin UpgradeOps)
===============================================================================
