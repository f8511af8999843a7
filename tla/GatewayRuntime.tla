---------------------------- MODULE GatewayRuntime ----------------------------
(***************************************************************************)
(* Starting and stopping the Gateway: two vmnet helpers, vfkit, the guest  *)
(* agent (src-tauri/src/gateway_runtime.rs), and the supervisor around it  *)
(* (start_gateway_runtime_supervisor and what it calls in lib.rs).         *)
(*                                                                         *)
(* One thread runs the supervisor, and one each helper while it starts; at *)
(* any moment a process may exit, the user may cancel, and the application *)
(* may be killed and started again.  gateway_transition, which Lifecycle   *)
(* models, keeps a second start and a stop out while one is under way.     *)
(***************************************************************************)
EXTENDS Naturals, ProcessGroup

CONSTANTS
  Launchd,      \* the values of the launch mode: are helpers jobs of launchd?
  Trouble,      \* what else may fail: the plan, the clean-up, the session
  MaxStarts,    \* how many starts are made
  MaxCrashes,   \* how often the application is killed
  None

TroubleKinds == {"plan",      \* a check before the first process fails
                 "cleanup",   \* the runtime directory cannot be removed
                 "session"}   \* sync_session_with_cancellation fails

ASSUME GatewayAssumption ==
  /\ Launchd \subseteq BOOLEAN /\ Launchd # {}
  /\ Trouble \subseteq TroubleKinds
  /\ MaxStarts \in Nat \ {0} /\ MaxCrashes \in Nat
  /\ None \notin Child

VARIABLES
  launchd,    \* SONGSTERX_VMNET_LAUNCH_MODE, an environment variable
  pc,         \* where the supervisor is; "idle" when no start or stop is under way
  thread,     \* the step of each role: start_step_isolated
  hand,       \* the child that step holds
  children,   \* GatewayRuntime.children, at whichever stage of its life
  tried,      \* the children that the stop under way has dealt with
  slot,       \* the runtime is registered in RuntimeState.gateway_runtime
  sock,       \* the sockets the helpers have created
  dir,        \* the runtime directory exists
  cancelled,  \* the user has asked to stop the start under way
  readiness,  \* GatewayReadiness, which only moves as a whole
  orphans,    \* processes of an application that was killed
  stray,      \* processes that run although their handle was dropped
  starts, crashes

steps == <<thread, hand>>
runtime == <<children, tried, slot, dir>>
setting == <<launchd, starts, crashes>>
vars == <<pc, steps, runtime, sock, cancelled, readiness, orphans, stray, setting>>

Nothing == [r \in Roles |-> None]

Init ==
  /\ launchd \in Launchd
  /\ pc = "idle"
  /\ thread = [r \in Roles |-> "idle"] /\ hand = Nothing
  /\ children = Nothing /\ tried = {} /\ slot = FALSE
  /\ sock = {} /\ dir = FALSE
  /\ cancelled = FALSE /\ readiness = "unknown"
  /\ orphans = {} /\ stray = {}
  /\ starts = 0 /\ crashes = 0

Held(f) == {f[r] : r \in Roles} \ {None}

\* A handle is dropped: what still runs behind it is on its own.
Dropped(c) == IF Living(c) THEN {c} ELSE {}

-------------------------------------------------------------------------------
(* Before the first process.                                               *)

\* start_gateway_runtime_supervisor: whether it may be called is up to Lifecycle;
\* it looks for itself whether a runtime is registered.
Begin ==
  /\ pc = "idle" /\ starts < MaxStarts
  /\ pc' = "reclaim"
  /\ starts' = starts + 1
  /\ cancelled' = FALSE
  /\ UNCHANGED <<steps, runtime, sock, readiness, orphans, stray, launchd,
                 crashes>>

\* The start is refused before anything has happened.
Refuse(label) ==
  /\ pc = label /\ "plan" \in Trouble
  /\ pc' = "idle"
  /\ UNCHANGED <<steps, runtime, sock, cancelled, readiness, orphans, stray, setting>>

\* ps shows an orphan once its parent is gone, and a job of launchd always.
Foreign(c) == c.leader = "up"
Found(roles) ==
  {c \in orphans : c.role \in roles /\ Foreign(c)}

\* Mutant: only orphaned helpers are looked for.
ReclaimNoVfkit ==
  /\ pc = "reclaim"
  /\ pc' = "helpers_left"
  /\ UNCHANGED <<steps, runtime, sock, cancelled, readiness, orphans, stray, setting>>

\* cleanup_orphaned_gateway_vfkit: SIGTERM to the group, 500 ms for the leader,
\* SIGKILL to the groups whose leader is still there.
ReclaimVfkit ==
  /\ pc = "reclaim"
  /\ \E after \in [Found({"vfkit"}) -> {"left", "leader_left", "killed"}] :
       orphans' = {c \in orphans : c \notin DOMAIN after}
                    \cup {[c EXCEPT !.leader = "gone"] :
                            c \in {d \in DOMAIN after : after[d] = "leader_left" /\ d.rest}}
  /\ pc' = "helpers_left"
  /\ UNCHANGED <<steps, runtime, sock, cancelled, readiness, stray, setting>>

\* cleanup_orphaned_gateway_vmnet_helpers: the same for single processes.  What
\* launchd was told about the job stays.
ReclaimHelpers ==
  /\ pc = "helpers_left"
  /\ orphans' = {c \in orphans : c \notin Found(Helpers)}
                  \cup {[c EXCEPT !.leader = "gone"] : c \in {d \in Found(Helpers) : d.loaded}}
  /\ pc' = "admit"
  /\ UNCHANGED <<steps, runtime, sock, cancelled, readiness, stray, setting>>

\* A signal that is refused ends the start.
ReclaimFails ==
  /\ \/ pc = "reclaim" /\ Found({"vfkit"}) # {}
     \/ pc = "helpers_left" /\ Found(Helpers) # {}
  /\ "denied" \in ChildFaults
  /\ pc' = "idle"
  /\ UNCHANGED <<steps, runtime, sock, cancelled, readiness, orphans, stray, setting>>

\* The ownership slot is looked at once, before anything is created.
Admit ==
  /\ pc = "admit"
  /\ IF slot THEN pc' = "idle" /\ UNCHANGED readiness
     ELSE pc' = "plan" /\ readiness' = "starting"
  /\ UNCHANGED <<steps, runtime, sock, cancelled, orphans, stray, setting>>

PlanFails ==
  /\ pc = "plan" /\ "plan" \in Trouble
  /\ readiness' = "failed"
  /\ pc' = "idle"
  /\ UNCHANGED <<steps, runtime, sock, cancelled, orphans, stray, setting>>

\* build_runtime_plan creates the directory; start_with_cancellation begins.
Plan ==
  /\ pc = "plan"
  /\ dir' = TRUE /\ sock' = {}
  /\ children' = Nothing /\ tried' = {}
  /\ IF cancelled
     THEN pc' = "undo" /\ UNCHANGED thread
     ELSE /\ pc' = "helpers"
          /\ thread' = [r \in Roles |-> IF r \in Helpers THEN "spawn" ELSE "idle"]
  /\ UNCHANGED <<hand, slot, cancelled, readiness, orphans, stray, setting>>

-------------------------------------------------------------------------------
(* start_step_isolated, in a thread of its own for each helper.            *)

Spawn(r) ==
  /\ thread[r] = "spawn"
  /\ ~\E c \in orphans : c.role = r /\ c.loaded
  /\ \E c \in Spawned(r, launchd) : hand' = [hand EXCEPT ![r] = c]
  /\ thread' = [thread EXCEPT ![r] = "pid"]
  /\ UNCHANGED <<pc, runtime, sock, cancelled, readiness, orphans, stray, setting>>

\* ... also because launchd still knows the label of a job.
SpawnFails(r) ==
  /\ thread[r] = "spawn"
  /\ "spawn" \in ChildFaults \/ \E c \in orphans : c.role = r /\ c.loaded
  /\ thread' = [thread EXCEPT ![r] = "failed"]
  /\ UNCHANGED <<pc, hand, runtime, sock, cancelled, readiness, orphans, stray, setting>>

\* StartupStepFailure::with_child: the child is the residue when it does not stop.
WithChild(r) ==
  /\ thread' = [thread EXCEPT ![r] = "failed"]
  /\ \E o \in StopGroup(hand[r]) :
       /\ hand' = [hand EXCEPT ![r] = IF o.ok THEN None ELSE o.c]
       /\ stray' = stray \cup IF o.ok THEN Dropped(o.c) ELSE {}

\* leader_pid, and the PID file.
ReadPid(r) ==
  /\ thread[r] = "pid"
  /\ \/ /\ LeaderPid(hand[r])
        /\ thread' = [thread EXCEPT ![r] = "wait"]
        /\ UNCHANGED <<hand, stray>>
     \/ /\ ~LeaderPid(hand[r]) \/ "spawn" \in ChildFaults
        /\ WithChild(r)
  /\ UNCHANGED <<pc, runtime, sock, cancelled, readiness, orphans, setting>>

\* wait_for_step_single: a helper is ready when its socket exists, vfkit always;
\* a step that is not ready may at any time be late.
StepReady(r) ==
  /\ thread[r] = "wait" /\ ~cancelled
  /\ LeaderRunning(hand[r])
  /\ r \in Helpers => r \in sock
  /\ thread' = [thread EXCEPT ![r] = "ready"]
  /\ UNCHANGED <<pc, hand, runtime, sock, cancelled, readiness, orphans, stray, setting>>

\* Mutant: a helper that never creates its socket is waited for without a timeout.
StepGivenUpOnExit(r) == cancelled \/ ~LeaderRunning(hand[r])

StepGivenUp(r) ==
  \/ cancelled \/ ~LeaderRunning(hand[r]) \/ "wait" \in ChildFaults
  \/ r \in Helpers /\ r \notin sock
StepFails(r) ==
  /\ thread[r] = "wait"
  /\ StepGivenUp(r)
  /\ WithChild(r)
  /\ UNCHANGED <<pc, runtime, sock, cancelled, readiness, orphans, setting>>

-------------------------------------------------------------------------------
(* start_with_cancellation.                                                *)

\* What the steps hand over, whether ready or left behind.
Collect(roles) ==
  /\ children' = [r \in Roles |-> IF r \in roles THEN hand[r] ELSE children[r]]
  /\ hand' = [r \in Roles |-> IF r \in roles THEN None ELSE hand[r]]
  /\ thread' = [r \in Roles |-> "idle"]

\* Mutant: the failure of a helper is noticed only if the start was cancelled.
HelpersUpCareless == ~cancelled

HelpersUp == ~cancelled /\ \A h \in Helpers : thread[h] = "ready"

\* Both threads are joined; then the cancellation, then the errors are looked at.
Join ==
  /\ pc = "helpers"
  /\ \A h \in Helpers : thread[h] \in {"ready", "failed"}
  /\ Collect(Helpers)
  /\ pc' = IF HelpersUp THEN "gate" ELSE "undo"
  /\ UNCHANGED <<tried, slot, dir, sock, cancelled, readiness, orphans, stray, setting>>

AllRunning == \A c \in Held(children) : LeaderRunning(c)
Watched == [r \in Roles |-> IF children[r] = None THEN None ELSE Reaped(children[r])]

\* ensure_children_running: the helpers are looked at once more before vfkit.
Gate ==
  /\ pc = "gate"
  /\ children' = Watched
  /\ \/ /\ AllRunning
        /\ pc' = "vfkit"
        /\ thread' = [thread EXCEPT !["vfkit"] = "spawn"]
     \/ /\ ~AllRunning \/ "wait" \in ChildFaults
        /\ pc' = "undo"
        /\ UNCHANGED thread
  /\ UNCHANGED <<hand, tried, slot, dir, sock, cancelled, readiness, orphans, stray, setting>>

JoinVfkit ==
  /\ pc = "vfkit"
  /\ thread["vfkit"] \in {"ready", "failed"}
  /\ pc' = IF thread["vfkit"] = "ready" THEN "agent" ELSE "undo"
  /\ Collect({"vfkit"})
  /\ UNCHANGED <<tried, slot, dir, sock, cancelled, readiness, orphans, stray, setting>>

\* wait_for_step for the guest agent: every poll looks at all three processes, and
\* the 20 s may be over at any of them.
AgentAnswers ==
  /\ pc = "agent" /\ ~cancelled /\ AllRunning
  /\ pc' = "session"
  /\ UNCHANGED <<steps, runtime, sock, cancelled, readiness, orphans, stray, setting>>
AgentFails ==
  /\ pc = "agent"
  /\ children' = Watched
  /\ pc' = "undo"
  /\ UNCHANGED <<steps, tried, slot, dir, sock, cancelled, readiness, orphans, stray, setting>>

-------------------------------------------------------------------------------
(* Failure: startup_error, and what becomes of the residue.                *)

\* The children in the order in which startup_error pops them.
Later(r) == IF r = "host_only" THEN {"vfkit", "bridged"}
            ELSE IF r = "bridged" THEN {"vfkit"} ELSE {}
Pending(r) == children[r] # None /\ r \notin tried

StopOne(r, outcomes) ==
  \E o \in outcomes :
    /\ children' = [children EXCEPT ![r] = IF o.ok THEN None ELSE o.c]
    /\ stray' = stray \cup IF o.ok THEN Dropped(o.c) ELSE {}
    /\ tried' = tried \cup {r}

Undo(r) ==
  /\ pc = "undo" /\ Pending(r)
  /\ \A later \in Later(r) : ~Pending(later)
  /\ StopOne(r, StopGroup(children[r]))
  /\ UNCHANGED <<pc, steps, slot, dir, sock, cancelled, readiness, orphans, setting>>

\* Mutant: the directory is removed whatever is left to stop.
CleanedAlways(ok) == TRUE
Cleaned(ok) == ok /\ Held(children) = {}

\* Mutant: the residue of a failed start is forgotten.
AdoptedNever(residue) == FALSE

\* adopt_gateway_start_failure, runtime_failure_with_cleanup
Adopted(residue) == residue

\* Without survivors the directory is removed; a residue of either kind is
\* registered, so that it can be stopped again.
Undone ==
  /\ pc = "undo" /\ \A r \in Roles : ~Pending(r)
  /\ \E ok \in IF "cleanup" \in Trouble THEN BOOLEAN ELSE {TRUE} :
       /\ dir' = ~Cleaned(ok)
       /\ slot' = Adopted(dir')
  /\ tried' = {} /\ sock' = {}
  /\ readiness' = "failed"
  /\ pc' = "idle"
  /\ UNCHANGED <<steps, children, cancelled, orphans, stray, setting>>

\* sync_session_with_cancellation, and commit_gateway_runtime.
SessionFails ==
  /\ pc = "session"
  /\ cancelled \/ "session" \in Trouble \/ ~AllRunning
  /\ readiness' = "failed"
  /\ pc' = "abort"
  /\ UNCHANGED <<steps, runtime, sock, cancelled, orphans, stray, setting>>

SessionActive ==
  /\ pc = "session"
  /\ slot' = TRUE
  /\ readiness' = "ready"
  /\ pc' = "idle"
  /\ UNCHANGED <<steps, children, tried, dir, sock, cancelled, orphans, stray, setting>>

-------------------------------------------------------------------------------
(* GatewayRuntime::stop.                                                   *)

\* The owner is taken out of its slot (stop_runtime_processes_locked).
TakeOwner ==
  /\ pc = "idle" /\ slot
  /\ slot' = FALSE
  /\ pc' = "stop"
  /\ UNCHANGED <<steps, children, tried, dir, sock, cancelled, readiness, orphans, stray,
                 setting>>

\* All signals first; whether they succeed does not matter when the child stops.
Request ==
  /\ pc \in {"stop", "abort"}
  /\ pc' = IF pc = "stop" THEN "finish" ELSE "finish_abort"
  /\ tried' = {}
  /\ UNCHANGED <<steps, children, slot, dir, sock, cancelled, readiness, orphans, stray,
                 setting>>

\* ... then one thread for each child, against one deadline.
Finish(r) ==
  /\ pc \in {"finish", "finish_abort"} /\ Pending(r)
  /\ StopOne(r, FinishStop(children[r]))
  /\ UNCHANGED <<pc, steps, slot, dir, sock, cancelled, readiness, orphans, setting>>

\* mark_stopped, when the stop was asked for and nothing is left.
ReadinessAfterStop(kept) ==
  IF kept \/ pc = "finish_abort" THEN readiness ELSE "stopped"

\* A runtime that is not gone entirely goes back to its slot (and
\* runtime_failure_with_cleanup does the same with an uncommitted one).
Finished ==
  /\ pc \in {"finish", "finish_abort"} /\ \A r \in Roles : ~Pending(r)
  /\ \E ok \in IF "cleanup" \in Trouble THEN BOOLEAN ELSE {TRUE} :
       /\ dir' = ~Cleaned(ok)
       /\ slot' = Adopted(dir')
       /\ readiness' = ReadinessAfterStop(dir')
  /\ tried' = {} /\ sock' = {}
  /\ pc' = "idle"
  /\ UNCHANGED <<steps, children, cancelled, orphans, stray, setting>>

-------------------------------------------------------------------------------
(* What happens around the supervisor.                                     *)

\* A helper creates its socket.
Listen(h) ==
  /\ h \in Helpers \ sock
  /\ hand[h] # None /\ hand[h].leader = "up" /\ thread[h] \in {"pid", "wait"}
  /\ sock' = sock \cup {h}
  /\ UNCHANGED <<pc, steps, runtime, cancelled, readiness, orphans, stray, setting>>

\* The user stops the start under way.
Cancel ==
  /\ pc # "idle" /\ ~cancelled
  /\ cancelled' = TRUE
  /\ UNCHANGED <<pc, steps, runtime, sock, readiness, orphans, stray, setting>>

\* A leader exits; its descendants may stay.
Exit(r) ==
  /\ "exit" \in ChildFaults
  /\ \/ /\ hand[r] # None /\ hand[r].leader = "up"
        /\ hand' = [hand EXCEPT ![r] = Left(@)]
        /\ UNCHANGED children
     \/ /\ children[r] # None /\ children[r].leader = "up"
        /\ children' = [children EXCEPT ![r] = Left(@)]
        /\ UNCHANGED hand
  /\ UNCHANGED <<pc, thread, tried, slot, dir, sock, cancelled, readiness, orphans, stray,
                 setting>>

\* The application is killed and started again: nobody waits for its processes any
\* more, what runs is reparented, and the handles are gone.
Orphaned(c) == [c EXCEPT !.handle = FALSE, !.group = FALSE,
                         !.leader = IF @ = "up" THEN "up" ELSE "gone"]
Crash ==
  /\ crashes < MaxCrashes
  /\ crashes' = crashes + 1
  /\ orphans' = orphans \cup {Orphaned(c) : c \in {d \in Held(children) \cup Held(hand) :
                                                     Living(d) \/ d.loaded}}
  /\ pc' = "idle"
  /\ thread' = [r \in Roles |-> "idle"] /\ hand' = Nothing
  /\ children' = Nothing /\ tried' = {} /\ slot' = FALSE
  /\ sock' = {} /\ dir' = FALSE
  /\ cancelled' = FALSE /\ readiness' = "unknown"
  /\ UNCHANGED <<stray, launchd, starts>>

StepOf(r) == \/ Spawn(r) \/ SpawnFails(r) \/ ReadPid(r) \/ StepReady(r) \/ StepFails(r)
Supervise ==
  \/ Refuse("reclaim") \/ Refuse("helpers_left") \/ Refuse("admit")
  \/ ReclaimVfkit \/ ReclaimHelpers \/ ReclaimFails \/ Admit \/ PlanFails \/ Plan
  \/ Join \/ Gate \/ JoinVfkit \/ AgentAnswers \/ AgentFails
  \/ (\E r \in Roles : Undo(r)) \/ Undone
  \/ SessionFails \/ SessionActive
  \/ Request \/ (\E r \in Roles : Finish(r)) \/ Finished
Environment ==
  \/ (\E h \in Helpers : Listen(h)) \/ (\E r \in Roles : Exit(r)) \/ Cancel \/ Crash

Next == Begin \/ TakeOwner \/ Supervise \/ (\E r \in Roles : StepOf(r)) \/ Environment

Spec == Init /\ [][Next]_vars

\* The threads of a start or stop go on; what they wait for need never happen.
FairSpec == /\ Spec
            /\ WF_vars(Supervise)
            /\ \A r \in Roles : WF_vars(StepOf(r))
-------------------------------------------------------------------------------
(* What the supervisor promises.                                           *)

Opt(S) == S \cup {None}
Labels == {"idle", "reclaim", "helpers_left", "admit", "plan", "helpers", "gate", "vfkit",
           "agent", "undo", "session", "stop", "abort", "finish", "finish_abort"}

\* Every variable has its type, and every child its own role.
ChildOf(r) == Opt({c \in Child : c.role = r})
TypeOK ==
  /\ launchd \in Launchd
  /\ pc \in Labels
  /\ thread \in [Roles -> {"idle", "spawn", "pid", "wait", "ready", "failed"}]
  /\ \A r \in Roles : hand[r] \in ChildOf(r) /\ children[r] \in ChildOf(r)
  /\ tried \subseteq Roles /\ sock \subseteq Helpers
  /\ slot \in BOOLEAN /\ dir \in BOOLEAN /\ cancelled \in BOOLEAN
  /\ readiness \in {"unknown", "starting", "ready", "failed", "stopped"}
  /\ orphans \subseteq Child /\ stray \subseteq Child
  /\ starts \in 0..MaxStarts /\ crashes \in 0..MaxCrashes

\* No handle is given up while a process behind it runs, whichever step, signal or
\* wait fails and whenever the start is cancelled; and when no start or stop is under
\* way, what is left of a Gateway is registered, so that it can be stopped.
NothingLost ==
  /\ stray = {}
  /\ pc = "idle" /\ Held(children) \cup Held(hand) # {} => slot

\* The sockets of the helpers and the logs of vfkit live in the runtime directory:
\* it is removed only after every process of the runtime is gone.
DirOutlivesProcesses ==
  (\E c \in Held(children) \cup Held(hand) : Living(c)) => dir

\* vfkit consumes the sockets of both helpers: it is started only after both exist
\* and only next to helpers the runtime owns, and when a start fails it is the
\* first to be stopped.
VfkitBehindHelpers ==
  hand["vfkit"] # None \/ (pc = "undo" /\ children["vfkit"] # None /\ "vfkit" \notin tried)
    => \A h \in Helpers : h \in sock /\ children[h] # None

\* A new Gateway never runs next to the vfkit or a helper of an application that was
\* killed: they are reclaimed before anything is started.
NoSecondGateway ==
  Held(children) \cup Held(hand) # {} => ~\E c \in orphans : c.leader = "up"

\* What is registered can still be stopped: no failure of an attempt, in whatever
\* state it leaves the handle, makes the next one hopeless.  A job of launchd is the
\* exception: once its label is booted out every further bootout fails.
ResidueStoppable == slot => \A c \in Held(children) : Stoppable(c) \/ (c.job /\ ~c.loaded)

\* Every start and every stop comes to an end, whatever the helpers and vfkit do.
Ends == pc # "idle" ~> pc = "idle"
===============================================================================
