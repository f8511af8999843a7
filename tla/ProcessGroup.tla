----------------------------- MODULE ProcessGroup -----------------------------
(***************************************************************************)
(* ManagedChild (src-tauri/src/process_group.rs): the one handle through   *)
(* which the host starts, watches and stops a process of the Gateway.  A   *)
(* helper and vfkit run in a process group of their own, or a helper runs  *)
(* as a job of launchd.                                                    *)
(*                                                                         *)
(* Every call is an operator from a child to the set of its outcomes.  The *)
(* grace periods are choices: at a deadline a process that was asked to    *)
(* leave has left, or it has not.                                          *)
(***************************************************************************)
CONSTANT
  ChildFaults   \* what may fail between the host and its processes

ChildFaultKinds ==
  {"spawn",     \* the process, its PID or its PID file cannot be had
   "exit",      \* a process leaves on its own, also while it is being stopped
   "denied",    \* the system refuses a signal
   "stuck",     \* a descendant outlives SIGKILL by more than its grace
   "wait",      \* try_wait or wait fails
   "launchctl"} \* a call of launchctl fails

ASSUME ChildFaultsAssumption == ChildFaults \subseteq ChildFaultKinds

Helpers == {"host_only", "bridged"}
Roles == Helpers \cup {"vfkit"}

-------------------------------------------------------------------------------
\* ManagedChild, and the processes behind it.  Only vfkit has descendants.
Child ==
  [role   : Roles,
   job    : BOOLEAN,                    \* started as a job of launchd
   handle : BOOLEAN,                    \* child or launchd_job is held
   group  : BOOLEAN,                    \* process_group_id is known
   leader : {"up", "zombie", "gone"},   \* an exited leader stays until waited for
   rest   : BOOLEAN,                    \* a descendant runs in the group
   loaded : BOOLEAN]                    \* launchd knows the label

Done(c) == [ok |-> TRUE, c |-> c]
Failed(c) == [ok |-> FALSE, c |-> c]
May(kind, outcome) == IF kind \in ChildFaults THEN {outcome} ELSE {}

Living(c) == c.leader = "up" \/ c.rest

\* group_exists: an unreaped leader still counts.
GroupExists(c) == c.group /\ (c.leader # "gone" \/ c.rest)

\* Mutant: the two helpers are taken for each other.
SpawnedSwapped(role, launchd) ==
  {[role |-> IF role = "bridged" THEN "host_only" ELSE "bridged", job |-> FALSE,
    handle |-> TRUE, group |-> TRUE, leader |-> "up", rest |-> FALSE, loaded |-> FALSE]}

\* ManagedChild::spawn; with launchd helpers are jobs of it (LaunchdJob::submit).
Spawned(role, launchd) ==
  LET job == launchd /\ role \in Helpers
  IN {[role |-> role, job |-> job, handle |-> TRUE, group |-> ~job, leader |-> "up",
       rest |-> r, loaded |-> job] : r \in IF role = "vfkit" THEN BOOLEAN ELSE {FALSE}}

\* leader_running: it reaps a leader that has exited.
Reaped(c) == IF c.leader = "zombie" THEN [c EXCEPT !.leader = "gone"] ELSE c
LeaderRunning(c) == c.handle /\ c.leader = "up" /\ (c.job => c.loaded)

\* leader_pid
LeaderPid(c) == IF c.job THEN LeaderRunning(c) ELSE c.handle

-------------------------------------------------------------------------------
(* Signals.                                                                *)

\* The end of a leader: launchd reaps its jobs, the host must wait for the others.
Left(c) == [c EXCEPT !.leader = IF c.job THEN "gone" ELSE "zombie"]

\* What may have left by the time the deadline has passed.
Grace(c) ==
  LET leaders == IF c.leader = "up" THEN {c, Left(c)} ELSE {c}
  IN leaders \cup {[l EXCEPT !.rest = FALSE] : l \in leaders}

\* SIGKILL
Killed(c) ==
  LET k == IF c.leader = "up" THEN Left(c) ELSE c
  IN {[k EXCEPT !.rest = FALSE]} \cup May("stuck", k)

\* signal_group: a group of which only the unreaped leader is left refuses every
\* signal on Darwin.
Signalled(c, after) ==
  {Done(a) : a \in after}
    \cup IF Living(c) THEN May("denied", Failed(c)) ELSE {Failed(c)}
SignalGroup(c, after) ==
  IF GroupExists(c) THEN Signalled(c, after) ELSE {Done(c)}

\* Mutant: a process that is gone already counts as a signal that failed.
RequestStopStrict(c) ==
  IF c.leader = "gone" THEN {Failed(c)} ELSE {Done(c)}

\* request_stop: whatever SIGTERM brings about is left to the grace period.  A job
\* that leaves before it is killed makes launchctl fail.
RequestStop(c) ==
  IF ~c.handle THEN {Done(c)}
  ELSE IF c.job
  THEN {Done(c)} \cup May("launchctl", Failed(c))
         \cup IF LeaderRunning(c) THEN May("exit", Failed(Left(c))) ELSE {}
  ELSE IF c.role = "vfkit"
  THEN {Done(c)} \cup IF c.leader = "up" THEN May("denied", Failed(c)) ELSE {}
  ELSE SignalGroup(c, {c})

-------------------------------------------------------------------------------
(* finish_stop_until.                                                      *)

Released(c) == [c EXCEPT !.handle = FALSE, !.group = FALSE, !.leader = "gone"]

\* ... of a helper.  When the group may not be signalled the leader alone is
\* killed, and the group is not looked at again.
KillAlone(c) ==
  {Done(Released(c))} \cup IF c.leader = "up" THEN May("denied", Failed(c)) ELSE {}
WaitHelper(c) ==
  {IF c.rest THEN Failed(Released(c)) ELSE Done(Released(c))}
FinishHelper(c) ==
  May("wait", Failed(c))
    \cup UNION {UNION {IF s.ok THEN WaitHelper(s.c) ELSE KillAlone(s.c) :
                         s \in SignalGroup(g, Killed(g))} : g \in Grace(c)}

\* Mutant: the group id is given up with the leader.
FinishOwnedGroupOnce(c) ==
  UNION {{IF s.ok /\ ~s.c.rest THEN Done(Released(c)) ELSE Failed(Released(s.c))} :
           s \in SignalGroup(c, Killed(c))}

\* finish_owned_group_until: the group id is kept until the group is gone.
FinishOwnedGroup(c) ==
  UNION {{IF s.ok /\ ~GroupExists(s.c) THEN Done([s.c EXCEPT !.group = FALSE])
          ELSE Failed(s.c)} : s \in SignalGroup(c, Killed(c))}

\* ... of vfkit: the leader first, then the group created for it.
EndLeader(c) ==
  IF c.leader # "up" THEN {Done(c)}
  ELSE UNION {IF s.ok THEN {s} ELSE {Done(Left(s.c))} \cup May("denied", s) :
                s \in SignalGroup(c, Killed(c))}
WaitLeader(c) == [c EXCEPT !.handle = FALSE, !.leader = "gone"]
FinishVfkit(c) ==
  IF ~c.handle THEN IF c.group THEN FinishOwnedGroup(c) ELSE {Done(c)}
  ELSE May("wait", Failed(c))
         \cup UNION {UNION {IF e.ok THEN FinishOwnedGroup(WaitLeader(e.c)) ELSE {e} :
                              e \in EndLeader(g)} : g \in Grace(c)}

\* LaunchdJob::finish_stop_until: SIGKILL, then bootout.  Either may fail, SIGKILL
\* also because the process left a moment before; the first error is returned
\* whatever the bootout achieves.
KillJob(c) ==
  IF ~LeaderRunning(c) THEN {Done(c)}
  ELSE {Done(Left(c))} \cup May("launchctl", Failed(c)) \cup May("exit", Failed(Left(c)))
BootOut(c) ==
  IF ~c.loaded THEN {Failed(c)}
  ELSE {Done([c EXCEPT !.loaded = FALSE, !.leader = "gone"])}
         \cup May("launchctl", Failed(c))
         \cup May("launchctl", Failed([c EXCEPT !.loaded = FALSE, !.leader = "gone"]))
FinishJob(c) ==
  May("launchctl", Failed(c))
    \cup UNION {UNION {{IF k.ok /\ b.ok THEN Done([b.c EXCEPT !.handle = FALSE])
                        ELSE Failed(b.c) : b \in BootOut(k.c)} :
                         k \in KillJob(g)} : g \in Grace(c)}

FinishStop(c) ==
  IF c.role = "vfkit" THEN FinishVfkit(c)
  ELSE IF ~c.handle THEN {Done(c)}
  ELSE IF c.job THEN FinishJob(c) ELSE FinishHelper(c)

\* stop_group: ok when both halves are.
StopGroup(c) ==
  UNION {{[ok |-> f.ok /\ r.ok, c |-> f.c] : f \in FinishStop(r.c)} : r \in RequestStop(c)}

\* Some outcome of the next attempt is success.
Stoppable(c) == \E o \in StopGroup(c) : o.ok
===============================================================================
