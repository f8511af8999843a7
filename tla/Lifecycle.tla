------------------------------- MODULE Lifecycle -------------------------------
(***************************************************************************)
(* Starting and stopping the runtime on the host (src-tauri/src/lib.rs).   *)
(*                                                                         *)
(* The commands of the user run one at a time on the main thread and hand  *)
(* the work to worker threads.  The threads meet in the lifecycle phase    *)
(* and its generation, in gateway_transition, the lock that one start or   *)
(* teardown holds from end to end, and in the three slots that own the     *)
(* processes of the runtime.  Every section that holds one of the short    *)
(* locks is one action; the threads interleave between them.               *)
(***************************************************************************)
EXTENDS Naturals, Sequences

CONSTANTS
  Starters,      \* the start workers, one per accepted start_mix_direct
  Stoppers,      \* the stop workers, one per accepted stop_runtime
  Main, Exit,    \* the main thread, the worker that cleans up on quit
  Runtimes,      \* what a start may be asked to run: sequences of slots
  MaxAttempts,   \* MAX_ATTEMPTS of stop_runtime_processes_for_exit
  Faults,        \* the failures the environment may cause in this instance
  Quits,         \* how often the user may ask to quit the application
  Overtaking,    \* may a command overtake the bookkeeping of a worker that
                 \* holds no lock any more?
  None           \* no process, no thread, no session

\* gateway_runtime (the VM and its helpers), child (sing-box), mitm_child
Slots == {"gateway", "child", "mitm"}

FaultKinds == {"prepare",  \* a configuration cannot be built or written
               "boot",     \* a process does not start or never gets ready
               "reap",     \* a process cannot be stopped
               "crash"}    \* a process leaves on its own

Workers == Starters \cup Stoppers
Threads == Workers \cup {Main, Exit}

ASSUME ThreadsAssumption ==
  /\ Starters \cap Stoppers = {}
  /\ Main # Exit /\ {Main, Exit} \cap Workers = {}
  /\ None \notin Threads \cup (Slots \X Starters)
  /\ \A r \in Runtimes :
       /\ r \in Seq(Slots) /\ r # <<>>
       /\ \A i, j \in 1..Len(r) : r[i] = r[j] => i = j
  /\ MaxAttempts \in Nat \ {0}
  /\ Faults \subseteq FaultKinds
  /\ Quits \in Nat /\ Overtaking \in BOOLEAN

VARIABLES
  phase,       \* lifecycle_phase
  generation,  \* lifecycle_generation
  status,      \* the state of the RuntimeStatus that the user sees
  lock,        \* the thread that holds gateway_transition
  slot,        \* the process each slot owns
  alive,       \* the processes that run
  session,     \* the start whose MetricsSession is frozen in metrics_session
  metrics,     \* the thread that drew the current metrics_generation, and
               \* whether a poller runs that carries it
  pc, hand, todo, ticket, failed, owned, tries,   \* the locals of the threads
  quits,       \* how often the user has asked to quit
  exited       \* the application has ended

life == <<phase, generation, status>>
procs == <<slot, alive, hand>>
observers == <<session, metrics>>
locals == <<todo, ticket, failed, owned, tries>>
ending == <<quits, exited>>
vars == <<life, lock, procs, observers, pc, locals, ending>>

-------------------------------------------------------------------------------
\* A process is named after its slot and the start that launched it.
Process == Slots \X Starters

Init ==
  /\ phase = "stopped" /\ generation = 0 /\ status = "stopped"
  /\ lock = None
  /\ slot = [s \in Slots |-> None] /\ alive = {}
  /\ session = None /\ metrics = [by |-> None, polled |-> FALSE]
  /\ pc = [t \in Threads |-> IF t \in Workers THEN "unborn" ELSE "idle"]
  /\ hand = [t \in Threads |-> {}]
  /\ todo = [t \in Starters |-> <<>>]
  /\ ticket = [t \in Starters |-> 0]
  /\ failed = [t \in Threads |-> FALSE]
  /\ owned = [t \in Stoppers |-> FALSE]
  /\ tries = 0
  /\ quits = 0 /\ exited = FALSE

Goto(t, label) == pc' = [pc EXCEPT ![t] = label]
At(t, label) == pc[t] = label /\ ~exited

OwnsResources == \E s \in Slots : slot[s] # None      \* runtime_owns_resources
Slotted == {slot[s] : s \in Slots} \ {None}

\* metrics_generation.fetch_add: whatever poller carries the old one ends.
NewMetricsGeneration(t) == metrics' = [by |-> t, polled |-> FALSE]

\* restart_runtime_observers under a lock: nothing without a session.
RestartObservers(t) ==
  IF session = None THEN UNCHANGED metrics
  ELSE metrics' = [by |-> t, polled |-> TRUE]

Ended(t) == pc[t] \in {"unborn", "done"}

\* A stop worker that has published the phase still has the status and the poller
\* to write.  Unless Overtaking, no other command comes between.
Settled == Overtaking \/ phase = "stopping" \/ \A t \in Stoppers : Ended(t)

-------------------------------------------------------------------------------
(* A start: start_mix_direct, and the start worker.                        *)

\* begin_lifecycle_start
BeginStart(t) ==
  /\ phase = "stopped"
  /\ phase' = "starting"
  /\ generation' = generation + 1
  /\ ticket' = [ticket EXCEPT ![t] = generation + 1]

StartMixDirect(t) ==
  /\ At(Main, "idle") /\ At(t, "unborn")
  /\ Overtaking \/ \A u \in Workers : Ended(u)
  /\ BeginStart(t)
  /\ \E r \in Runtimes : todo' = [todo EXCEPT ![t] = r]
  /\ pc' = [pc EXCEPT ![Main] = "start", ![t] = "accepted"]
  /\ UNCHANGED <<status, lock, procs, observers, failed, owned, tries, ending>>

\* ... the status is written after the phase lock is released.
SpawnStarter(t) ==
  /\ At(Main, "start") /\ At(t, "accepted")
  /\ status' = "starting"
  /\ pc' = [pc EXCEPT ![Main] = "idle", ![t] = "enter"]
  /\ UNCHANGED <<phase, generation, lock, procs, observers, locals, ending>>

\* lifecycle_cancelled
Cancelled(t) == generation # ticket[t] \/ phase # "starting"

\* lock_gateway_transition, in every thread that tears down or starts.
Enter(t) ==
  /\ At(t, "enter") /\ lock = None
  /\ lock' = t
  /\ Goto(t, IF t \in Starters THEN "prepare" ELSE "take")
  /\ UNCHANGED <<life, procs, observers, locals, ending>>

\* start_mix_direct_transaction, up to the files it writes.
Prepare(t) ==
  /\ At(t, "prepare")
  /\ \/ /\ Cancelled(t)
        /\ failed' = [failed EXCEPT ![t] = TRUE]
        /\ Goto(t, "unlock")
        /\ UNCHANGED metrics
     \/ /\ ~Cancelled(t)
        /\ NewMetricsGeneration(t)
        /\ \/ Goto(t, "observe") /\ UNCHANGED failed
           \/ /\ "prepare" \in Faults
              /\ failed' = [failed EXCEPT ![t] = TRUE]
              /\ Goto(t, "unlock")
  /\ UNCHANGED <<life, lock, procs, session, todo, ticket, owned, tries, ending>>

\* ... the session is frozen and its poller spawned.
Observe(t) ==
  /\ At(t, "observe")
  /\ IF Cancelled(t)
     THEN /\ failed' = [failed EXCEPT ![t] = TRUE]
          /\ Goto(t, "unlock")
          /\ UNCHANGED <<status, observers>>
     ELSE /\ status' = "starting"
          /\ session' = t
          /\ metrics' = [metrics EXCEPT !.polled = @ \/ metrics.by = t]
          /\ Goto(t, "launch")
          /\ UNCHANGED failed
  /\ UNCHANGED <<phase, generation, lock, procs, todo, ticket, owned, tries, ending>>

\* The next process is spawned and held by the thread alone.  A Gateway that is
\* still owned refuses a second one; a port that is still taken refuses sing-box.
Launch(t) ==
  LET s == Head(todo[t]) IN
  /\ At(t, "launch")
  /\ ~(s = "gateway" /\ slot[s] # None)
  /\ hand' = [hand EXCEPT ![t] = {<<s, t>>}]
  /\ alive' = alive \cup {<<s, t>>}
  /\ Goto(t, "wait")
  /\ UNCHANGED <<life, lock, slot, observers, locals, ending>>

LaunchFails(t) ==
  LET s == Head(todo[t]) IN
  /\ At(t, "launch")
  /\ "boot" \in Faults \/ slot[s] # None
  /\ failed' = [failed EXCEPT ![t] = TRUE]
  /\ \/ status' = "error" /\ Goto(t, IF s = "mitm" THEN "take" ELSE "unlock")
     \/ s = "child" /\ Cancelled(t) /\ UNCHANGED status /\ Goto(t, "take")
  /\ UNCHANGED <<phase, generation, lock, procs, observers, todo, ticket, owned,
                 tries, ending>>

\* The process answers its probe.
Ready(t) ==
  /\ At(t, "wait")
  /\ Goto(t, IF Head(todo[t]) = "gateway" THEN "commit" ELSE "vet")
  /\ UNCHANGED <<life, lock, procs, observers, locals, ending>>

\* Mutant: a process that could not be stopped is dropped.
AdoptNever(p, leftover) == slot' = slot

\* adopt_unowned_child, adopt_gateway_start_failure, runtime_failure_with_cleanup:
\* what could not be stopped goes to its slot if that is free; mitmdump always.
Adopt(p, leftover) ==
  slot' = IF leftover /\ (p[1] = "mitm" \/ slot[p[1]] = None)
          THEN [slot EXCEPT ![p[1]] = p] ELSE slot

\* It never does, or the start is cancelled meanwhile.  Only a Gateway start and
\* a plain failure of sing-box leave without a teardown.
WaitFails(t) ==
  \E p \in hand[t], leftover \in BOOLEAN :
    /\ At(t, "wait")
    /\ Cancelled(t) \/ "boot" \in Faults \/ p \notin alive
    /\ leftover => "reap" \in Faults
    /\ Adopt(p, leftover)
    /\ alive' = IF leftover THEN alive ELSE alive \ {p}
    /\ hand' = [hand EXCEPT ![t] = {}]
    /\ failed' = [failed EXCEPT ![t] = TRUE]
    /\ \/ p[1] = "gateway" /\ Goto(t, "unlock") /\ status' = "error"
       \/ p[1] = "child" /\ ~Cancelled(t) /\ Goto(t, "unlock") /\ status' = "error"
       \/ p[1] = "child" /\ Cancelled(t) /\ Goto(t, "take") /\ UNCHANGED status
       \/ p[1] = "mitm" /\ Goto(t, "take") /\ status' = "error"
    /\ UNCHANGED <<phase, generation, lock, observers, todo, ticket, owned, tries,
                   ending>>

\* Before sing-box or mitmdump is published: is the start still wanted?
Vet(t) ==
  /\ At(t, "vet")
  /\ Goto(t, IF Cancelled(t) THEN "abandon" ELSE "commit")
  /\ UNCHANGED <<life, lock, procs, observers, locals, ending>>

Abandon(t) ==
  \E p \in hand[t], leftover \in BOOLEAN :
    /\ At(t, "abandon")
    /\ leftover => "reap" \in Faults
    /\ slot' = IF leftover THEN [slot EXCEPT ![p[1]] = p] ELSE slot
    /\ alive' = IF leftover THEN alive ELSE alive \ {p}
    /\ hand' = [hand EXCEPT ![t] = {}]
    /\ failed' = [failed EXCEPT ![t] = TRUE]
    /\ Goto(t, "take")
    /\ UNCHANGED <<life, lock, observers, todo, ticket, owned, tries, ending>>

\* commit_gateway_runtime, and the assignments to child and mitm_child.
Commit(t) ==
  \E p \in hand[t] :
    /\ At(t, "commit")
    /\ slot' = [slot EXCEPT ![p[1]] = p]
    /\ hand' = [hand EXCEPT ![t] = {}]
    /\ todo' = [todo EXCEPT ![t] = Tail(@)]
    /\ Goto(t, IF Len(todo[t]) = 1 THEN "check" ELSE "launch")
    /\ UNCHANGED <<life, lock, alive, observers, ticket, failed, owned, tries, ending>>

\* The last look before the transaction reports success.
Check(t) ==
  /\ At(t, "check")
  /\ IF Cancelled(t)
     THEN /\ failed' = [failed EXCEPT ![t] = TRUE]
          /\ Goto(t, "take")
          /\ UNCHANGED status
     ELSE /\ status' = "running"
          /\ Goto(t, "unlock")
          /\ UNCHANGED failed
  /\ UNCHANGED <<phase, generation, lock, procs, observers, todo, ticket, owned, tries,
                 ending>>

\* Mutant: the worker judges its result with gateway_transition still in hand.
LeaveLocked(t) ==
  /\ At(t, "unlock") /\ t \in Starters
  /\ Goto(t, "judge")
  /\ UNCHANGED <<life, lock, procs, observers, locals, ending>>

\* The end of the transaction; then the worker judges its own result.
Leave(t) ==
  /\ At(t, "unlock") /\ t \in Starters
  /\ lock' = None
  /\ Goto(t, "judge")
  /\ UNCHANGED <<life, procs, observers, locals, ending>>

Judge(t) ==
  /\ At(t, "judge") /\ t \in Starters
  /\ Goto(t, IF generation # ticket[t] THEN "cancelled"
             ELSE IF failed[t] THEN "finalize" ELSE "publish")
  /\ UNCHANGED <<life, lock, procs, observers, locals, ending>>

\* finish_cancelled_start: it asks for the phase only, not for the generation.
FinishCancelledStart(t) ==
  /\ At(t, "cancelled")
  /\ IF phase = "starting"
     THEN phase' = "stopped" /\ status' = "stopped"
     ELSE UNCHANGED <<phase, status>>
  /\ Goto(t, "done")
  /\ UNCHANGED <<generation, lock, procs, observers, locals, ending>>

\* Mutant: success is published without a look at the generation and the phase.
PublishBlindly(t) ==
  /\ At(t, "publish")
  /\ phase' = "running" /\ status' = "running"
  /\ Goto(t, "done")
  /\ UNCHANGED <<generation, lock, procs, observers, locals, ending>>

\* complete_start_success
CompleteStartSuccess(t) ==
  /\ At(t, "publish")
  /\ IF phase = "starting" /\ generation = ticket[t]
     THEN phase' = "running" /\ status' = "running"
     ELSE UNCHANGED <<phase, status>>
  /\ Goto(t, "done")
  /\ UNCHANGED <<generation, lock, procs, observers, locals, ending>>

\* Mutant: a failed start always ends as stopped.
FailureEndsStopped == FALSE

\* Mutant: a failure always leaves the phase at running.
FailureEndsRunning == TRUE

\* The phase after a failure: what is still owned must stay stoppable.
FailureKeepsRunning == OwnsResources

\* finalize_start_failure, under gateway_transition.
FinalizeStartFailure(t) ==
  /\ At(t, "finalize") /\ lock = None
  /\ IF phase = "starting" /\ generation = ticket[t]
     THEN IF FailureKeepsRunning
          THEN /\ phase' = "running" /\ status' = "running"
               /\ RestartObservers(t)
               /\ UNCHANGED session
          ELSE /\ phase' = "stopped" /\ status' = "error"
               /\ NewMetricsGeneration(t)
               /\ session' = None
     ELSE UNCHANGED <<phase, status, observers>>
  /\ Goto(t, "done")
  /\ UNCHANGED <<generation, lock, procs, locals, ending>>

-------------------------------------------------------------------------------
(* stop_runtime_processes_locked, shared by every thread that tears down.  *)

\* The owners are taken out of their slots ...
TakeAll(t) ==
  /\ At(t, "take")
  /\ hand' = [hand EXCEPT ![t] = Slotted]
  /\ slot' = [s \in Slots |-> None]
  /\ Goto(t, "reap")
  /\ UNCHANGED <<life, lock, alive, observers, locals, ending>>

\* Mutant: what could not be stopped is not put back.
PutBackNothing(kept) == [s \in Slots |-> None]

\* ... and the ones that could not be stopped are put back.
PutBack(kept) ==
  [s \in Slots |-> IF \E p \in kept : p[1] = s
                   THEN CHOOSE p \in kept : p[1] = s ELSE None]

ReapAll(t) ==
  \E kept \in SUBSET hand[t] :
    /\ At(t, "reap")
    /\ kept # {} => "reap" \in Faults
    /\ alive' = alive \ (hand[t] \ kept)
    /\ slot' = PutBack(kept)
    /\ hand' = [hand EXCEPT ![t] = {}]
    /\ failed' = [failed EXCEPT ![t] = IF t \in Starters THEN @ ELSE kept # {}]
    /\ Goto(t, "unlock")
    /\ UNCHANGED <<life, lock, observers, todo, ticket, owned, tries, ending>>

-------------------------------------------------------------------------------
(* A stop: stop_runtime, and the stop worker.                              *)

StopRuntime ==
  /\ At(Main, "idle")
  /\ \E t \in Stoppers : pc[t] = "unborn"
  /\ Settled
  /\ \/ /\ phase = "stopped"
        /\ status' = "stopped"
        /\ UNCHANGED <<phase, pc>>
     \/ /\ phase = "stopping"
        /\ UNCHANGED <<phase, status, pc>>
     \/ /\ phase \in {"starting", "running"}
        /\ phase' = "stopping"
        /\ Goto(Main, "stop")
        /\ UNCHANGED status
  /\ UNCHANGED <<generation, lock, procs, observers, locals, ending>>

\* ... the generation changes after the phase lock is released.
SpawnStopper(t) ==
  /\ At(Main, "stop") /\ t \in Stoppers /\ At(t, "unborn")
  /\ generation' = generation + 1
  /\ status' = "stopping"
  /\ pc' = [pc EXCEPT ![Main] = "idle", ![t] = "spawned"]
  /\ UNCHANGED <<phase, lock, procs, observers, locals, ending>>

\* Mutant: a stop lets the poller of the session go on.
InvalidateNothing(t) ==
  /\ At(t, "spawned")
  /\ Goto(t, "enter")
  /\ UNCHANGED <<life, lock, procs, observers, locals, ending>>

\* stop_runtime_processes: the pollers are invalidated before the lock is asked for.
Invalidate(t) ==
  /\ At(t, "spawned")
  /\ NewMetricsGeneration(t)
  /\ Goto(t, "enter")
  /\ UNCHANGED <<life, lock, procs, session, locals, ending>>

\* ... and the session ends with the last process.
LeaveTeardown(t) ==
  /\ At(t, "unlock") /\ t \in Stoppers \cup {Exit}
  /\ session' = IF ~failed[t] \/ ~OwnsResources THEN None ELSE session
  /\ lock' = None
  /\ Goto(t, IF t = Exit THEN "judge" ELSE "mark")
  /\ UNCHANGED <<life, procs, metrics, locals, ending>>

\* Mutant: only a stop that succeeds publishes a phase.
MarkSuccess(t) ==
  /\ At(t, "mark")
  /\ owned' = [owned EXCEPT ![t] = failed[t] /\ FailureKeepsRunning]
  /\ phase' = IF failed[t] THEN phase ELSE "stopped"
  /\ Goto(t, "report")
  /\ UNCHANGED <<generation, status, lock, procs, observers, todo, ticket, failed, tries,
                 ending>>

\* The stop worker publishes the phase, and then the status, without any lock.
Mark(t) ==
  /\ At(t, "mark")
  /\ owned' = [owned EXCEPT ![t] = failed[t] /\ FailureKeepsRunning]
  /\ phase' = IF failed[t] /\ FailureKeepsRunning THEN "running" ELSE "stopped"
  /\ Goto(t, "report")
  /\ UNCHANGED <<generation, status, lock, procs, observers, todo, ticket, failed, tries,
                 ending>>

\* Mutant: a stop that failed does not restart the observers.
StatusReportOnly(t) ==
  /\ At(t, "report")
  /\ status' = IF owned[t] THEN "running" ELSE IF failed[t] THEN "error" ELSE "stopped"
  /\ Goto(t, "done")
  /\ UNCHANGED <<phase, generation, lock, procs, observers, locals, ending>>

StatusReport(t) ==
  /\ At(t, "report")
  /\ status' = IF owned[t] THEN "running" ELSE IF failed[t] THEN "error" ELSE "stopped"
  /\ Goto(t, IF owned[t] /\ session # None THEN "respawn" ELSE "done")
  /\ UNCHANGED <<phase, generation, lock, procs, observers, locals, ending>>

\* restart_runtime_observers: by now the session it read may have ended.
Respawn(t) ==
  /\ At(t, "respawn")
  /\ metrics' = [by |-> t, polled |-> TRUE]
  /\ Goto(t, "done")
  /\ UNCHANGED <<life, lock, procs, session, locals, ending>>

-------------------------------------------------------------------------------
(* get_runtime_status: it also cleans up after a process that left.        *)

QueryStatus ==
  /\ At(Main, "idle")
  /\ Settled
  /\ phase \in {"stopped", "running"}
  /\ Goto(Main, "query")
  /\ UNCHANGED <<life, lock, procs, observers, locals, ending>>

Dead(s) == slot[s] # None /\ slot[s] \notin alive

\* The owner of the Gateway stays in its slot until the teardown takes it.
Inspect ==
  /\ At(Main, "query") /\ lock = None
  /\ IF \E s \in Slots : Dead(s)
     THEN /\ slot' = IF Dead("child") THEN [slot EXCEPT !["child"] = None]
                     ELSE IF Dead("mitm") THEN [slot EXCEPT !["mitm"] = None]
                     ELSE slot
          /\ NewMetricsGeneration(Main)
          /\ lock' = Main
          /\ Goto(Main, "take")
     ELSE /\ Goto(Main, "idle")
          /\ UNCHANGED <<slot, metrics, lock>>
  /\ UNCHANGED <<life, alive, hand, session, locals, ending>>

\* finalize_unexpected_runtime_exit
FinalizeUnexpectedExit ==
  /\ At(Main, "unlock")
  /\ IF failed[Main] /\ FailureKeepsRunning
     THEN /\ phase' = "running" /\ status' = "running"
          /\ IF session = None THEN NewMetricsGeneration(Main)
             ELSE RestartObservers(Main)
          /\ UNCHANGED session
     ELSE /\ phase' = "stopped"
          /\ status' = IF failed[Main] THEN "error" ELSE "stopped"
          /\ NewMetricsGeneration(Main)
          /\ session' = None
  /\ lock' = None
  /\ Goto(Main, "idle")
  /\ UNCHANGED <<generation, procs, locals, ending>>

-------------------------------------------------------------------------------
(* Quitting: ExitRequested, and stop_runtime_processes_for_exit.           *)

\* A second request while the cleanup runs is taken for the one that the cleanup
\* itself raises at its end: the application ends at once.
ExitRequested ==
  /\ At(Main, "idle")
  /\ quits < Quits
  /\ quits' = quits + 1
  /\ IF pc[Exit] = "idle"
     THEN tries' = 1 /\ Goto(Exit, "spawned") /\ UNCHANGED exited
     ELSE exited' = TRUE /\ UNCHANGED <<tries, pc>>
  /\ UNCHANGED <<life, lock, procs, observers, todo, ticket, failed, owned>>

\* Mutant: a quit that fails is tried for ever.
JudgeExitForever ==
  /\ At(Exit, "judge")
  /\ IF OwnsResources
     THEN Goto(Exit, "spawned") /\ UNCHANGED exited
     ELSE exited' = TRUE /\ UNCHANGED pc
  /\ UNCHANGED <<life, lock, procs, observers, locals, quits>>

\* Mutant: one attempt too many.
JudgeExitOnceMore ==
  /\ At(Exit, "judge")
  /\ IF OwnsResources
     THEN /\ IF failed[Exit] /\ tries <= MaxAttempts
             THEN tries' = tries + 1 /\ Goto(Exit, "spawned")
             ELSE Goto(Exit, "idle") /\ UNCHANGED tries
          /\ UNCHANGED exited
     ELSE exited' = TRUE /\ UNCHANGED <<pc, tries>>
  /\ UNCHANGED <<life, lock, procs, observers, todo, ticket, failed, owned, quits>>

\* Neither the phase nor the generation changes: a start that waits for the lock
\* is not cancelled.
JudgeExit ==
  /\ At(Exit, "judge")
  /\ IF OwnsResources
     THEN /\ IF failed[Exit] /\ tries < MaxAttempts
             THEN tries' = tries + 1 /\ Goto(Exit, "spawned")
             ELSE Goto(Exit, "idle") /\ UNCHANGED tries
          /\ UNCHANGED exited
     ELSE exited' = TRUE /\ UNCHANGED <<pc, tries>>
  /\ UNCHANGED <<life, lock, procs, observers, todo, ticket, failed, owned, quits>>

-------------------------------------------------------------------------------
\* A process leaves on its own.
Crash(p) ==
  /\ "crash" \in Faults /\ ~exited
  /\ p \in alive
  /\ alive' = alive \ {p}
  /\ UNCHANGED <<life, lock, slot, hand, observers, pc, locals, ending>>

StartStep(t) ==
  \/ SpawnStarter(t) \/ Prepare(t) \/ Observe(t)
  \/ Launch(t) \/ LaunchFails(t) \/ Ready(t) \/ WaitFails(t)
  \/ Vet(t) \/ Abandon(t) \/ Commit(t) \/ Check(t) \/ Leave(t) \/ Judge(t)
  \/ FinishCancelledStart(t) \/ CompleteStartSuccess(t) \/ FinalizeStartFailure(t)
StopStep(t) == Mark(t) \/ StatusReport(t) \/ Respawn(t)
TeardownStep(t) ==
  Enter(t) \/ TakeAll(t) \/ ReapAll(t) \/ Invalidate(t) \/ LeaveTeardown(t)

\* What a thread does once it has begun.
Step(t) ==
  \/ TeardownStep(t)
  \/ t \in Starters /\ StartStep(t)
  \/ t \in Stoppers /\ (StopStep(t) \/ SpawnStopper(t))
  \/ t = Main /\ (Inspect \/ FinalizeUnexpectedExit)
  \/ t = Exit /\ JudgeExit

Command == \/ \E t \in Starters : StartMixDirect(t)
           \/ StopRuntime \/ QueryStatus \/ ExitRequested

Next == Command \/ (\E t \in Threads : Step(t)) \/ (\E p \in Process : Crash(p))

Spec == Init /\ [][Next]_vars

\* A thread that has begun goes on; the commands are up to the user.
FairSpec == Spec /\ \A t \in Threads : WF_vars(Step(t))
-------------------------------------------------------------------------------
(* What the host promises.                                                 *)

Labels == {"unborn", "idle", "start", "accepted", "enter", "prepare", "observe",
           "launch", "wait", "vet", "abandon", "commit", "check", "unlock", "judge",
           "cancelled", "publish", "finalize", "take", "reap", "stop", "spawned", "mark",
           "report", "respawn", "query", "done"}

\* Every variable has its type.
TypeOK ==
  /\ phase \in {"stopped", "starting", "running", "stopping"}
  /\ generation \in Nat
  /\ status \in {"stopped", "starting", "running", "stopping", "error"}
  /\ lock \in Threads \cup {None}
  /\ slot \in [Slots -> Process \cup {None}]
  /\ alive \subseteq Process
  /\ session \in Starters \cup {None}
  /\ metrics \in [by : Threads \cup {None}, polled : BOOLEAN]
  /\ pc \in [Threads -> Labels]
  /\ hand \in [Threads -> SUBSET Process]
  /\ todo \in [Starters -> Seq(Slots)]
  /\ ticket \in [Starters -> Nat]
  /\ failed \in [Threads -> BOOLEAN]
  /\ owned \in [Stoppers -> BOOLEAN]
  /\ tries \in 0..MaxAttempts
  /\ quits \in 0..Quits
  /\ exited \in BOOLEAN

\* Every process that runs has an owner: a slot, or the one thread that is starting
\* or stopping it.  No race of starts, stops, crashes and failed teardowns loses one.
NoOrphan ==
  \A p \in alive : p \in Slotted \/ \E t \in Threads : p \in hand[t]

\* No two runtimes at once: neither two VMs nor two sing-boxes run side by side.
SingleRuntime == \A p, q \in alive : p[1] = q[1] => p = q

\* Stopped means stopped: nothing runs, nothing is owned and no start is under way,
\* so that what the phase admits (a start, a change of configuration) is safe.
InTransaction(t) ==
  pc[t] \in {"observe", "launch", "wait", "vet", "abandon", "commit", "take", "reap"}
StoppedIsQuiet ==
  phase = "stopped" =>
    /\ ~OwnsResources /\ alive = {}
    /\ \A t \in Starters : ~InTransaction(t)

\* A runtime that the phase calls running owns something, unless a teardown is just
\* looking at it: the stop button always has something to stop, also after a stop, a
\* start or a quit that failed.
RunningIsOwned ==
  phase = "running" /\ lock = None /\ pc[Exit] = "idle" => OwnsResources

\* With all workers at rest the status the user sees agrees with the phase.
AtRest == pc[Main] = "idle" /\ \A t \in Workers : Ended(t)
StatusAgrees ==
  AtRest => /\ phase = "stopped" => status \in {"stopped", "error"}
            /\ phase = "running" => status = "running"

\* The metrics of a session are not polled any more once its stop has completed
\* (docs/github-review.md:39).
StoppedIsNotPolled == AtRest /\ phase = "stopped" => ~metrics.polled

\* A running runtime is polled for as long as it lasts, also after a stop that failed.
RunningIsPolled ==
  AtRest /\ phase = "running" /\ pc[Exit] = "idle" /\ session # None => metrics.polled

\* Every start, every stop and every quit comes to an end, or the application does:
\* nobody waits for ever.
StartEnds == phase = "starting" ~> phase # "starting" \/ exited
StopEnds == phase = "stopping" ~> phase # "stopping" \/ exited
QuitEnds == pc[Exit] # "idle" ~> pc[Exit] = "idle" \/ exited

-------------------------------------------------------------------------------
(* What comments and documents say, and the code does not do.              *)

\* lib.rs:8187, on quitting: the process is kept alive while the owned runtime is
\* being reaped, so the application does not end with a runtime behind it.
ExitLeavesNothing == exited => alive = {}
===============================================================================
