---------------------------- MODULE LifecycleProofs ----------------------------
(***************************************************************************)
(* The threads of Lifecycle for any number of starts and stops, every set  *)
(* of runtimes and every set of failures.  Base and Ground hold of every   *)
(* instance; Calm, what keeps a runtime in order, of those where nobody    *)
(* quits and no command overtakes a worker.                                *)
(***************************************************************************)
EXTENDS Lifecycle, TLAPS

USE ThreadsAssumption DEF Workers, Threads

-------------------------------------------------------------------------------
(* What holds whatever the user does.                                      *)

\* Where each kind of thread can be.
MainLabels == {"idle", "start", "stop", "query", "take", "reap", "unlock"}
ExitLabels == {"idle", "spawned", "enter", "take", "reap", "unlock", "judge"}
StarterLabels == {"unborn", "accepted", "enter", "prepare", "observe", "launch", "wait", "vet",
                  "abandon", "commit", "check", "take", "reap", "unlock", "judge", "cancelled",
                  "publish", "finalize", "done"}
StopperLabels == {"unborn", "spawned", "enter", "take", "reap", "unlock", "mark", "report",
                  "respawn", "done"}
Placed ==
  /\ pc \in [Threads -> Labels]
  /\ pc[Main] \in MainLabels /\ pc[Exit] \in ExitLabels
  /\ \A t \in Starters : pc[t] \in StarterLabels
  /\ \A t \in Stoppers : pc[t] \in StopperLabels

\* gateway_transition is held exactly where the code says it is.
Locked == {"prepare", "observe", "launch", "wait", "vet", "abandon", "commit", "check",
           "take", "reap", "unlock"}
Locking == \A t \in Threads : pc[t] \in Locked <=> lock = t

\* A start works off its list, which names no slot twice.
Before == {"accepted", "enter", "prepare", "observe"}
Holding == {"wait", "vet", "abandon", "commit"}
Queued ==
  /\ todo \in [Starters -> Seq(Slots)]
  /\ \A t \in Starters :
       /\ pc[t] \in Before \cup Holding \cup {"launch"} => todo[t] # <<>>
       /\ \A i, j \in 1..Len(todo[t]) : todo[t][i] = todo[t][j] => i = j

\* Only a thread inside its transaction has a process in its hand: the one it starts,
\* or the ones it stops, of each slot one, while the slots are empty.
Handed ==
  /\ hand \in [Threads -> SUBSET Process]
  /\ \A t \in Threads : pc[t] \notin Holding \cup {"reap"} => hand[t] = {}
  /\ \A t \in Starters : pc[t] \in Holding => hand[t] = {<<Head(todo[t]), t>>}
  /\ \A t \in Threads : pc[t] = "reap" => \A p, q \in hand[t] : p[1] = q[1] => p = q

\* A slot owns a process of its own kind.
Filed ==
  /\ slot \in [Slots -> Process \cup {None}]
  /\ alive \subseteq Process
  /\ \A s \in Slots : slot[s] # None => slot[s][1] = s
  /\ \A t \in Threads : pc[t] = "reap" => \A s \in Slots : slot[s] = None

\* The rest of TypeOK.
Phased ==
  /\ phase \in {"stopped", "starting", "running", "stopping"}
  /\ generation \in Nat
  /\ status \in {"stopped", "starting", "running", "stopping", "error"}
  /\ lock \in Threads \cup {None}
  /\ exited \in BOOLEAN
Observed ==
  /\ session \in Starters \cup {None}
  /\ metrics \in [by : Threads \cup {None}, polled : BOOLEAN]
Noted ==
  /\ ticket \in [Starters -> Nat]
  /\ failed \in [Threads -> BOOLEAN]
  /\ owned \in [Stoppers -> BOOLEAN]
Counted == tries \in 0..MaxAttempts /\ quits \in 0..Quits

Base == Placed /\ Locking /\ Queued /\ Handed /\ Filed /\ Phased /\ Observed /\ Noted /\ Counted

-------------------------------------------------------------------------------
(* The steps, by what they are about.                                      *)

Opening(t) == SpawnStarter(t) \/ Prepare(t) \/ Observe(t)
Launching(t) == Launch(t) \/ LaunchFails(t) \/ Ready(t) \/ WaitFails(t)
Publishing(t) == Vet(t) \/ Abandon(t) \/ Commit(t) \/ Check(t)
Concluding(t) ==
  \/ Leave(t) \/ Judge(t)
  \/ FinishCancelledStart(t) \/ CompleteStartSuccess(t) \/ FinalizeStartFailure(t)
Reporting(t) == SpawnStopper(t) \/ Mark(t) \/ StatusReport(t) \/ Respawn(t)
Noticing == Inspect \/ FinalizeUnexpectedExit
Outside == (\E p \in Process : Crash(p)) \/ UNCHANGED vars

\* Every step is one of them.
LEMMA Cases ==
  ASSUME [Next]_vars
  PROVE  \/ Command
         \/ \E t \in Starters : Opening(t) \/ Launching(t) \/ Publishing(t) \/ Concluding(t)
         \/ \E t \in Stoppers : Reporting(t)
         \/ \E t \in Threads : TeardownStep(t)
         \/ Noticing \/ JudgeExit \/ Outside
BY DEF Next, Step, StartStep, StopStep, Opening, Launching, Publishing, Concluding, Reporting,
       Noticing, Outside

\* What each kind of thread does.
Tidying(t) == TakeAll(t) \/ ReapAll(t)
StarterStep(t) ==
  Enter(t) \/ Opening(t) \/ Launching(t) \/ Publishing(t) \/ Concluding(t) \/ Tidying(t)
StopperStep(t) ==
  Reporting(t) \/ Invalidate(t) \/ Enter(t) \/ Tidying(t) \/ LeaveTeardown(t)
ExitStep ==
  JudgeExit \/ Invalidate(Exit) \/ Enter(Exit) \/ Tidying(Exit) \/ LeaveTeardown(Exit)
LEMMA AllCases ==
  ASSUME Placed, [Next]_vars
  PROVE  \/ \E t \in Starters : StartMixDirect(t) \/ StarterStep(t)
         \/ StopRuntime \/ QueryStatus \/ ExitRequested
         \/ \E t \in Stoppers : StopperStep(t)
         \/ Noticing \/ Tidying(Main) \/ ExitStep \/ Outside
<1>1. TeardownStep(Main) => Tidying(Main)
  BY DEF Placed, MainLabels, TeardownStep, Tidying, Enter, Invalidate, LeaveTeardown, At
<1>2. ASSUME NEW t \in Starters, TeardownStep(t) PROVE Enter(t) \/ Tidying(t)
  BY <1>2 DEF Placed, StarterLabels, TeardownStep, Tidying, Invalidate, LeaveTeardown, At
<1>3. TeardownStep(Exit) => ExitStep
  BY DEF TeardownStep, Tidying, ExitStep
<1>4. \A t \in Stoppers : TeardownStep(t) \/ Reporting(t) => StopperStep(t)
  BY DEF TeardownStep, StopperStep, Tidying
<1> QED
  BY <1>1, <1>2, <1>3, <1>4, Cases DEF Command, ExitStep, StarterStep

\* Every thread moves along its own labels.
LEMMA PlacedStep == Placed /\ [Next]_vars => Placed'
<1> SUFFICES ASSUME Placed, [Next]_vars PROVE Placed'
  OBVIOUS
<1> USE DEF Placed, MainLabels, ExitLabels, StarterLabels, StopperLabels, Labels, At, Goto
<1>1. CASE Command
  BY <1>1 DEF Command, StartMixDirect, StopRuntime, QueryStatus, ExitRequested
<1>2. ASSUME NEW t \in Starters, Opening(t) PROVE Placed'
  BY <1>2 DEF Opening, SpawnStarter, Prepare, Observe
<1>3. ASSUME NEW t \in Starters, Launching(t) PROVE Placed'
  BY <1>3 DEF Launching, Launch, LaunchFails, Ready, WaitFails
<1>4. ASSUME NEW t \in Starters, Publishing(t) PROVE Placed'
  BY <1>4 DEF Publishing, Vet, Abandon, Commit, Check
<1>5. ASSUME NEW t \in Starters, Concluding(t) PROVE Placed'
  BY <1>5 DEF Concluding, Leave, Judge, FinishCancelledStart, CompleteStartSuccess,
              FinalizeStartFailure
<1>6. ASSUME NEW t \in Stoppers, Reporting(t) PROVE Placed'
  BY <1>6 DEF Reporting, SpawnStopper, Mark, StatusReport, Respawn
<1>7. ASSUME NEW t \in Threads, TeardownStep(t) PROVE Placed'
  BY <1>7 DEF TeardownStep, Enter, TakeAll, ReapAll, Invalidate, LeaveTeardown
<1>8. CASE Noticing \/ JudgeExit \/ Outside
  BY <1>8 DEF Noticing, Inspect, FinalizeUnexpectedExit, JudgeExit, Outside, Crash, vars
<1> QED
  BY <1>1, <1>2, <1>3, <1>4, <1>5, <1>6, <1>7, <1>8, Cases

\* The lock is taken and given back where the labels say.
LEMMA LockingStep == Placed /\ Locking /\ [Next]_vars => Locking'
<1> SUFFICES ASSUME Placed, Locking, [Next]_vars PROVE Locking'
  OBVIOUS
<1> USE DEF Placed, MainLabels, ExitLabels, StarterLabels, StopperLabels, Labels, At, Goto,
            Locking, Locked
<1>1. CASE Command
  BY <1>1 DEF Command, StartMixDirect, StopRuntime, QueryStatus, ExitRequested
<1>2. ASSUME NEW t \in Starters, Opening(t) PROVE Locking'
  BY <1>2 DEF Opening, SpawnStarter, Prepare, Observe
<1>3. ASSUME NEW t \in Starters, Launching(t) PROVE Locking'
  BY <1>3 DEF Launching, Launch, LaunchFails, Ready, WaitFails
<1>4. ASSUME NEW t \in Starters, Publishing(t) PROVE Locking'
  BY <1>4 DEF Publishing, Vet, Abandon, Commit, Check
<1>5. ASSUME NEW t \in Starters, Concluding(t) PROVE Locking'
  BY <1>5 DEF Concluding, Leave, Judge, FinishCancelledStart, CompleteStartSuccess,
              FinalizeStartFailure
<1>6. ASSUME NEW t \in Stoppers, Reporting(t) PROVE Locking'
  BY <1>6 DEF Reporting, SpawnStopper, Mark, StatusReport, Respawn
<1>7. ASSUME NEW t \in Threads, TeardownStep(t) PROVE Locking'
  BY <1>7 DEF TeardownStep, Enter, TakeAll, ReapAll, Invalidate, LeaveTeardown
<1>8. CASE Noticing \/ JudgeExit \/ Outside
  BY <1>8 DEF Noticing, Inspect, FinalizeUnexpectedExit, JudgeExit, Outside, Crash, vars
<1> QED
  BY <1>1, <1>2, <1>3, <1>4, <1>5, <1>6, <1>7, <1>8, Cases

-------------------------------------------------------------------------------
(* The processes and their owners.                                         *)

\* What is left of a list once its head is done: no slot of it comes twice either,
\* and the head's does not come again.
LEMMA TailDistinct ==
  ASSUME NEW q \in Seq(Slots), q # <<>>,
         \A i, j \in 1..Len(q) : q[i] = q[j] => i = j
  PROVE  /\ Head(q) \in Slots /\ Head(q) = q[1] /\ Tail(q) \in Seq(Slots)
         /\ Len(q) # 1 => Tail(q) # <<>>
         /\ \A i, j \in 1..Len(Tail(q)) : Tail(q)[i] = Tail(q)[j] => i = j
         /\ \A i \in 1..Len(Tail(q)) : \E j \in 1..Len(q) : Tail(q)[i] = q[j] /\ q[j] # Head(q)
<1>1. Len(q) \in Nat /\ Len(q) > 0 /\ Head(q) = q[1] /\ Head(q) \in Slots
  OBVIOUS
<1>2. Tail(q) \in Seq(Slots) /\ Len(Tail(q)) = Len(q) - 1
  BY <1>1
<1>3. \A i \in 1..Len(Tail(q)) : Tail(q)[i] = q[i + 1] /\ i + 1 \in 1..Len(q) /\ i + 1 # 1
  BY <1>1, <1>2
<1>4. \A i, j \in 1..Len(Tail(q)) : Tail(q)[i] = Tail(q)[j] => i = j
  BY <1>2, <1>3
<1>5. \A i \in 1..Len(Tail(q)) : Tail(q)[i] = q[i + 1] /\ q[i + 1] # Head(q)
  BY <1>1, <1>3
<1>6. Len(q) # 1 => Tail(q) # <<>>
  BY <1>1, <1>2
<1> QED
  BY <1>1, <1>2, <1>3, <1>4, <1>5, <1>6

\* A list that is worked off still names no slot twice.
LEMMA QueuedStep == Placed /\ Queued /\ [Next]_vars => Queued'
<1> SUFFICES ASSUME Placed, Queued, [Next]_vars PROVE Queued'
  OBVIOUS
<1> USE DEF Placed, At, Goto, Before, Holding
<1>1. CASE Command
  <2>1. ASSUME NEW t \in Starters, StartMixDirect(t) PROVE Queued'
    BY <2>1 DEF StartMixDirect, Queued
  <2>2. CASE StopRuntime \/ QueryStatus \/ ExitRequested
    BY <2>2 DEF StopRuntime, QueryStatus, ExitRequested, Queued, locals, StarterLabels
  <2> QED
    BY <1>1, <2>1, <2>2 DEF Command
<1>2. ASSUME NEW t \in Starters, Opening(t) PROVE Queued'
  BY <1>2 DEF Opening, SpawnStarter, Prepare, Observe, Queued, locals
<1>3. ASSUME NEW t \in Starters, Launching(t) PROVE Queued'
  BY <1>3 DEF Launching, Launch, LaunchFails, Ready, WaitFails, Queued, locals
<1>4. ASSUME NEW t \in Starters, Vet(t) \/ Abandon(t) \/ Check(t) PROVE Queued'
  BY <1>4 DEF Vet, Abandon, Check, Queued, locals
<1>5. ASSUME NEW t \in Starters, Commit(t) PROVE Queued'
  <2>1. todo[t] # <<>> /\ todo[t] \in Seq(Slots)
    BY <1>5 DEF Commit, Queued
  <2>2. todo' = [todo EXCEPT ![t] = Tail(todo[t])]
    BY <1>5 DEF Commit
  <2>3. \A i, j \in 1..Len(todo[t]) : todo[t][i] = todo[t][j] => i = j
    BY DEF Queued
  <2>4. /\ Tail(todo[t]) \in Seq(Slots)
        /\ Len(todo[t]) # 1 => Tail(todo[t]) # <<>>
        /\ \A i, j \in 1..Len(Tail(todo[t])) : Tail(todo[t])[i] = Tail(todo[t])[j] => i = j
    BY <2>1, <2>3, TailDistinct
  <2>5. pc' = [pc EXCEPT ![t] = IF Len(todo[t]) = 1 THEN "check" ELSE "launch"]
    BY <1>5 DEF Commit
  <2> QED
    BY <2>2, <2>4, <2>5 DEF Queued
<1>6. ASSUME NEW t \in Starters, Concluding(t) PROVE Queued'
  BY <1>6 DEF Concluding, Leave, Judge, FinishCancelledStart, CompleteStartSuccess,
              FinalizeStartFailure, Queued, locals
<1>7. ASSUME NEW t \in Stoppers, Reporting(t) PROVE Queued'
  BY <1>7 DEF Reporting, SpawnStopper, Mark, StatusReport, Respawn, Queued, locals
<1>8. ASSUME NEW t \in Threads, TeardownStep(t) PROVE Queued'
  <2>1. todo' = todo
    BY <1>8 DEF TeardownStep, Enter, TakeAll, ReapAll, Invalidate, LeaveTeardown, locals
  <2>2. \A u \in Starters : pc'[u] \in Before \cup Holding \cup {"launch"} =>
                            pc[u] \in Before \cup Holding \cup {"launch"}
    <3>1. \A u \in Threads \ {t} : pc'[u] = pc[u]
      BY <1>8 DEF TeardownStep, Enter, TakeAll, ReapAll, Invalidate, LeaveTeardown
    <3>2. t \in Starters => pc[t] = "enter" \/ pc'[t] \notin Before \cup Holding \cup {"launch"}
      BY <1>8 DEF TeardownStep, Enter, TakeAll, ReapAll, Invalidate, LeaveTeardown, StarterLabels
    <3> QED
      BY <3>1, <3>2
  <2> QED
    BY <2>1, <2>2 DEF Queued
<1>9. CASE Noticing \/ JudgeExit \/ Outside
  BY <1>9 DEF Noticing, Inspect, FinalizeUnexpectedExit, JudgeExit, Outside, Crash, vars,
              Queued, locals
<1> QED
  BY <1>1, <1>2, <1>3, <1>4, <1>5, <1>6, <1>7, <1>8, <1>9, Cases DEF Publishing

\* Putting back processes of different slots restores each to its own.
LEMMA PutBackFiles ==
  ASSUME NEW kept \in SUBSET Process,
         \A p, q \in kept : p[1] = q[1] => p = q
  PROVE  /\ PutBack(kept) \in [Slots -> Process \cup {None}]
         /\ \A s \in Slots : PutBack(kept)[s] # None =>
              PutBack(kept)[s] \in kept /\ PutBack(kept)[s][1] = s
         /\ \A p \in kept : p[1] \in Slots /\ PutBack(kept)[p[1]] = p
<1>1. ASSUME NEW s \in Slots, NEW p \in kept, p[1] = s
      PROVE  PutBack(kept)[s] = p
  <2>1. (CHOOSE q \in kept : q[1] = s) = p
    BY <1>1
  <2> QED
    BY <1>1, <2>1 DEF PutBack
<1>2. ASSUME NEW s \in Slots, ~\E p \in kept : p[1] = s
      PROVE  PutBack(kept)[s] = None
  BY <1>2 DEF PutBack
<1>3. PutBack(kept) = [s \in Slots |-> PutBack(kept)[s]]
  BY DEF PutBack
<1>4. \A p \in kept : p \in Process /\ p[1] \in Slots
  BY DEF Process
<1>5. \A s \in Slots : PutBack(kept)[s] \in Process \cup {None}
  BY <1>1, <1>2, <1>4
<1> QED
  BY <1>1, <1>2, <1>3, <1>4, <1>5


\* A thread that has left its process behind has an empty hand; the others are where
\* they were.
LEMMA SetsAside ==
  ASSUME Placed, Queued, NEW t \in Starters, WaitFails(t) \/ Abandon(t) \/ Commit(t)
  PROVE  /\ hand' = [hand EXCEPT ![t] = {}]
         /\ pc[t] \in Holding /\ pc'[t] \in {"launch", "check", "take", "unlock"}
         /\ \A u \in Threads \ {t} : pc'[u] = pc[u]
         /\ \A u \in Starters \ {t} : todo'[u] = todo[u]
<1>1. CASE WaitFails(t)
  BY <1>1 DEF WaitFails, Placed, At, Goto, Holding
<1>2. CASE Abandon(t)
  BY <1>2 DEF Abandon, Placed, At, Goto, Holding
<1>3. CASE Commit(t)
  BY <1>3 DEF Commit, Placed, At, Goto, Holding, Queued
<1> QED
  BY <1>1, <1>2, <1>3

\* A thread holds what it starts or stops, and nothing else.
LEMMA HandedStep == Placed /\ Queued /\ Handed /\ Filed /\ [Next]_vars => Handed'
<1> SUFFICES ASSUME Placed, Queued, Handed, Filed, [Next]_vars PROVE Handed'
  OBVIOUS
<1> USE DEF Placed, At, Goto, Holding
<1>1. CASE Command
  <2>1. ASSUME NEW t \in Starters, StartMixDirect(t) PROVE Handed'
    <3>1. /\ hand' = hand
          /\ \A u \in Threads : pc'[u] # pc[u] => pc'[u] \in {"start", "accepted"}
          /\ \A u \in Threads : pc[u] # pc'[u] => pc[u] \in {"idle", "unborn"}
          /\ \A u \in Starters : pc'[u] = pc[u] => todo'[u] = todo[u]
      BY <2>1 DEF StartMixDirect, procs, Queued
    <3> QED
      BY <3>1 DEF Handed
  <2>2. CASE StopRuntime \/ QueryStatus \/ ExitRequested
    BY <2>2 DEF StopRuntime, QueryStatus, ExitRequested, Handed, procs, locals, ExitLabels
  <2> QED
    BY <1>1, <2>1, <2>2 DEF Command
<1>2. ASSUME NEW t \in Starters, Opening(t) PROVE Handed'
  BY <1>2 DEF Opening, SpawnStarter, Prepare, Observe, Handed, procs, locals, MainLabels
<1>3. ASSUME NEW t \in Starters, Launching(t) PROVE Handed'
  <2>1. CASE Launch(t)
    <3>1. todo[t] # <<>> /\ todo[t] \in Seq(Slots)
      BY <2>1 DEF Launch, Queued
    <3>2. Head(todo[t]) \in Slots
      BY <3>1
    <3>3. <<Head(todo[t]), t>> \in Process
      BY <3>2 DEF Process
    <3> QED
      BY <2>1, <3>3 DEF Launch, Handed, locals
  <2>2. CASE LaunchFails(t) \/ Ready(t)
    BY <2>2 DEF LaunchFails, Ready, Handed, procs, locals
  <2>3. CASE WaitFails(t)
    BY <2>3, SetsAside DEF Handed
  <2> QED
    BY <1>3, <2>1, <2>2, <2>3 DEF Launching
<1>4. ASSUME NEW t \in Starters, Publishing(t) PROVE Handed'
  <2>1. CASE Vet(t) \/ Check(t)
    BY <2>1 DEF Vet, Check, Handed, procs, locals
  <2>2. CASE Abandon(t) \/ Commit(t)
    BY <2>2, SetsAside DEF Handed
  <2> QED
    BY <1>4, <2>1, <2>2 DEF Publishing
<1>5. ASSUME NEW t \in Starters, Concluding(t) PROVE Handed'
  BY <1>5 DEF Concluding, Leave, Judge, FinishCancelledStart, CompleteStartSuccess,
              FinalizeStartFailure, Handed, procs, locals
<1>6. ASSUME NEW t \in Stoppers, Reporting(t) PROVE Handed'
  BY <1>6 DEF Reporting, SpawnStopper, Mark, StatusReport, Respawn, Handed, procs, locals,
              MainLabels
<1>7. ASSUME NEW t \in Threads, TeardownStep(t) PROVE Handed'
  <2>1. CASE TakeAll(t)
    <3>1. Slotted \in SUBSET Process /\ \A p, q \in Slotted : p[1] = q[1] => p = q
      BY DEF Slotted, Filed
    <3>2. hand' = [hand EXCEPT ![t] = Slotted] /\ pc' = [pc EXCEPT ![t] = "reap"]
      BY <2>1 DEF TakeAll
    <3>3. todo' = todo
      BY <2>1 DEF TakeAll, locals
    <3> QED
      BY <3>1, <3>2, <3>3 DEF Handed
  <2>2. CASE Enter(t) \/ ReapAll(t) \/ Invalidate(t) \/ LeaveTeardown(t)
    BY <2>2 DEF Enter, ReapAll, Invalidate, LeaveTeardown, Handed, procs, locals
  <2> QED
    BY <1>7, <2>1, <2>2 DEF TeardownStep
<1>8. CASE Noticing \/ JudgeExit \/ Outside
  BY <1>8 DEF Noticing, Inspect, FinalizeUnexpectedExit, JudgeExit, Outside, Crash, vars,
              Handed, procs, locals
<1> QED
  BY <1>1, <1>2, <1>3, <1>4, <1>5, <1>6, <1>7, <1>8, Cases

\* Every process goes to the slot of its kind, and back there if it cannot be stopped.
LEMMA FiledStep ==
  Placed /\ Locking /\ Queued /\ Handed /\ Filed /\ [Next]_vars => Filed'
<1> SUFFICES ASSUME Placed, Locking, Queued, Handed, Filed, [Next]_vars PROVE Filed'
  OBVIOUS
<1> USE DEF Placed, At, Goto, Holding
<1>1. CASE Command
  BY <1>1 DEF Command, StartMixDirect, StopRuntime, QueryStatus, ExitRequested, Filed, procs,
              MainLabels, ExitLabels
<1>2. ASSUME NEW t \in Starters, Opening(t) PROVE Filed'
  BY <1>2 DEF Opening, SpawnStarter, Prepare, Observe, Filed, procs, MainLabels
<1>3. ASSUME NEW t \in Starters, Launching(t) \/ Publishing(t) PROVE Filed'
  <2>1. CASE Launch(t)
    <3>1. todo[t] # <<>> /\ todo[t] \in Seq(Slots)
      BY <2>1 DEF Launch, Queued
    <3>2. Head(todo[t]) \in Slots
      BY <3>1
    <3>3. <<Head(todo[t]), t>> \in Process
      BY <3>2 DEF Process
    <3> QED
      BY <2>1, <3>3 DEF Launch, Filed
  <2>2. CASE LaunchFails(t) \/ Ready(t) \/ Vet(t) \/ Check(t)
    BY <2>2 DEF LaunchFails, Ready, Vet, Check, Filed, procs
  <2>3. ASSUME pc[t] \in Holding, NEW p \in hand[t]
        PROVE  /\ \A s \in Slots : [slot EXCEPT ![p[1]] = p][s] # None =>
                    [slot EXCEPT ![p[1]] = p][s][1] = s
               /\ [slot EXCEPT ![p[1]] = p] \in [Slots -> Process \cup {None}]
               /\ \A u \in Threads : pc[u] # "reap"
    <3>1. p \in Process /\ p[1] \in Slots
      BY <2>3 DEF Handed, Process
    <3>2. \A u \in Threads : pc[u] # "reap"
      BY <2>3 DEF Locking, Locked
    <3> QED
      BY <3>1, <3>2 DEF Filed
  <2>4. CASE WaitFails(t) \/ Abandon(t) \/ Commit(t)
    <3>1. pc[t] \in Holding
      BY <2>4 DEF WaitFails, Abandon, Commit
    <3>2. PICK p \in hand[t] : slot' \in {slot, [slot EXCEPT ![p[1]] = p]}
      BY <2>4 DEF WaitFails, Abandon, Commit, Adopt
    <3>3. alive' \subseteq alive /\ pc'[t] # "reap" /\ \A u \in Threads \ {t} : pc'[u] = pc[u]
      BY <2>4 DEF WaitFails, Abandon, Commit
    <3> QED
      BY <2>3, <3>1, <3>2, <3>3 DEF Filed
  <2> QED
    BY <1>3, <2>1, <2>2, <2>4 DEF Launching, Publishing
<1>4. ASSUME NEW t \in Starters, Concluding(t) PROVE Filed'
  BY <1>4 DEF Concluding, Leave, Judge, FinishCancelledStart, CompleteStartSuccess,
              FinalizeStartFailure, Filed, procs
<1>5. ASSUME NEW t \in Stoppers, Reporting(t) PROVE Filed'
  BY <1>5 DEF Reporting, SpawnStopper, Mark, StatusReport, Respawn, Filed, procs, MainLabels
<1>6. ASSUME NEW t \in Threads, TeardownStep(t) PROVE Filed'
  <2>1. CASE TakeAll(t)
    BY <2>1 DEF TakeAll, Filed
  <2>2. CASE ReapAll(t)
    <3>1. PICK kept \in SUBSET hand[t] : slot' = PutBack(kept)
      BY <2>2 DEF ReapAll
    <3>2. kept \in SUBSET Process /\ \A p, q \in kept : p[1] = q[1] => p = q
      BY <2>2 DEF ReapAll, Handed
    <3>3. \A u \in Threads : pc'[u] # "reap"
      BY <2>2 DEF ReapAll, Locking, Locked
    <3>4. alive' \subseteq alive
      BY <2>2 DEF ReapAll
    <3> QED
      BY <3>1, <3>2, <3>3, <3>4, PutBackFiles DEF Filed
  <2>3. CASE Enter(t) \/ Invalidate(t) \/ LeaveTeardown(t)
    BY <2>3 DEF Enter, Invalidate, LeaveTeardown, Filed, procs
  <2> QED
    BY <1>6, <2>1, <2>2, <2>3 DEF TeardownStep
<1>7. CASE Noticing
  BY <1>7 DEF Noticing, Inspect, FinalizeUnexpectedExit, Filed, Slots, procs
<1>8. CASE JudgeExit \/ Outside
  BY <1>8 DEF JudgeExit, Outside, Crash, vars, Filed, procs
<1> QED
  BY <1>1, <1>2, <1>3, <1>4, <1>5, <1>6, <1>7, <1>8, Cases

-------------------------------------------------------------------------------
(* The other variables have their types.                                   *)

\* Phase, status and lock keep their values.
LEMMA PhasedStep == Phased /\ [Next]_vars => Phased'
<1> SUFFICES ASSUME Phased, [Next]_vars PROVE Phased'
  OBVIOUS
<1> USE DEF Phased, At
<1>1. CASE Command
  <2>1. ASSUME NEW t \in Starters, StartMixDirect(t) PROVE Phased'
    BY <2>1 DEF StartMixDirect, BeginStart, ending
  <2>2. CASE StopRuntime \/ QueryStatus \/ ExitRequested
    BY <2>2 DEF StopRuntime, QueryStatus, ExitRequested, life, ending
  <2> QED
    BY <1>1, <2>1, <2>2 DEF Command
<1>2. ASSUME NEW t \in Starters, Opening(t) PROVE Phased'
  BY <1>2 DEF Opening, SpawnStarter, Prepare, Observe, life, ending
<1>3. ASSUME NEW t \in Starters, Launching(t) PROVE Phased'
  BY <1>3 DEF Launching, Launch, LaunchFails, Ready, WaitFails, life, ending
<1>4. ASSUME NEW t \in Starters, Publishing(t) PROVE Phased'
  BY <1>4 DEF Publishing, Vet, Abandon, Commit, Check, life, ending
<1>5. ASSUME NEW t \in Starters, Concluding(t) PROVE Phased'
  BY <1>5 DEF Concluding, Leave, Judge, FinishCancelledStart, CompleteStartSuccess,
              FinalizeStartFailure, life, ending
<1>6. ASSUME NEW t \in Stoppers, Reporting(t) PROVE Phased'
  BY <1>6 DEF Reporting, SpawnStopper, Mark, StatusReport, Respawn, life, ending
<1>7. ASSUME NEW t \in Threads, TeardownStep(t) PROVE Phased'
  BY <1>7 DEF TeardownStep, Enter, TakeAll, ReapAll, Invalidate, LeaveTeardown, life, ending
<1>8. CASE Noticing \/ JudgeExit \/ Outside
  BY <1>8 DEF Noticing, Inspect, FinalizeUnexpectedExit, JudgeExit, Outside, Crash, vars, life,
              ending
<1> QED
  BY <1>1, <1>2, <1>3, <1>4, <1>5, <1>6, <1>7, <1>8, Cases

\* Whatever the thread does to the poller, the record keeps its type.
LEMMA PollerTyped ==
  ASSUME Observed, NEW t \in Threads,
         \/ NewMetricsGeneration(t) \/ RestartObservers(t) \/ UNCHANGED metrics
         \/ metrics' = [by |-> t, polled |-> TRUE]
         \/ \E b \in BOOLEAN : metrics' = [metrics EXCEPT !.polled = b]
  PROVE  metrics' \in [by : Threads \cup {None}, polled : BOOLEAN]
<1>1. \A b \in BOOLEAN : [by |-> t, polled |-> b] \in [by : Threads \cup {None}, polled : BOOLEAN]
  OBVIOUS
<1>2. ASSUME NEW b \in BOOLEAN, metrics' = [metrics EXCEPT !.polled = b]
      PROVE  metrics' \in [by : Threads \cup {None}, polled : BOOLEAN]
  BY <1>2 DEF Observed
<1> QED
  BY <1>1, <1>2 DEF NewMetricsGeneration, RestartObservers, Observed

\* There is one session, and a poller carries the number of a thread.
LEMMA ObservedStep == Observed /\ [Next]_vars => Observed'
<1> SUFFICES ASSUME Observed, [Next]_vars PROVE Observed'
  OBVIOUS
<1>0. Main \in Threads /\ session \in Starters \cup {None}
  BY DEF Observed
<1>1. CASE Command
  BY <1>1 DEF Command, StartMixDirect, StopRuntime, QueryStatus, ExitRequested, observers, Observed
<1>2. ASSUME NEW t \in Starters, Opening(t) PROVE Observed'
  <2>1. \/ NewMetricsGeneration(t) \/ UNCHANGED metrics
        \/ \E b \in BOOLEAN : metrics' = [metrics EXCEPT !.polled = b]
    <3>1. CASE SpawnStarter(t) \/ Prepare(t)
      BY <3>1 DEF SpawnStarter, Prepare, observers
    <3>2. CASE Observe(t)
      <4>1. (metrics.polled \/ metrics.by = t) \in BOOLEAN
        OBVIOUS
      <4> QED
        BY <3>2, <4>1 DEF Observe, observers
    <3> QED
      BY <1>2, <3>1, <3>2 DEF Opening
  <2>2. session' \in {session, t}
    BY <1>2 DEF Opening, SpawnStarter, Prepare, Observe, observers
  <2> QED
    BY <1>0, <2>1, <2>2, PollerTyped DEF Observed
<1>3. ASSUME NEW t \in Starters, Launching(t) \/ Publishing(t) PROVE Observed'
  BY <1>3 DEF Launching, Launch, LaunchFails, Ready, WaitFails, Publishing, Vet, Abandon, Commit,
              Check, observers, Observed
<1>4. ASSUME NEW t \in Starters, Concluding(t) PROVE Observed'
  <2>1. NewMetricsGeneration(t) \/ RestartObservers(t) \/ UNCHANGED metrics
    BY <1>4 DEF Concluding, Leave, Judge, FinishCancelledStart, CompleteStartSuccess,
                FinalizeStartFailure, observers
  <2>2. session' \in {session, None}
    BY <1>4 DEF Concluding, Leave, Judge, FinishCancelledStart, CompleteStartSuccess,
                FinalizeStartFailure, observers
  <2> QED
    BY <1>0, <2>1, <2>2, PollerTyped DEF Observed
<1>5. ASSUME NEW t \in Stoppers, Reporting(t) PROVE Observed'
  <2>1. /\ UNCHANGED metrics \/ metrics' = [by |-> t, polled |-> TRUE]
        /\ session' = session
    BY <1>5 DEF Reporting, SpawnStopper, Mark, StatusReport, Respawn, observers
  <2> QED
    BY <1>0, <2>1, PollerTyped DEF Observed
<1>6. ASSUME NEW t \in Threads, TeardownStep(t) PROVE Observed'
  <2>1. /\ NewMetricsGeneration(t) \/ UNCHANGED metrics
        /\ session' \in {session, None}
    BY <1>6 DEF TeardownStep, Enter, TakeAll, ReapAll, Invalidate, LeaveTeardown, observers
  <2> QED
    BY <1>0, <2>1, PollerTyped DEF Observed
<1>7. CASE Noticing
  <2>1. /\ NewMetricsGeneration(Main) \/ RestartObservers(Main) \/ UNCHANGED metrics
        /\ session' \in {session, None}
    BY <1>7 DEF Noticing, Inspect, FinalizeUnexpectedExit, observers
  <2> QED
    BY <1>0, <2>1, PollerTyped DEF Observed
<1>8. CASE JudgeExit \/ Outside
  BY <1>8 DEF JudgeExit, Outside, Crash, vars, observers, Observed
<1> QED
  BY <1>1, <1>2, <1>3, <1>4, <1>5, <1>6, <1>7, <1>8, Cases

\* What the threads note stays of its type.
LEMMA NotedStep == Phased /\ Noted /\ [Next]_vars => Noted'
<1> SUFFICES ASSUME Phased, Noted, [Next]_vars PROVE Noted'
  OBVIOUS
<1>1. CASE Command
  <2>1. ASSUME NEW t \in Starters, StartMixDirect(t) PROVE Noted'
    <3>1. generation + 1 \in Nat
      BY DEF Phased
    <3> QED
      BY <2>1, <3>1 DEF StartMixDirect, BeginStart, Noted
  <2>2. CASE StopRuntime \/ QueryStatus \/ ExitRequested
    BY <2>2 DEF StopRuntime, QueryStatus, ExitRequested, locals, Noted
  <2> QED
    BY <1>1, <2>1, <2>2 DEF Command
<1>2. ASSUME NEW t \in Threads, NEW b \in BOOLEAN,
             failed' \in {failed, [failed EXCEPT ![t] = b]}, UNCHANGED <<ticket, owned>>
      PROVE  Noted'
  BY <1>2 DEF Noted
<1>3. ASSUME NEW t \in Starters,
             Opening(t) \/ Launching(t) \/ Publishing(t) \/ Concluding(t)
      PROVE  Noted'
  <2>1. failed' \in {failed, [failed EXCEPT ![t] = TRUE]} /\ UNCHANGED <<ticket, owned>>
    BY <1>3 DEF Opening, SpawnStarter, Prepare, Observe, Launching, Launch, LaunchFails, Ready,
                WaitFails, Publishing, Vet, Abandon, Commit, Check, Concluding, Leave, Judge,
                FinishCancelledStart, CompleteStartSuccess, FinalizeStartFailure, locals
  <2> QED
    BY <1>2, <2>1
<1>4. ASSUME NEW t \in Stoppers, Reporting(t) PROVE Noted'
  <2>1. (failed[t] /\ FailureKeepsRunning) \in BOOLEAN
    BY DEF Noted
  <2>2. UNCHANGED <<ticket, failed>>
    BY <1>4 DEF Reporting, SpawnStopper, Mark, StatusReport, Respawn, locals
  <2>3. owned' \in {owned, [owned EXCEPT ![t] = failed[t] /\ FailureKeepsRunning]}
    BY <1>4 DEF Reporting, SpawnStopper, Mark, StatusReport, Respawn, locals
  <2> QED
    BY <2>1, <2>2, <2>3 DEF Noted
<1>5. ASSUME NEW t \in Threads, TeardownStep(t) PROVE Noted'
  <2>1. CASE ReapAll(t)
    <3>1. PICK b \in BOOLEAN : failed' = [failed EXCEPT ![t] = b]
      <4>1. PICK kept : failed' = [failed EXCEPT ![t] = IF t \in Starters THEN failed[t]
                                                        ELSE kept # {}]
        BY <2>1 DEF ReapAll
      <4>2. (IF t \in Starters THEN failed[t] ELSE kept # {}) \in BOOLEAN
        BY DEF Noted
      <4> QED
        BY <4>1, <4>2
    <3> QED
      BY <1>2, <2>1, <3>1 DEF ReapAll
  <2>2. CASE Enter(t) \/ TakeAll(t) \/ Invalidate(t) \/ LeaveTeardown(t)
    BY <2>2 DEF Enter, TakeAll, Invalidate, LeaveTeardown, locals, Noted
  <2> QED
    BY <1>5, <2>1, <2>2 DEF TeardownStep
<1>6. CASE Noticing \/ JudgeExit \/ Outside
  BY <1>6 DEF Noticing, Inspect, FinalizeUnexpectedExit, JudgeExit, Outside, Crash, vars,
              locals, Noted
<1> QED
  BY <1>1, <1>3, <1>4, <1>5, <1>6, Cases

\* Quits and attempts to clean up stay within their bounds.
LEMMA CountedStep == Counted /\ [Next]_vars => Counted'
<1> SUFFICES ASSUME Counted, [Next]_vars PROVE Counted'
  OBVIOUS
<1> USE DEF Counted
<1>1. CASE Command
  BY <1>1 DEF Command, StartMixDirect, StopRuntime, QueryStatus, ExitRequested, locals, ending
<1>2. ASSUME NEW t \in Starters,
             Opening(t) \/ Launching(t) \/ Publishing(t) \/ Concluding(t)
      PROVE  Counted'
  BY <1>2 DEF Opening, SpawnStarter, Prepare, Observe, Launching, Launch, LaunchFails, Ready,
              WaitFails, Publishing, Vet, Abandon, Commit, Check, Concluding, Leave, Judge,
              FinishCancelledStart, CompleteStartSuccess, FinalizeStartFailure, locals, ending
<1>3. ASSUME NEW t \in Stoppers, Reporting(t) PROVE Counted'
  BY <1>3 DEF Reporting, SpawnStopper, Mark, StatusReport, Respawn, locals, ending
<1>4. ASSUME NEW t \in Threads, TeardownStep(t) PROVE Counted'
  BY <1>4 DEF TeardownStep, Enter, TakeAll, ReapAll, Invalidate, LeaveTeardown, locals, ending
<1>5. CASE Noticing \/ JudgeExit \/ Outside
  BY <1>5 DEF Noticing, Inspect, FinalizeUnexpectedExit, JudgeExit, Outside, Crash, vars,
              locals, ending
<1> QED
  BY <1>1, <1>2, <1>3, <1>4, <1>5, Cases

\* Nothing is under way at first.
LEMMA InitBase == Init => Base
<1> SUFFICES ASSUME Init PROVE Base
  OBVIOUS
<1>1. Placed
  BY DEF Init, Placed, Labels, MainLabels, ExitLabels, StarterLabels, StopperLabels
<1>2. Locking
  BY DEF Init, Locking, Locked
<1>3. Queued
  BY DEF Init, Queued, Before, Holding
<1>6. Handed
  BY DEF Init, Handed, Holding
<1>4. Filed /\ Counted
  BY DEF Init, Filed, Counted
<1>5. Phased /\ Observed /\ Noted
  BY DEF Init, Phased, Observed, Noted
<1> QED
  BY <1>1, <1>2, <1>3, <1>4, <1>5, <1>6 DEF Base

\* Every step keeps what holds of every instance.
LEMMA BaseStep == Base /\ [Next]_vars => Base'
BY PlacedStep, LockingStep, QueuedStep, HandedStep, FiledStep, PhasedStep, ObservedStep,
   NotedStep, CountedStep DEF Base

\* Base holds whatever the user does and whatever fails.
THEOREM BaseHolds == Spec => []Base
<1> QED
  BY InitBase, BaseStep, PTL DEF Spec

\* Types of the host's lifecycle: every variable has its type in every instance.
THEOREM LifecycleTypeCorrect == Spec => []TypeOK
<1>1. Base => TypeOK
  BY DEF Base, TypeOK, Placed, Queued, Handed, Filed, Phased, Observed, Noted,
         Counted
<1> QED
  BY <1>1, BaseHolds, PTL

\* gateway_transition is a lock: no two threads are between taking it and giving it
\* back at once, whichever of them start, stop, clean up or quit.
THEOREM OneTransaction ==
  Spec => [](\A t, u \in Threads : pc[t] \in Locked /\ pc[u] \in Locked => t = u)
<1>1. Base => \A t, u \in Threads : pc[t] \in Locked /\ pc[u] \in Locked => t = u
  BY DEF Base, Locking
<1> QED
  BY <1>1, BaseHolds, PTL

-------------------------------------------------------------------------------
(* What a step leaves alone.                                               *)

\* Where a stop is on its way, or is tearing down or has just done so.
Stopping == {"spawned", "enter", "take", "reap", "unlock", "mark"}
Tearing == {"take", "reap", "unlock", "mark"}

\* Where a start is in its transaction, and where it has succeeded.
Inside == {"observe", "launch", "wait", "vet", "abandon", "commit", "check", "take", "reap"}
Succeeding(t) == pc[t] = "check" \/ (pc[t] \in {"unlock", "judge", "publish"} /\ ~failed[t])

\* A worker is under way.
Active(t) == ~Ended(t)

\* The steps that touch a process, and all the others.
Handling(t) == WaitFails(t) \/ Abandon(t) \/ Commit(t)
LEMMA ProcsKept ==
  ASSUME [Next]_vars
  PROVE  \/ UNCHANGED procs
         \/ \E t \in Starters : Launch(t) \/ Handling(t)
         \/ \E t \in Threads : Tidying(t)
         \/ Inspect \/ \E p \in Process : Crash(p)
<1>1. Command => UNCHANGED procs
  BY DEF Command, StartMixDirect, StopRuntime, QueryStatus, ExitRequested
<1>2. ASSUME NEW t \in Starters, Opening(t) \/ LaunchFails(t) \/ Ready(t) \/ Vet(t) \/ Check(t)
      PROVE  UNCHANGED procs
  BY <1>2 DEF Opening, SpawnStarter, Prepare, Observe, LaunchFails, Ready, Vet, Check
<1>3. ASSUME NEW t \in Starters, Concluding(t) PROVE UNCHANGED procs
  BY <1>3 DEF Concluding, Leave, Judge, FinishCancelledStart, CompleteStartSuccess,
              FinalizeStartFailure
<1>4. ASSUME NEW t \in Stoppers, Reporting(t) PROVE UNCHANGED procs
  BY <1>4 DEF Reporting, SpawnStopper, Mark, StatusReport, Respawn
<1>5. ASSUME NEW t \in Threads, Enter(t) \/ Invalidate(t) \/ LeaveTeardown(t)
      PROVE  UNCHANGED procs
  BY <1>5 DEF Enter, Invalidate, LeaveTeardown
<1>6. FinalizeUnexpectedExit \/ JudgeExit \/ UNCHANGED vars => UNCHANGED procs
  BY DEF FinalizeUnexpectedExit, JudgeExit, vars
<1> QED
  BY <1>1, <1>2, <1>3, <1>4, <1>5, <1>6, Cases
     DEF Launching, Publishing, TeardownStep, Noticing, Outside, Handling, Tidying

\* What a start does with the process in its hand: it leaves the hand, for its slot or
\* for good, and nothing else moves.
LEMMA HandlingMoves ==
  ASSUME Base, NEW t \in Starters, Handling(t)
  PROVE  \E p \in Process :
           /\ hand[t] = {p} /\ hand' = [hand EXCEPT ![t] = {}]
           /\ p[1] = todo[t][1] /\ p[1] \in Slots /\ p[2] = t /\ 1 \in 1..Len(todo[t])
           /\ slot' = [slot EXCEPT ![p[1]] = p] \/ slot' = slot
           /\ alive' = alive \/ alive' = alive \ {p}
           /\ slot[p[1]] = None => slot' = [slot EXCEPT ![p[1]] = p] \/ p \notin alive'
           /\ Commit(t) => slot' = [slot EXCEPT ![p[1]] = p]
<1>1. pc[t] \in Holding
  BY DEF Handling, WaitFails, Abandon, Commit, At, Holding
<1>2. todo[t] # <<>> /\ todo[t] \in Seq(Slots)
  BY <1>1 DEF Base, Queued
<1>3. Head(todo[t]) = todo[t][1] /\ Head(todo[t]) \in Slots /\ 1 \in 1..Len(todo[t])
  BY <1>2
<1>4. hand[t] = {<<Head(todo[t]), t>>}
  BY <1>1 DEF Base, Handed
<1> DEFINE p == <<Head(todo[t]), t>>
<1>5. p \in Process /\ p[1] = todo[t][1] /\ p[2] = t
  BY <1>3 DEF Process
<1>6. hand' = [hand EXCEPT ![t] = {}]
  BY SetsAside DEF Handling, Base
<1>7. /\ slot' = [slot EXCEPT ![p[1]] = p] \/ slot' = slot
      /\ alive' = alive \/ alive' = alive \ {p}
      /\ slot[p[1]] = None => slot' = [slot EXCEPT ![p[1]] = p] \/ p \notin alive'
      /\ Commit(t) => slot' = [slot EXCEPT ![p[1]] = p]
  <2>1. CASE WaitFails(t)
    <3>1. ~Commit(t)
      BY <2>1 DEF WaitFails, Commit, At
    <3>2. PICK leftover \in BOOLEAN :
            Adopt(p, leftover) /\ alive' = IF leftover THEN alive ELSE alive \ {p}
      BY <2>1, <1>4 DEF WaitFails
    <3> QED
      BY <3>1, <3>2 DEF Adopt
  <2>2. CASE Abandon(t)
    <3>1. ~Commit(t)
      BY <2>2 DEF Abandon, Commit, At
    <3>2. PICK leftover \in BOOLEAN :
            /\ slot' = IF leftover THEN [slot EXCEPT ![p[1]] = p] ELSE slot
            /\ alive' = IF leftover THEN alive ELSE alive \ {p}
      BY <2>2, <1>4 DEF Abandon
    <3> QED
      BY <3>1, <3>2
  <2>3. CASE Commit(t)
    BY <2>3, <1>4 DEF Commit
  <2> QED
    BY <2>1, <2>2, <2>3 DEF Handling
<1> QED
  BY <1>3, <1>4, <1>5, <1>6, <1>7

\* A teardown takes what the slots own ...
LEMMA TakingMoves ==
  ASSUME Base, NEW t \in Threads, TakeAll(t)
  PROVE  /\ hand[t] = {} /\ hand' = [hand EXCEPT ![t] = Slotted]
         /\ slot' = [s \in Slots |-> None] /\ alive' = alive
BY DEF TakeAll, At, Base, Handed, Holding

\* ... and puts back what it could not stop.
LEMMA ReapingMoves ==
  ASSUME Base, NEW t \in Threads, ReapAll(t)
  PROVE  \E kept \in SUBSET hand[t] :
           /\ alive' = alive \ (hand[t] \ kept)
           /\ hand' = [hand EXCEPT ![t] = {}]
           /\ failed' = [failed EXCEPT ![t] = IF t \in Starters THEN failed[t] ELSE kept # {}]
           /\ slot' \in [Slots -> Process \cup {None}]
           /\ \A s \in Slots : slot[s] = None
           /\ \A s \in Slots : slot'[s] # None => slot'[s] \in kept
           /\ \A p \in kept : p[1] \in Slots /\ slot'[p[1]] = p
<1>1. PICK kept \in SUBSET hand[t] :
        /\ alive' = alive \ (hand[t] \ kept)
        /\ slot' = PutBack(kept)
        /\ hand' = [hand EXCEPT ![t] = {}]
        /\ failed' = [failed EXCEPT ![t] = IF t \in Starters THEN failed[t] ELSE kept # {}]
  BY DEF ReapAll
<1>2. pc[t] = "reap"
  BY DEF ReapAll, At
<1>3. kept \in SUBSET Process /\ \A p, q \in kept : p[1] = q[1] => p = q
  BY <1>2 DEF Base, Handed
<1>4. \A s \in Slots : slot[s] = None
  BY <1>2 DEF Base, Filed
<1> QED
  BY <1>1, <1>3, <1>4, PutBackFiles

\* What a step does to the place and the list of a start that is another's.
LEMMA StarterKept ==
  ASSUME Base, [Next]_vars, NEW t \in Starters
  PROVE  \/ pc'[t] = pc[t] /\ todo'[t] = todo[t] /\ failed'[t] = failed[t]
         \/ StartMixDirect(t)
         \/ StarterStep(t)
<1> USE DEF Base, Placed, Queued, Noted, At, Goto, locals
<1>1. ASSUME NEW u \in Starters, StartMixDirect(u)
      PROVE  u = t \/ (pc'[t] = pc[t] /\ todo'[t] = todo[t] /\ failed'[t] = failed[t])
  BY <1>1 DEF StartMixDirect
<1>2. ASSUME NEW u \in Starters, StarterStep(u)
      PROVE  u = t \/ (pc'[t] = pc[t] /\ todo'[t] = todo[t] /\ failed'[t] = failed[t])
  <2>1. u # t => pc'[t] = pc[t] /\ todo'[t] = todo[t]
    BY <1>2 DEF StarterStep, Enter, Opening, SpawnStarter, Prepare, Observe, Launching, Launch,
       LaunchFails, Ready, WaitFails, Publishing, Vet, Abandon, Commit, Check, Concluding, Leave,
       Judge, FinishCancelledStart, CompleteStartSuccess, FinalizeStartFailure, Tidying, TakeAll,
       ReapAll
  <2>2. u # t => failed'[t] = failed[t]
    BY <1>2 DEF StarterStep, Enter, Opening, SpawnStarter, Prepare, Observe, Launching, Launch,
       LaunchFails, Ready, WaitFails, Publishing, Vet, Abandon, Commit, Check, Concluding, Leave,
       Judge, FinishCancelledStart, CompleteStartSuccess, FinalizeStartFailure, Tidying, TakeAll,
       ReapAll
  <2> QED
    BY <2>1, <2>2
<1>3. ASSUME NEW u \in Stoppers, StopperStep(u)
      PROVE  pc'[t] = pc[t] /\ todo'[t] = todo[t] /\ failed'[t] = failed[t]
  <2>1. pc'[t] = pc[t] /\ todo'[t] = todo[t]
    BY <1>3 DEF StopperStep, Reporting, SpawnStopper, Mark, StatusReport, Respawn, Invalidate,
              Enter, Tidying, TakeAll, ReapAll, LeaveTeardown
  <2>2. failed'[t] = failed[t]
    BY <1>3 DEF StopperStep, Reporting, SpawnStopper, Mark, StatusReport, Respawn, Invalidate,
              Enter, Tidying, TakeAll, ReapAll, LeaveTeardown
  <2> QED
    BY <2>1, <2>2
<1>4. CASE StopRuntime \/ QueryStatus \/ ExitRequested \/ Noticing \/ Tidying(Main) \/ Outside
  BY <1>4 DEF StopRuntime, QueryStatus, ExitRequested, Noticing, Inspect,
              FinalizeUnexpectedExit, Tidying, TakeAll, ReapAll, Outside, Crash, vars
<1>5. CASE ExitStep
  BY <1>5 DEF ExitStep, JudgeExit, Invalidate, Enter, Tidying, TakeAll, ReapAll, LeaveTeardown
<1> QED
  BY <1>1, <1>2, <1>3, <1>4, <1>5, AllCases

\* A start that tears down has failed before.
LEMMA TeardownFailed ==
  ASSUME Base, [Next]_vars, \A t \in Starters : pc[t] \in {"take", "reap"} => failed[t]
  PROVE  \A t \in Starters : pc'[t] \in {"take", "reap"} => failed'[t]
<1> SUFFICES ASSUME NEW t \in Starters, pc'[t] \in {"take", "reap"} PROVE failed'[t]
  OBVIOUS
<1> USE DEF Base, Placed, Noted, At, Goto
<1>1. CASE pc'[t] = pc[t] /\ failed'[t] = failed[t]
  BY <1>1
<1>2. CASE StartMixDirect(t) \/ Enter(t) \/ Opening(t) \/ Concluding(t)
  BY <1>2 DEF StartMixDirect, Enter, Opening, SpawnStarter, Prepare, Observe, Concluding, Leave,
              Judge, FinishCancelledStart, CompleteStartSuccess, FinalizeStartFailure
<1>3. CASE Launching(t) \/ Publishing(t)
  BY <1>3 DEF Launching, Launch, LaunchFails, Ready, WaitFails, Publishing, Vet, Abandon, Commit,
              Check
<1>4. CASE Tidying(t)
  <2>1. TakeAll(t)
    BY <1>4 DEF Tidying, ReapAll
  <2> QED
    BY <2>1 DEF TakeAll, locals
<1> QED
  BY <1>1, <1>2, <1>3, <1>4, StarterKept DEF StarterStep

-------------------------------------------------------------------------------
(* The running phase, whatever the user does.                              *)

\* One stop at a time has taken the phase, and the main thread is where the phase says.
Stops == \E t \in Stoppers : pc[t] \in Stopping
Serial ==
  /\ pc[Main] = "stop" => phase = "stopping" /\ ~Stops
  /\ pc[Main] \in {"query", "take", "reap", "unlock"} => phase \in {"stopped", "running"}
  /\ Stops => phase = "stopping"
  /\ \A t, u \in Stoppers : pc[t] \in Stopping /\ pc[u] \in Stopping => t = u

\* Every start has drawn a number of its own.
Born(t) == pc[t] # "unborn"
Numbered ==
  \A t, u \in Starters :
    /\ Born(t) => ticket[t] <= generation
    /\ Born(t) /\ Born(u) /\ ticket[t] = ticket[u] => t = u

\* While the current start is past its beginning, no cancelled one is left inside; nor
\* while the phase is running or a stop tears down.
Current(t) == phase = "starting" /\ generation = ticket[t] /\ Born(t)
Lone ==
  /\ \A t \in Starters, u \in Starters :
       Current(t) /\ u # t /\ pc[u] \in Inside => pc[t] \in {"accepted", "enter"}
  /\ phase = "running" \/ (\E u \in Stoppers : pc[u] \in Tearing) =>
       \A t \in Starters : pc[t] \notin Inside

\* A success of the current start is backed by something it owns, and so is the running
\* phase, unless a quit is under way or the main thread cleans up.
Backed ==
  /\ \A t \in Starters : pc[t] \in {"take", "reap"} => failed[t]
  /\ \A t \in Starters : pc[t] = "publish" => ~failed[t]
  /\ \A t \in Starters : Current(t) /\ Succeeding(t) => OwnsResources \/ pc[Exit] # "idle"
  /\ phase = "running" /\ lock # Main /\ pc[Exit] = "idle" => OwnsResources

Ground == Serial /\ Numbered /\ Lone /\ Backed

\* What a step of a start does to the phase, and to the other threads.
LEMMA StarterMoves ==
  ASSUME Base, NEW t \in Starters, StarterStep(t)
  PROVE  /\ \A u \in Threads \ {t, Main} : pc'[u] = pc[u]
         /\ pc'[Main] = pc[Main] \/ (SpawnStarter(t) /\ pc'[Main] = "idle")
         /\ Born(t) /\ pc'[t] # "unborn"
         /\ generation' = generation /\ ticket' = ticket
         /\ phase' = phase \/ (phase = "starting" /\ phase' \in {"stopped", "running"})
<1> USE DEF Base, Placed, Noted, At, Goto
<1>1. \A u \in Threads \ {t, Main} : pc'[u] = pc[u]
  BY DEF StarterStep, Enter, Opening, SpawnStarter, Prepare, Observe, Launching, Launch,
     LaunchFails, Ready, WaitFails, Publishing, Vet, Abandon, Commit, Check, Concluding, Leave,
     Judge, FinishCancelledStart, CompleteStartSuccess, FinalizeStartFailure, Tidying, TakeAll,
     ReapAll
<1>2. pc'[Main] = pc[Main] \/ (SpawnStarter(t) /\ pc'[Main] = "idle")
  BY DEF StarterStep, Enter, Opening, SpawnStarter, Prepare, Observe, Launching, Launch,
     LaunchFails, Ready, WaitFails, Publishing, Vet, Abandon, Commit, Check, Concluding, Leave,
     Judge, FinishCancelledStart, CompleteStartSuccess, FinalizeStartFailure, Tidying, TakeAll,
     ReapAll
<1>3. Born(t) /\ pc'[t] # "unborn"
  BY DEF Born, StarterStep, Enter, Opening, SpawnStarter, Prepare, Observe, Launching, Launch,
     LaunchFails, Ready, WaitFails, Publishing, Vet, Abandon, Commit, Check, Concluding, Leave,
     Judge, FinishCancelledStart, CompleteStartSuccess, FinalizeStartFailure, Tidying, TakeAll,
     ReapAll
<1>4. generation' = generation /\ ticket' = ticket
  BY DEF StarterStep, Enter, Opening, SpawnStarter, Prepare, Observe, Launching, Launch,
     LaunchFails, Ready, WaitFails, Publishing, Vet, Abandon, Commit, Check, Concluding, Leave,
     Judge, FinishCancelledStart, CompleteStartSuccess, FinalizeStartFailure, Tidying, TakeAll,
     ReapAll, life, locals
<1>5. phase' = phase \/ (phase = "starting" /\ phase' \in {"stopped", "running"})
  BY DEF StarterStep, Enter, Opening, SpawnStarter, Prepare, Observe, Launching, Launch,
     LaunchFails, Ready, WaitFails, Publishing, Vet, Abandon, Commit, Check, Concluding, Leave,
     Judge, FinishCancelledStart, CompleteStartSuccess, FinalizeStartFailure, Tidying, TakeAll,
     ReapAll, life
<1> QED
  BY <1>1, <1>2, <1>3, <1>4, <1>5

\* The same of a stop.
LEMMA StopperMoves ==
  ASSUME Base, NEW t \in Stoppers, StopperStep(t)
  PROVE  /\ \A u \in Threads \ {t, Main} : pc'[u] = pc[u]
         /\ ticket' = ticket
         /\ \/ /\ SpawnStopper(t) /\ pc[Main] = "stop" /\ pc'[Main] = "idle" /\ phase' = phase
               /\ pc'[t] = "spawned" /\ generation' = generation + 1
            \/ /\ pc'[Main] = pc[Main] /\ generation' = generation
               /\ pc'[t] \in Stopping => pc[t] \in Stopping
               /\ pc'[t] \in Tearing => pc[t] \in Tearing \/ (Enter(t) /\ lock = None)
               /\ \/ phase' = phase
                  \/ /\ Mark(t) /\ pc[t] = "mark" /\ pc'[t] = "report"
                     /\ phase' \in {"stopped", "running"}
<1> USE DEF Base, Placed, Noted, At, Goto
<1>1. \A u \in Threads \ {t, Main} : pc'[u] = pc[u]
  BY DEF StopperStep, Reporting, SpawnStopper, Mark, StatusReport, Respawn, Invalidate, Enter,
         Tidying, TakeAll, ReapAll, LeaveTeardown
<1>2. ticket' = ticket
  BY DEF StopperStep, Reporting, SpawnStopper, Mark, StatusReport, Respawn, Invalidate, Enter,
         Tidying, TakeAll, ReapAll, LeaveTeardown, locals
<1>3. CASE SpawnStopper(t)
  BY <1>1, <1>2, <1>3 DEF SpawnStopper
<1>4. CASE Mark(t)
  BY <1>1, <1>2, <1>4 DEF Mark, Stopping, Tearing
<1>5. CASE StatusReport(t) \/ Respawn(t) \/ Invalidate(t)
  BY <1>1, <1>2, <1>5 DEF StatusReport, Respawn, Invalidate, Stopping, Tearing, life
<1>6. CASE Enter(t) \/ Tidying(t) \/ LeaveTeardown(t)
  BY <1>1, <1>2, <1>6 DEF Enter, Tidying, TakeAll, ReapAll, LeaveTeardown, Stopping, Tearing,
                          life
<1> QED
  BY <1>3, <1>4, <1>5, <1>6 DEF StopperStep, Reporting

\* The same of a quit.
LEMMA ExitMoves ==
  ASSUME Base, ExitStep
  PROVE  /\ \A u \in Threads \ {Exit} : pc'[u] = pc[u]
         /\ ticket' = ticket /\ generation' = generation /\ phase' = phase
         /\ pc[Exit] # "idle"
         /\ lock' = lock \/ lock = None \/ lock = Exit
         /\ pc'[Exit] = "idle" => OwnsResources /\ slot' = slot
<1> USE DEF Base, Placed, Noted, At, Goto
<1>1. CASE JudgeExit
  BY <1>1 DEF JudgeExit, life, procs
<1>2. CASE Invalidate(Exit) \/ Enter(Exit)
  BY <1>2 DEF Invalidate, Enter, life, locals
<1>3. CASE Tidying(Exit)
  BY <1>3 DEF Tidying, TakeAll, ReapAll, life, locals
<1>4. CASE LeaveTeardown(Exit)
  BY <1>4 DEF LeaveTeardown, life, locals, Locking, Locked
<1> QED
  BY <1>1, <1>2, <1>3, <1>4 DEF ExitStep

\* The same of the commands and of the main thread's own cleaning up.
LEMMA MainMoves ==
  ASSUME Base, StopRuntime \/ QueryStatus \/ ExitRequested \/ Noticing \/ Tidying(Main) \/ Outside
  PROVE  /\ \A u \in Workers : pc'[u] = pc[u]
         /\ ticket' = ticket /\ generation' = generation
         /\ pc'[Exit] = pc[Exit] \/ ExitRequested
         /\ ExitRequested => pc'[Exit] # "idle" /\ pc'[Main] = pc[Main]
         /\ \/ phase' = phase
            \/ StopRuntime /\ phase \in {"starting", "running"} /\ phase' = "stopping"
            \/ /\ FinalizeUnexpectedExit /\ pc[Main] = "unlock" /\ pc'[Main] = "idle"
               /\ phase' \in {"stopped", "running"}
<1> USE DEF Base, Placed, Noted, At, Goto
<1>1. CASE StopRuntime \/ QueryStatus \/ ExitRequested
  BY <1>1 DEF StopRuntime, QueryStatus, ExitRequested, life, locals
<1>2. CASE Noticing
  BY <1>2 DEF Noticing, Inspect, FinalizeUnexpectedExit, life, locals, StopRuntime,
              ExitRequested
<1>3. CASE Tidying(Main) \/ Outside
  BY <1>3 DEF Tidying, TakeAll, ReapAll, Outside, Crash, vars, life, locals, ExitRequested
<1> QED
  BY <1>1, <1>2, <1>3

\* The same of a start that is accepted.
LEMMA AcceptMoves ==
  ASSUME Base, NEW t \in Starters, StartMixDirect(t)
  PROVE  /\ \A u \in Threads \ {t, Main} : pc'[u] = pc[u]
         /\ pc[Main] = "idle" /\ pc'[Main] = "start"
         /\ pc[t] = "unborn" /\ pc'[t] = "accepted"
         /\ phase = "stopped" /\ phase' = "starting"
         /\ generation' = generation + 1 /\ ticket' = [ticket EXCEPT ![t] = generation + 1]
         /\ lock' = lock /\ slot' = slot /\ failed' = failed
BY DEF StartMixDirect, BeginStart, Base, Placed, At, procs

\* No two stops share the phase.
LEMMA SerialStep == Base /\ Serial /\ [Next]_vars => Serial'
<1> SUFFICES ASSUME Base, Serial, [Next]_vars PROVE Serial'
  OBVIOUS
<1>1. ASSUME NEW t \in Starters, StartMixDirect(t) PROVE Serial'
  BY <1>1, AcceptMoves DEF Serial, Stops
<1>2. ASSUME NEW t \in Starters, StarterStep(t) PROVE Serial'
  BY <1>2, StarterMoves DEF Serial, Stops
<1>3. ASSUME NEW t \in Stoppers, StopperStep(t) PROVE Serial'
  <2>1. CASE SpawnStopper(t) /\ pc[Main] = "stop"
    BY <1>3, <2>1, StopperMoves DEF Serial, Stops, SpawnStopper, Goto
  <2>2. CASE pc[Main] # "stop" \/ ~SpawnStopper(t)
    <3>1. /\ pc'[Main] = pc[Main]
          /\ pc'[t] \in Stopping => pc[t] \in Stopping
          /\ \A u \in Threads \ {t, Main} : pc'[u] = pc[u]
          /\ phase' = phase \/ (Mark(t) /\ pc[t] = "mark" /\ pc'[t] = "report"
                                 /\ phase' \in {"stopped", "running"})
      BY <1>3, <2>2, StopperMoves
    <3>2. CASE phase' = phase
      BY <3>1, <3>2 DEF Serial, Stops
    <3>3. CASE pc[t] = "mark" /\ pc'[t] = "report" /\ phase' \in {"stopped", "running"}
      <4>1. Stops /\ phase = "stopping" /\ \A u \in Stoppers : pc'[u] \notin Stopping
        BY <3>1, <3>3 DEF Serial, Stops, Stopping
      <4> QED
        BY <3>1, <3>3, <4>1 DEF Serial, Stops
    <3> QED
      BY <3>1, <3>2, <3>3
  <2> QED
    BY <2>1, <2>2
<1>4. CASE StopRuntime \/ QueryStatus
  BY <1>4, MainMoves DEF StopRuntime, QueryStatus, At, Goto, Base, Placed, Serial, Stops, life
<1>5. CASE ExitRequested \/ Outside
  BY <1>5, MainMoves DEF ExitRequested, Outside, Crash, vars, life, Serial, Stops, StopRuntime,
                         FinalizeUnexpectedExit, At, Goto, Base, Placed
<1>6. CASE Noticing \/ Tidying(Main)
  <2>1. pc[Main] \in {"query", "take", "reap", "unlock"}
    BY <1>6 DEF Noticing, Inspect, FinalizeUnexpectedExit, Tidying, TakeAll, ReapAll, At
  <2>2. /\ pc'[Main] \in {"idle", "take", "reap", "unlock"}
        /\ phase' = phase \/ (pc'[Main] = "idle" /\ phase' \in {"stopped", "running"})
    BY <1>6 DEF Noticing, Inspect, FinalizeUnexpectedExit, Tidying, TakeAll, ReapAll, Goto, life,
                Base, Placed
  <2> QED
    BY <1>6, <2>1, <2>2, MainMoves DEF Serial, Stops
<1>7. CASE ExitStep
  BY <1>7, ExitMoves DEF Serial, Stops
<1> QED
  BY <1>1, <1>2, <1>3, <1>4, <1>5, <1>6, <1>7, AllCases DEF Base

\* No two starts draw the same number.
LEMMA NumberedStep == Base /\ Numbered /\ [Next]_vars => Numbered'
<1> SUFFICES ASSUME Base, Numbered, [Next]_vars PROVE Numbered'
  OBVIOUS
<1> USE DEF Numbered, Born, Base, Phased, Noted
<1>1. ASSUME NEW t \in Starters, StartMixDirect(t) PROVE Numbered'
  <2>1. /\ \A u \in Starters \ {t} : pc'[u] = pc[u] /\ ticket'[u] = ticket[u]
        /\ ticket'[t] = generation + 1 /\ generation' = generation + 1
    BY <1>1, AcceptMoves
  <2> QED
    BY <2>1
<1>2. ASSUME ticket' = ticket, generation' \in Nat, generation' >= generation,
             \A u \in Starters : pc[u] = "unborn" => pc'[u] = "unborn"
      PROVE  Numbered'
  BY <1>2
<1>3. ASSUME NEW t \in Starters, StarterStep(t) PROVE Numbered'
  BY <1>2, <1>3, StarterMoves
<1>4. ASSUME NEW t \in Stoppers, StopperStep(t) PROVE Numbered'
  BY <1>2, <1>4, StopperMoves
<1>5. CASE StopRuntime \/ QueryStatus \/ ExitRequested \/ Noticing \/ Tidying(Main) \/ Outside
  BY <1>2, <1>5, MainMoves
<1>6. CASE ExitStep
  BY <1>2, <1>6, ExitMoves
<1> QED
  BY <1>1, <1>3, <1>4, <1>5, <1>6, AllCases

\* A start that is current after a step was current before, or has just been accepted.
LEMMA CurrentBefore ==
  ASSUME Base, Serial, Numbered, [Next]_vars, NEW t \in Starters, (Current(t))'
  PROVE  \/ StartMixDirect(t) /\ pc'[t] = "accepted"
         \/ Current(t) /\ generation' = generation /\ ticket' = ticket /\ phase' = phase
<1> USE DEF Current, Born
<1>1. ASSUME NEW u \in Starters, StartMixDirect(u) PROVE u = t /\ pc'[t] = "accepted"
  BY <1>1, AcceptMoves DEF Numbered, Base, Phased, Noted
<1>2. ASSUME NEW u \in Starters, StarterStep(u)
      PROVE  Current(t) /\ generation' = generation /\ ticket' = ticket /\ phase' = phase
  BY <1>2, StarterMoves
<1>3. ASSUME NEW u \in Stoppers, StopperStep(u)
      PROVE  Current(t) /\ generation' = generation /\ ticket' = ticket /\ phase' = phase
  BY <1>3, StopperMoves DEF Serial
<1>4. CASE StopRuntime \/ QueryStatus \/ ExitRequested \/ Noticing \/ Tidying(Main) \/ Outside
  BY <1>4, MainMoves
<1>5. CASE ExitStep
  BY <1>5, ExitMoves
<1> QED
  BY <1>1, <1>2, <1>3, <1>4, <1>5, AllCases DEF Base

\* A start comes inside only as the current one.
LEMMA ComesInside ==
  ASSUME Base, [Next]_vars, NEW t \in Starters, pc'[t] \in Inside, pc[t] \notin Inside
  PROVE  /\ Current(t) /\ pc[t] = "prepare"
         /\ phase' = phase /\ \A u \in Threads \ {t} : pc'[u] = pc[u]
<1> USE DEF Base, Placed, At, Goto, Inside
<1>1. StarterStep(t)
  BY StarterKept, AcceptMoves
<1>2. Prepare(t)
  <2>1. CASE Concluding(t) \/ Enter(t)
    BY <2>1 DEF Concluding, Leave, Judge, FinishCancelledStart, CompleteStartSuccess,
                FinalizeStartFailure, Enter
  <2>2. CASE Opening(t)
    BY <2>2 DEF Opening, SpawnStarter, Observe
  <2>3. CASE Launching(t)
    BY <2>3 DEF Launching, Launch, LaunchFails, Ready, WaitFails
  <2>4. CASE Publishing(t) \/ Tidying(t)
    BY <2>4 DEF Publishing, Vet, Abandon, Commit, Check, Tidying, TakeAll, ReapAll
  <2> QED
    BY <1>1, <2>1, <2>2, <2>3, <2>4 DEF StarterStep
<1> QED
  BY <1>2 DEF Prepare, Cancelled, Current, Born, life

\* A start that is past its beginning after a step was so before, or has just entered.
LEMMA GoesOn ==
  ASSUME Base, [Next]_vars, NEW t \in Starters, pc[t] \in {"accepted", "enter"}
  PROVE  pc'[t] \in {"accepted", "enter"} \/ lock = None
<1> USE DEF Base, Placed, At, Goto
<1>1. CASE StarterStep(t)
  <2>1. CASE Opening(t) \/ Enter(t)
    BY <2>1 DEF Opening, SpawnStarter, Prepare, Observe, Enter
  <2>2. CASE Launching(t) \/ Publishing(t)
    BY <2>2 DEF Launching, Launch, LaunchFails, Ready, WaitFails, Publishing, Vet, Abandon,
                Commit, Check
  <2>3. CASE Concluding(t) \/ Tidying(t)
    BY <2>3 DEF Concluding, Leave, Judge, FinishCancelledStart, CompleteStartSuccess,
                FinalizeStartFailure, Tidying, TakeAll, ReapAll
  <2> QED
    BY <1>1, <2>1, <2>2, <2>3 DEF StarterStep
<1> QED
  BY <1>1, StarterKept, AcceptMoves

\* The lock and the numbers keep cancelled starts out.
LEMMA LoneStep == Base /\ Ground /\ [Next]_vars => Lone'
<1> SUFFICES ASSUME Base, Ground, [Next]_vars PROVE Lone'
  OBVIOUS
<1> USE DEF Ground
<1>0. \A t \in Starters : pc[t] \in Inside => lock = t /\ lock # None
  BY DEF Base, Locking, Locked, Inside
<1>1. ASSUME NEW t \in Starters, NEW u \in Starters, (Current(t))', u # t, pc'[u] \in Inside
      PROVE  pc'[t] \in {"accepted", "enter"}
  <2>1. CASE pc'[t] # "accepted"
    <3>1. Current(t) /\ generation' = generation /\ ticket' = ticket /\ phase' = phase
      BY <1>1, <2>1, CurrentBefore
    <3>2. pc[u] \in Inside
      BY <1>1, <3>1, ComesInside DEF Current, Numbered
    <3>3. pc[t] \in {"accepted", "enter"} /\ lock # None
      BY <1>0, <1>1, <3>1, <3>2 DEF Lone
    <3> QED
      BY <3>3, GoesOn
  <2> QED
    BY <2>1
<1>2. ASSUME NEW t \in Starters, pc'[t] \in Inside,
             phase' = "running" \/ (\E u \in Stoppers : pc'[u] \in Tearing)
      PROVE  FALSE
  <2>1. CASE pc[t] \notin Inside
    <3>1. /\ Current(t) /\ phase' = phase
          /\ \A u \in Stoppers : pc'[u] = pc[u]
      BY <1>2, <2>1, ComesInside
    <3> QED
      BY <1>2, <3>1 DEF Current, Serial, Stops, Tearing, Stopping
  <2>2. CASE pc[t] \in Inside
    <3>1. phase # "running" /\ \A u \in Stoppers : pc[u] \notin Tearing
      BY <2>2 DEF Lone
    <3>2. lock = t /\ lock # None
      BY <1>0, <2>2
    <3>3. ASSUME NEW u \in Starters, StartMixDirect(u) PROVE FALSE
      BY <1>2, <3>1, <3>3, AcceptMoves
    <3>4. ASSUME NEW u \in Starters, StarterStep(u) PROVE FALSE
      <4>1. phase' = "running" /\ phase # "running"
        BY <1>2, <3>1, <3>4, StarterMoves
      <4>2. CompleteStartSuccess(u) \/ FinalizeStartFailure(u)
        BY <3>4, <4>1 DEF StarterStep, Enter, Opening, SpawnStarter, Prepare, Observe, Launching,
           Launch, LaunchFails, Ready, WaitFails, Publishing, Vet, Abandon, Commit, Check,
           Concluding, Leave, Judge, FinishCancelledStart, Tidying, TakeAll, ReapAll, life
      <4>3. CompleteStartSuccess(u)
        BY <3>2, <4>2 DEF FinalizeStartFailure
      <4>4. Current(u) /\ pc[u] = "publish"
        BY <4>1, <4>3 DEF CompleteStartSuccess, Current, Born, At
      <4> QED
        BY <2>2, <4>4 DEF Lone, Inside
    <3>5. ASSUME NEW u \in Stoppers, StopperStep(u) PROVE FALSE
      BY <1>2, <3>1, <3>2, <3>5, StopperMoves DEF Tearing
    <3>6. CASE StopRuntime \/ QueryStatus \/ ExitRequested \/ Noticing \/ Tidying(Main) \/ Outside
      <4>1. FinalizeUnexpectedExit /\ pc[Main] = "unlock"
        BY <1>2, <3>1, <3>6, MainMoves
      <4> QED
        BY <3>2, <4>1 DEF Base, Locking, Locked
    <3>7. CASE ExitStep
      BY <1>2, <3>1, <3>7, ExitMoves
    <3> QED
      BY <3>3, <3>4, <3>5, <3>6, <3>7, AllCases DEF Base
  <2> QED
    BY <2>1, <2>2
<1> QED
  BY <1>1, <1>2 DEF Lone

\* What a start that has succeeded was before.
LEMMA SuccessBefore ==
  ASSUME Base, Backed, [Next]_vars, NEW t \in Starters, (Succeeding(t))', ~StartMixDirect(t)
  PROVE  Commit(t) \/ (Succeeding(t) /\ pc[t] \notin Inside \ {"check"})
<1> USE DEF Base, Placed, Noted, At, Goto, Succeeding, Inside
<1>1. CASE pc'[t] = pc[t] /\ failed'[t] = failed[t]
  BY <1>1
<1>2. CASE Enter(t) \/ Opening(t) \/ Launching(t)
  BY <1>2 DEF Enter, Opening, SpawnStarter, Prepare, Observe, Launching, Launch, LaunchFails,
              Ready, WaitFails
<1>3. CASE Publishing(t)
  BY <1>3 DEF Publishing, Vet, Abandon, Check
<1>4. CASE Concluding(t)
  BY <1>4 DEF Concluding, Leave, Judge, FinishCancelledStart, CompleteStartSuccess,
              FinalizeStartFailure, locals
<1>5. CASE Tidying(t)
  BY <1>5 DEF Tidying, TakeAll, ReapAll, Backed
<1> QED
  BY <1>1, <1>2, <1>3, <1>4, <1>5, StarterKept DEF StarterStep

\* Only a success is published.
LEMMA PublishedStep ==
  ASSUME Base, Backed, [Next]_vars, NEW t \in Starters, pc'[t] = "publish"
  PROVE  ~failed'[t]
<1> USE DEF Base, Placed, Noted, At, Goto
<1>1. CASE pc'[t] = pc[t] /\ failed'[t] = failed[t]
  BY <1>1 DEF Backed
<1>2. CASE Enter(t) \/ Opening(t) \/ Launching(t) \/ StartMixDirect(t)
  BY <1>2 DEF Enter, Opening, SpawnStarter, Prepare, Observe, Launching, Launch, LaunchFails,
              Ready, WaitFails, StartMixDirect
<1>3. CASE Publishing(t) \/ Tidying(t)
  BY <1>3 DEF Publishing, Vet, Abandon, Commit, Check, Tidying, TakeAll, ReapAll
<1>4. CASE Concluding(t)
  BY <1>4 DEF Concluding, Leave, Judge, FinishCancelledStart, CompleteStartSuccess,
              FinalizeStartFailure, locals
<1> QED
  BY <1>1, <1>2, <1>3, <1>4, StarterKept DEF StarterStep

\* Without a quit under way, only the start that is inside, a stop that tears down and the
\* main thread touch the slots.
LEMMA SlotsStay ==
  ASSUME Base, [Next]_vars, pc[Exit] = "idle",
         pc[Main] \notin {"query", "take", "reap"},
         \A t \in Stoppers : pc[t] \notin Tearing
  PROVE  slot' = slot \/ \E t \in Starters : pc[t] \in Inside /\ (Handling(t) \/ Tidying(t))
<1>1. ~Inspect
  BY DEF Inspect, At
<1>2. \A t \in Threads : Tidying(t) => t \in Starters /\ pc[t] \in Inside
  BY DEF Tidying, TakeAll, ReapAll, At, Tearing, Inside
<1>3. \A t \in Starters : Handling(t) => pc[t] \in Inside
  BY DEF Handling, WaitFails, Abandon, Commit, At, Inside
<1>4. \A t \in Starters : Launch(t) => slot' = slot
  BY DEF Launch
<1>5. \A p \in Process : Crash(p) => slot' = slot
  BY DEF Crash
<1> QED
  BY <1>1, <1>2, <1>3, <1>4, <1>5, ProcsKept DEF procs

\* A quit that comes to rest leaves something owned; none other begins to rest.
LEMMA QuitRests ==
  ASSUME Base, [Next]_vars, pc'[Exit] = "idle"
  PROVE  pc[Exit] = "idle" \/ OwnsResources'
<1>1. ASSUME NEW t \in Starters, StartMixDirect(t) PROVE pc'[Exit] = pc[Exit]
  BY <1>1, AcceptMoves
<1>2. ASSUME NEW t \in Starters, StarterStep(t) PROVE pc'[Exit] = pc[Exit]
  BY <1>2, StarterMoves
<1>3. ASSUME NEW t \in Stoppers, StopperStep(t) PROVE pc'[Exit] = pc[Exit]
  BY <1>3, StopperMoves
<1>4. CASE StopRuntime \/ QueryStatus \/ ExitRequested \/ Noticing \/ Tidying(Main) \/ Outside
  BY <1>4, MainMoves
<1>5. CASE ExitStep
  BY <1>5, ExitMoves DEF OwnsResources
<1> QED
  BY <1>1, <1>2, <1>3, <1>4, <1>5, AllCases DEF Base

\* The success of the current start stays backed.
LEMMA SuccessBacked ==
  ASSUME Base, Ground, [Next]_vars,
         NEW t \in Starters, (Current(t))', (Succeeding(t))', pc'[Exit] = "idle"
  PROVE  OwnsResources'
<1> USE DEF Ground
<1>1. Current(t) /\ phase' = phase /\ ~StartMixDirect(t)
  BY CurrentBefore, AcceptMoves DEF Succeeding
<1>2. CASE pc[Exit] # "idle"
  BY <1>2, QuitRests
<1>3. CASE pc[Exit] = "idle" /\ Commit(t)
  <2>1. \E p \in Process : p[1] \in Slots /\ slot' = [slot EXCEPT ![p[1]] = p]
    BY <1>3, HandlingMoves DEF Handling
  <2> QED
    BY <2>1 DEF OwnsResources, Process, Base, Filed
<1>4. CASE pc[Exit] = "idle" /\ ~Commit(t)
  <2>1. Succeeding(t) /\ pc[t] \notin Inside \ {"check"}
    BY <1>1, <1>4, SuccessBefore
  <2>2. OwnsResources
    BY <1>1, <1>4, <2>1 DEF Backed
  <2>3. /\ pc[Main] \notin {"query", "take", "reap"}
        /\ \A u \in Stoppers : pc[u] \notin Tearing
    BY <1>1 DEF Current, Serial, Stops, Tearing, Stopping
  <2>4. \A u \in Starters : u # t => pc[u] \notin Inside
    BY <1>1, <2>1 DEF Lone, Succeeding
  <2>5. ~Handling(t) /\ ~Tidying(t)
    BY <2>1 DEF Inside, Handling, WaitFails, Abandon, Commit, Tidying, TakeAll, ReapAll, At
  <2>6. slot' = slot
    BY <1>4, <2>3, <2>4, <2>5, SlotsStay
  <2> QED
    BY <2>2, <2>6 DEF OwnsResources
<1> QED
  BY <1>2, <1>3, <1>4

\* What makes the phase say running, and what is owned then.
LEMMA BeginsRunning ==
  ASSUME Base, Ground, [Next]_vars, pc[Exit] = "idle",
         phase' = "running", phase # "running" \/ FinalizeUnexpectedExit
  PROVE  OwnsResources /\ slot' = slot
<1> USE DEF Ground
<1>1. CASE FinalizeUnexpectedExit
  BY <1>1 DEF FinalizeUnexpectedExit, FailureKeepsRunning, procs
<1>2. ASSUME NEW t \in Starters, StarterStep(t), phase # "running"
      PROVE  OwnsResources /\ slot' = slot
  <2>1. CASE CompleteStartSuccess(t)
    <3>1. Current(t) /\ Succeeding(t)
      BY <1>2, <2>1 DEF CompleteStartSuccess, Current, Born, Succeeding, At, Backed
    <3> QED
      BY <2>1, <3>1 DEF CompleteStartSuccess, Backed, procs
  <2>2. CASE FinalizeStartFailure(t)
    BY <1>2, <2>2 DEF FinalizeStartFailure, FailureKeepsRunning, procs
  <2>3. CompleteStartSuccess(t) \/ FinalizeStartFailure(t)
    BY <1>2 DEF StarterStep, Enter, Opening, SpawnStarter, Prepare, Observe, Launching, Launch,
       LaunchFails, Ready, WaitFails, Publishing, Vet, Abandon, Commit, Check, Concluding, Leave,
       Judge, FinishCancelledStart, Tidying, TakeAll, ReapAll, life
  <2> QED
    BY <2>1, <2>2, <2>3
<1>3. ASSUME NEW t \in Stoppers, StopperStep(t), phase # "running"
      PROVE  OwnsResources /\ slot' = slot
  <2>1. Mark(t)
    BY <1>3, StopperMoves
  <2> QED
    BY <2>1 DEF Mark, FailureKeepsRunning, procs
<1>4. ASSUME NEW t \in Starters, StartMixDirect(t) PROVE FALSE
  BY <1>4, AcceptMoves
<1>5. CASE \/ StopRuntime \/ QueryStatus \/ ExitRequested \/ Noticing \/ Tidying(Main)
           \/ Outside
  BY <1>1, <1>5, MainMoves
<1>6. ExitStep => FALSE
  BY ExitMoves
<1> QED
  BY <1>1, <1>2, <1>3, <1>4, <1>5, <1>6, AllCases DEF Base

\* The main thread gives the lock back only when it has judged what it found.
LEMMA MainLocks ==
  ASSUME Base, Ground, [Next]_vars, lock = Main, phase = "running", ~FinalizeUnexpectedExit
  PROVE  lock' = Main
<1> USE DEF Base, Locking, Locked, At
<1>1. \A t \in Threads \ {Main} : pc[t] \notin Locked
  OBVIOUS
<1>2. ASSUME NEW t \in Starters, StartMixDirect(t) PROVE lock' = lock
  BY <1>2, AcceptMoves
<1>3. ASSUME NEW t \in Starters, StarterStep(t) PROVE lock' = lock
  <2>1. ~Leave(t) /\ ~Enter(t)
    BY <1>1 DEF Leave, Enter
  <2> QED
    BY <1>3, <2>1 DEF StarterStep, Opening, SpawnStarter, Prepare, Observe, Launching, Launch,
       LaunchFails, Ready, WaitFails, Publishing, Vet, Abandon, Commit, Check, Concluding,
       Judge, FinishCancelledStart, CompleteStartSuccess, FinalizeStartFailure, Tidying, TakeAll,
       ReapAll
<1>4. ASSUME NEW t \in Stoppers, StopperStep(t) PROVE lock' = lock
  <2>1. ~LeaveTeardown(t) /\ ~Enter(t)
    BY <1>1 DEF LeaveTeardown, Enter
  <2> QED
    BY <1>4, <2>1 DEF StopperStep, Reporting, SpawnStopper, Mark, StatusReport, Respawn,
       Invalidate, Tidying, TakeAll, ReapAll
<1>5. StopRuntime \/ QueryStatus \/ ExitRequested \/ Noticing \/ Tidying(Main) \/ Outside
        => lock' = lock
  BY DEF StopRuntime, QueryStatus, ExitRequested, Noticing, Inspect, Tidying, TakeAll, ReapAll,
         Outside, Crash, vars
<1>6. ExitStep => lock' = lock
  BY ExitMoves
<1> QED
  BY <1>2, <1>3, <1>4, <1>5, <1>6, AllCases

\* The running phase stays backed.
LEMMA RunningBacked ==
  ASSUME Base, Ground, [Next]_vars, phase' = "running", lock' # Main, pc'[Exit] = "idle"
  PROVE  OwnsResources'
<1>1. CASE pc[Exit] # "idle"
  BY <1>1, QuitRests
<1>2. CASE pc[Exit] = "idle" /\ (phase # "running" \/ FinalizeUnexpectedExit)
  BY <1>2, BeginsRunning DEF OwnsResources
<1>3. CASE pc[Exit] = "idle" /\ phase = "running" /\ ~FinalizeUnexpectedExit
  <2>1. lock # Main
    BY <1>3, MainLocks
  <2>2. OwnsResources
    BY <1>3, <2>1 DEF Ground, Backed
  <2>3. (\A t \in Starters : pc[t] \notin Inside) /\ ~Stops
    BY <1>3 DEF Ground, Lone, Serial
  <2>4. CASE Inspect
    BY <2>2, <2>4 DEF Inspect, OwnsResources
  <2>5. CASE ~Inspect
    <3>1. \A t \in Threads : ~Tidying(t)
      BY <1>3, <2>1, <2>3 DEF Tidying, TakeAll, ReapAll, At, Inside, Stops, Stopping, Base,
                              Locking, Locked
    <3>2. \A t \in Starters : ~Handling(t)
      BY <2>3 DEF Handling, WaitFails, Abandon, Commit, At, Inside
    <3>3. \A t \in Starters : Launch(t) => slot' = slot
      BY DEF Launch
    <3>4. \A p \in Process : Crash(p) => slot' = slot
      BY DEF Crash
    <3>5. slot' = slot
      BY <2>5, <3>1, <3>2, <3>3, <3>4, ProcsKept DEF procs
    <3> QED
      BY <2>2, <3>5 DEF OwnsResources
  <2> QED
    BY <2>4, <2>5
<1> QED
  BY <1>1, <1>2, <1>3

\* Every step keeps it.
LEMMA GroundStep == Base /\ Ground /\ [Next]_vars => Ground'
<1> SUFFICES ASSUME Base, Ground, [Next]_vars PROVE Ground'
  OBVIOUS
<1>1. Serial' /\ Numbered' /\ Lone'
  BY SerialStep, NumberedStep, LoneStep DEF Ground
<1>2. \A t \in Starters : pc'[t] \in {"take", "reap"} => failed'[t]
  BY TeardownFailed DEF Ground, Backed
<1>3. Backed'
  BY <1>2, PublishedStep, SuccessBacked, RunningBacked DEF Ground, Backed
<1> QED
  BY <1>1, <1>3 DEF Ground

\* A runtime that the phase calls running owns something that the stop button can stop,
\* whatever the user does: also after a quit that failed, and when a command overtakes the
\* bookkeeping of a worker.
THEOREM RunningCanBeStopped == Spec => []RunningIsOwned
<1>1. Init => Ground
  BY DEF Init, Ground, Serial, Stops, Stopping, Numbered, Born, Lone, Current, Inside, Tearing,
         Backed, Succeeding
<1>2. Base /\ Ground => RunningIsOwned
  BY DEF Ground, Backed, RunningIsOwned
<1> QED
  BY <1>1, <1>2, GroundStep, BaseHolds, PTL DEF Spec

-------------------------------------------------------------------------------
(* What holds while nobody quits and no command overtakes a worker.        *)

Undisturbed == Quits = 0 /\ ~Overtaking

NoQuit == pc[Exit] = "idle" /\ quits = 0 /\ ~exited

\* One start and one stop at a time.
Alone == \A t \in Stoppers : Ended(t)
OneOfEach ==
  /\ \A t, u \in Starters : Active(t) /\ Active(u) => t = u
  /\ \A t, u \in Stoppers : Active(t) /\ Active(u) => t = u

\* What the phase says of the main thread and of the stop.
Phases ==
  /\ phase = "starting" => Alone /\ pc[Main] \in {"idle", "start"}
  /\ phase = "stopping" => pc[Main] \in {"idle", "stop"}
  /\ pc[Main] = "start" => phase = "starting"
  /\ pc[Main] = "stop" => phase = "stopping" /\ Alone
  /\ pc[Main] \in {"query", "take", "reap", "unlock"} => Alone
  /\ \A t \in Stoppers : pc[t] \in Stopping => phase = "stopping"
  /\ \A t \in Stoppers : pc[t] \in {"report", "respawn"} =>
       /\ phase \in {"stopped", "running"}
       /\ phase = "running" <=> owned[t]
       /\ pc[t] = "respawn" => owned[t]

\* A start under way is the current one, unless its phase has been taken from it.
Tickets ==
  \A t \in Starters :
    /\ pc[t] = "accepted" => pc[Main] = "start"
    /\ pc[Main] = "start" /\ Active(t) => pc[t] = "accepted"
    /\ phase = "starting" /\ Active(t) => generation = ticket[t] /\ pc[t] # "cancelled"
    /\ phase = "starting" /\ pc[t] = "publish" => ~failed[t]

\* Once its phase is gone for good, or a stop holds the lock, no start is inside.
NotInside ==
  phase \in {"stopped", "running"} \/ (\E u \in Stoppers : pc[u] \in Tearing) =>
    \A t \in Starters : pc[t] \notin Inside

Control == NoQuit /\ OneOfEach /\ Phases /\ Tickets /\ NotInside

\* The steps that remain.
LEMMA CalmCases ==
  ASSUME Undisturbed, Base, NoQuit, [Next]_vars
  PROVE  \/ \E t \in Starters : StartMixDirect(t) \/ StarterStep(t)
         \/ StopRuntime \/ QueryStatus
         \/ \E t \in Stoppers : StopperStep(t)
         \/ Noticing \/ Tidying(Main) \/ Outside
<1>1. ~ExitRequested
  BY DEF Undisturbed, ExitRequested, At, NoQuit
<1>2. ~ExitStep
  BY DEF NoQuit, ExitStep, JudgeExit, Tidying, Enter, TakeAll, ReapAll, Invalidate, LeaveTeardown,
         At
<1> QED
  BY <1>1, <1>2, AllCases DEF Base

\* Nobody begins to quit.
LEMMA NoQuitStep == Undisturbed /\ Base /\ NoQuit /\ [Next]_vars => NoQuit'
<1> SUFFICES ASSUME Undisturbed, Base, NoQuit, [Next]_vars PROVE NoQuit'
  OBVIOUS
<1> USE DEF NoQuit, Base, Placed, At, Goto
<1>1. ASSUME NEW t \in Starters, StartMixDirect(t) PROVE NoQuit'
  BY <1>1 DEF StartMixDirect, ending
<1>2. CASE StopRuntime \/ QueryStatus
  BY <1>2 DEF StopRuntime, QueryStatus, ending
<1>3. ASSUME NEW t \in Starters, StarterStep(t)
      PROVE  NoQuit'
  BY <1>3 DEF StarterStep, Enter, Opening, SpawnStarter, Prepare, Observe, Launching, Launch,
     LaunchFails, Ready, WaitFails, Publishing, Vet, Abandon, Commit, Check, Concluding, Leave,
     Judge, FinishCancelledStart, CompleteStartSuccess, FinalizeStartFailure, Tidying, TakeAll,
     ReapAll, ending
<1>4. ASSUME NEW t \in Stoppers, StopperStep(t) PROVE NoQuit'
  BY <1>4 DEF StopperStep, Reporting, SpawnStopper, Mark, StatusReport, Respawn, Invalidate,
              Enter, Tidying, TakeAll, ReapAll, LeaveTeardown, ending
<1>5. CASE Noticing \/ Tidying(Main)
  BY <1>5 DEF Noticing, Inspect, FinalizeUnexpectedExit, Tidying, TakeAll, ReapAll, ending
<1>6. CASE Outside
  BY <1>6 DEF Outside, Crash, vars, ending
<1> QED
  BY <1>1, <1>2, <1>3, <1>4, <1>5, <1>6, CalmCases

\* A worker is active from the command that accepts it to its own end.
LEMMA OneOfEachStep == Undisturbed /\ Base /\ Control /\ [Next]_vars => OneOfEach'
<1> SUFFICES ASSUME Undisturbed, Base, Control, [Next]_vars PROVE OneOfEach'
  OBVIOUS
<1> USE DEF Control, NoQuit, OneOfEach, Active, Ended, Base, Placed, At, Goto
<1>1. ASSUME NEW t \in Starters, StartMixDirect(t) PROVE OneOfEach'
  BY <1>1 DEF StartMixDirect, Undisturbed
<1>2. CASE StopRuntime \/ QueryStatus
  BY <1>2 DEF StopRuntime, QueryStatus
<1>3. ASSUME NEW t \in Starters, StarterStep(t)
      PROVE  OneOfEach'
  <2>1. Active(t) /\ \A u \in Workers \ {t} : pc'[u] = pc[u]
    BY <1>3 DEF StarterStep, Enter, Opening, SpawnStarter, Prepare, Observe, Launching, Launch,
       LaunchFails, Ready, WaitFails, Publishing, Vet, Abandon, Commit, Check, Concluding, Leave,
       Judge, FinishCancelledStart, CompleteStartSuccess, FinalizeStartFailure, Tidying, TakeAll,
       ReapAll
  <2> QED
    BY <2>1
<1>4. ASSUME NEW t \in Stoppers, StopperStep(t) PROVE OneOfEach'
  <2>1. /\ Active(t) \/ SpawnStopper(t)
        /\ \A u \in Workers \ {t} : pc'[u] = pc[u]
    BY <1>4 DEF StopperStep, Reporting, SpawnStopper, Mark, StatusReport, Respawn, Invalidate,
              Enter, Tidying, TakeAll, ReapAll, LeaveTeardown
  <2>2. SpawnStopper(t) => Alone
    BY DEF SpawnStopper, Phases
  <2> QED
    BY <2>1, <2>2 DEF Alone
<1>5. CASE Noticing \/ Tidying(Main)
  BY <1>5 DEF Noticing, Inspect, FinalizeUnexpectedExit, Tidying, TakeAll, ReapAll
<1>6. CASE Outside
  BY <1>6 DEF Outside, Crash, vars
<1> QED
  BY <1>1, <1>2, <1>3, <1>4, <1>5, <1>6, CalmCases

\* The phase follows the main thread, the start and the stop.
LEMMA PhasesStep == Undisturbed /\ Base /\ Control /\ [Next]_vars => Phases'
<1> SUFFICES ASSUME Undisturbed, Base, Control, [Next]_vars PROVE Phases'
  OBVIOUS
<1> USE DEF Control, NoQuit, OneOfEach, Alone, Active, Ended, Base, Placed, At, Goto
<1>1. ASSUME NEW t \in Starters, StartMixDirect(t) PROVE Phases'
  BY <1>1 DEF StartMixDirect, BeginStart, Undisturbed, Phases, Stopping
<1>2. CASE StopRuntime \/ QueryStatus
  BY <1>2 DEF StopRuntime, QueryStatus, Settled, Undisturbed, Phases, Stopping, locals, life
<1>3. ASSUME NEW t \in Starters, StarterStep(t)
      PROVE  Phases'
  <2>1. /\ \A u \in Stoppers : pc'[u] = pc[u] /\ owned' = owned
        /\ pc'[Main] = pc[Main] \/ pc'[Main] = "idle"
        /\ phase' = phase \/ (phase = "starting" /\ phase' \in {"stopped", "running"}
                              /\ pc[t] \in {"cancelled", "publish", "finalize"})
    BY <1>3 DEF StarterStep, Enter, Opening, SpawnStarter, Prepare, Observe, Launching, Launch,
       LaunchFails, Ready, WaitFails, Publishing, Vet, Abandon, Commit, Check, Concluding, Leave,
       Judge, FinishCancelledStart, CompleteStartSuccess, FinalizeStartFailure, Tidying, TakeAll,
       ReapAll, locals, life
  <2>2. pc[t] \in {"cancelled", "publish", "finalize"} => pc[Main] # "start"
    BY DEF Tickets
  <2> QED
    BY <2>1, <2>2 DEF Phases, Stopping
<1>4. ASSUME NEW t \in Stoppers, StopperStep(t) PROVE Phases'
  <2>1. CASE SpawnStopper(t)
    BY <2>1 DEF SpawnStopper, Phases, Stopping, life, locals
  <2>2. CASE Mark(t)
    <3>1. owned'[t] = (failed[t] /\ FailureKeepsRunning)
      BY <2>2 DEF Mark, Noted
    <3>2. phase' = (IF owned'[t] THEN "running" ELSE "stopped")
      BY <2>2, <3>1 DEF Mark
    <3>3. pc[t] = "mark" /\ pc'[t] = "report" /\ \A u \in Threads \ {t} : pc'[u] = pc[u]
      BY <2>2 DEF Mark
    <3>4. \A u \in Stoppers \ {t} : Ended(u)
      BY <3>3
    <3>5. pc[Main] \in {"idle", "stop"} /\ pc[Main] # "stop"
      BY <3>3 DEF Phases, Stopping
    <3> QED
      BY <3>1, <3>2, <3>3, <3>4, <3>5 DEF Phases, Stopping
  <2>3. CASE StatusReport(t) \/ Respawn(t)
    BY <2>3 DEF StatusReport, Respawn, Phases, Stopping, life, locals
  <2>4. CASE Invalidate(t) \/ Enter(t) \/ Tidying(t) \/ LeaveTeardown(t)
    <3>1. /\ phase' = phase /\ owned' = owned
          /\ pc[t] \in Stopping /\ pc'[t] \in Stopping
          /\ \A u \in Threads \ {t} : pc'[u] = pc[u]
      BY <2>4 DEF Invalidate, Enter, Tidying, TakeAll, ReapAll, LeaveTeardown, Stopping, life,
                  locals
    <3> QED
      BY <3>1 DEF Phases, Stopping
  <2> QED
    BY <1>4, <2>1, <2>2, <2>3, <2>4 DEF StopperStep, Reporting
<1>5. CASE Noticing \/ Tidying(Main)
  BY <1>5 DEF Noticing, Inspect, FinalizeUnexpectedExit, Tidying, TakeAll, ReapAll, Phases,
              Stopping, life, locals
<1>6. CASE Outside
  BY <1>6 DEF Outside, Crash, vars, life, locals, Phases
<1> QED
  BY <1>1, <1>2, <1>3, <1>4, <1>5, <1>6, CalmCases

\* The ticket of the start that the phase is about stays the current one.
LEMMA TicketsStep == Undisturbed /\ Base /\ Control /\ [Next]_vars => Tickets'
<1> SUFFICES ASSUME Undisturbed, Base, Control, [Next]_vars PROVE Tickets'
  OBVIOUS
<1> USE DEF Control, NoQuit, OneOfEach, Active, Ended, Base, Placed, At, Goto
<1>1. ASSUME NEW t \in Starters, StartMixDirect(t) PROVE Tickets'
  BY <1>1 DEF StartMixDirect, BeginStart, Undisturbed, Noted, Tickets
<1>2. CASE StopRuntime \/ QueryStatus
  BY <1>2 DEF StopRuntime, QueryStatus, locals, life, Tickets
<1>3. ASSUME NEW t \in Starters, StarterStep(t)
      PROVE  Tickets'
  <2>1. /\ \A u \in Starters \ {t} : pc'[u] = pc[u] /\ failed'[u] = failed[u]
        /\ ticket' = ticket /\ generation' = generation
        /\ phase' = "starting" => phase = "starting"
    BY <1>3 DEF StarterStep, Enter, Opening, SpawnStarter, Prepare, Observe, Launching, Launch,
       LaunchFails, Ready, WaitFails, Publishing, Vet, Abandon, Commit, Check, Concluding, Leave,
       Judge, FinishCancelledStart, CompleteStartSuccess, FinalizeStartFailure, Tidying, TakeAll,
       ReapAll, locals, life, Noted
  <2>2. Active(t) /\ pc'[t] # "accepted"
    BY <1>3 DEF StarterStep, Enter, Opening, SpawnStarter, Prepare, Observe, Launching, Launch,
       LaunchFails, Ready, WaitFails, Publishing, Vet, Abandon, Commit, Check, Concluding, Leave,
       Judge, FinishCancelledStart, CompleteStartSuccess, FinalizeStartFailure, Tidying, TakeAll,
       ReapAll
  <2>3. \/ pc'[Main] = pc[Main] /\ pc[t] # "accepted"
        \/ pc[t] = "accepted" /\ pc'[Main] = "idle"
    BY <1>3 DEF StarterStep, Enter, Opening, SpawnStarter, Prepare, Observe, Launching, Launch,
       LaunchFails, Ready, WaitFails, Publishing, Vet, Abandon, Commit, Check, Concluding, Leave,
       Judge, FinishCancelledStart, CompleteStartSuccess, FinalizeStartFailure, Tidying, TakeAll,
       ReapAll
  <2>4. pc'[t] \in {"cancelled", "publish"} => Judge(t)
    BY <1>3 DEF StarterStep, Enter, Opening, SpawnStarter, Prepare, Observe, Launching, Launch,
       LaunchFails, Ready, WaitFails, Publishing, Vet, Abandon, Commit, Check, Concluding, Leave,
       Judge, FinishCancelledStart, CompleteStartSuccess, FinalizeStartFailure, Tidying, TakeAll,
       ReapAll
  <2>5. Judge(t) => /\ pc'[t] = "cancelled" => generation # ticket[t]
                    /\ pc'[t] = "publish" => ~failed[t] /\ failed' = failed
    BY DEF Judge, locals
  <2> QED
    BY <2>1, <2>2, <2>3, <2>4, <2>5 DEF Tickets
<1>4. ASSUME NEW t \in Stoppers, StopperStep(t) PROVE Tickets'
  <2>3. ticket' = ticket /\ \A u \in Starters : failed'[u] = failed[u]
    BY <1>4 DEF StopperStep, Reporting, SpawnStopper, Mark, StatusReport, Respawn, Invalidate,
                Enter, Tidying, TakeAll, ReapAll, LeaveTeardown, locals, Noted
  <2>4. \A u \in Starters : pc'[u] = pc[u]
    BY <1>4 DEF StopperStep, Reporting, SpawnStopper, Mark, StatusReport, Respawn, Invalidate,
                Enter, Tidying, TakeAll, ReapAll, LeaveTeardown
  <2>6. ~SpawnStopper(t) => generation' = generation /\ pc'[Main] = pc[Main]
    BY <1>4 DEF StopperStep, Reporting, Mark, StatusReport, Respawn, Invalidate,
                Enter, Tidying, TakeAll, ReapAll, LeaveTeardown, life
  <2>5. phase' = "starting" => phase = "starting"
    BY <1>4 DEF StopperStep, Reporting, SpawnStopper, Mark, StatusReport, Respawn, Invalidate,
                Enter, Tidying, TakeAll, ReapAll, LeaveTeardown, life
  <2>1. /\ \A u \in Starters : pc'[u] = pc[u] /\ failed'[u] = failed[u]
        /\ ticket' = ticket
        /\ SpawnStopper(t) \/ (generation' = generation /\ pc'[Main] = pc[Main])
        /\ phase' = "starting" => phase = "starting"
    BY <2>3, <2>4, <2>5, <2>6
  <2>2. SpawnStopper(t) => pc[Main] = "stop" /\ pc'[Main] = "idle" /\ phase' = "stopping"
    BY DEF SpawnStopper, Phases
  <2> QED
    BY <2>1, <2>2 DEF Tickets
<1>5. CASE Noticing \/ Tidying(Main)
  <2>1. /\ \A u \in Starters : pc'[u] = pc[u] /\ failed'[u] = failed[u]
        /\ ticket' = ticket /\ generation' = generation
        /\ pc[Main] # "start" /\ pc'[Main] # "start"
        /\ phase' = "starting" => phase = "starting"
    BY <1>5 DEF Noticing, Inspect, FinalizeUnexpectedExit, Tidying, TakeAll, ReapAll, locals, life,
                Noted
  <2> QED
    BY <2>1 DEF Tickets
<1>6. CASE Outside
  BY <1>6 DEF Outside, Crash, vars, life, locals, Tickets
<1> QED
  BY <1>1, <1>2, <1>3, <1>4, <1>5, <1>6, CalmCases

\* No start goes on inside a transaction whose phase is over.
LEMMA NotInsideStep == Undisturbed /\ Base /\ Control /\ [Next]_vars => NotInside'
<1> SUFFICES ASSUME Undisturbed, Base, Control, [Next]_vars PROVE NotInside'
  OBVIOUS
<1> USE DEF Control, NoQuit, OneOfEach, Active, Ended, Alone, Base, Placed, At, Goto
<1>1. ASSUME NEW t \in Starters, StartMixDirect(t) PROVE NotInside'
  <2>1. \A u \in Stoppers : pc'[u] \notin Tearing
    BY <1>1 DEF StartMixDirect, Undisturbed, Tearing
  <2> QED
    BY <1>1, <2>1 DEF StartMixDirect, BeginStart, NotInside
<1>2. CASE StopRuntime \/ QueryStatus
  <2>1. /\ \A u \in Workers : pc'[u] = pc[u]
        /\ phase' \in {"stopped", "running"} => phase' = phase
    BY <1>2 DEF StopRuntime, QueryStatus, life
  <2> QED
    BY <2>1 DEF NotInside
<1>3. ASSUME NEW t \in Starters, StarterStep(t)
      PROVE  NotInside'
  <2>1. /\ \A u \in Workers \ {t} : pc'[u] = pc[u]
        /\ Active(t)
    BY <1>3 DEF StarterStep, Enter, Opening, SpawnStarter, Prepare, Observe, Launching, Launch,
       LaunchFails, Ready, WaitFails, Publishing, Vet, Abandon, Commit, Check, Concluding, Leave,
       Judge, FinishCancelledStart, CompleteStartSuccess, FinalizeStartFailure, Tidying, TakeAll,
       ReapAll
  <2>2. phase' = phase \/ pc'[t] = "done"
    BY <1>3 DEF StarterStep, Enter, Opening, SpawnStarter, Prepare, Observe, Launching, Launch,
       LaunchFails, Ready, WaitFails, Publishing, Vet, Abandon, Commit, Check, Concluding, Leave,
       Judge, FinishCancelledStart, CompleteStartSuccess, FinalizeStartFailure, Tidying, TakeAll,
       ReapAll, life
  <2>3. pc'[t] \in Inside => pc[t] \in Inside \/ (phase = "starting" /\ phase' = phase)
    BY <1>3 DEF StarterStep, Enter, Opening, SpawnStarter, Prepare, Observe, Launching, Launch,
       LaunchFails, Ready, WaitFails, Publishing, Vet, Abandon, Commit, Check, Concluding, Leave,
       Judge, FinishCancelledStart, CompleteStartSuccess, FinalizeStartFailure, Tidying, TakeAll,
       ReapAll, life, Inside, Cancelled
  <2>4. phase = "starting" => \A u \in Stoppers : pc[u] \notin Tearing
    BY DEF Phases, Tearing
  <2>5. CASE pc'[t] = "done"
    BY <2>1, <2>5 DEF NotInside, Inside
  <2>6. CASE phase' = phase
    BY <2>1, <2>3, <2>4, <2>6 DEF NotInside
  <2> QED
    BY <2>2, <2>5, <2>6
<1>4. ASSUME NEW t \in Stoppers, StopperStep(t) PROVE NotInside'
  <2>1. \A u \in Starters : pc'[u] = pc[u]
    BY <1>4 DEF StopperStep, Reporting, SpawnStopper, Mark, StatusReport, Respawn, Invalidate,
              Enter, Tidying, TakeAll, ReapAll, LeaveTeardown
  <2>2. CASE Enter(t)
    <3>1. \A u \in Starters : pc[u] \notin Inside
      BY <2>2 DEF Enter, Locking, Locked, Inside
    <3> QED
      BY <2>1, <3>1 DEF NotInside
  <2>3. CASE ~Enter(t)
    <3>1. /\ \A u \in Stoppers \ {t} : pc'[u] = pc[u]
          /\ pc'[t] \in Tearing => pc[t] \in Tearing
          /\ phase' = phase \/ pc[t] \in Tearing
      BY <1>4, <2>3 DEF StopperStep, Reporting, SpawnStopper, Mark, StatusReport, Respawn,
                        Invalidate, Tidying, TakeAll, ReapAll, LeaveTeardown, life, Tearing
    <3> QED
      BY <2>1, <3>1 DEF NotInside
  <2> QED
    BY <2>2, <2>3
<1>5. CASE Noticing \/ Tidying(Main)
  <2>1. /\ \A u \in Workers : pc'[u] = pc[u]
        /\ phase' = phase \/ pc[Main] = "unlock"
    BY <1>5 DEF Noticing, Inspect, FinalizeUnexpectedExit, Tidying, TakeAll, ReapAll, life
  <2>2. pc[Main] = "unlock" => \A u \in Starters : pc[u] \notin Inside
    BY DEF Locking, Locked, Inside
  <2> QED
    BY <2>1, <2>2 DEF NotInside
<1>6. CASE Outside
  BY <1>6 DEF Outside, Crash, vars, life, NotInside
<1> QED
  BY <1>1, <1>2, <1>3, <1>4, <1>5, <1>6, CalmCases

\* The phase, the threads and the tickets fit together in every undisturbed instance.
LEMMA ControlStep == Undisturbed /\ Base /\ Control /\ [Next]_vars => Control'
<1>1. Control => NoQuit
  BY DEF Control
<1> QED
  BY <1>1, NoQuitStep, OneOfEachStep, PhasesStep, TicketsStep, NotInsideStep DEF Control

-------------------------------------------------------------------------------
(* Who owns what.                                                          *)

\* The processes that run, are owned by a slot or are in the hand of a thread.
Held(p) == (\E s \in Slots : slot[s] = p) \/ \E t \in Threads : p \in hand[t]
Around == {p \in Process : p \in alive \/ Held(p)}

\* No process runs on its own.
Tracked == \A p \in alive : Held(p)

\* All of them belong to one start, the one that is under way if there is one; and
\* there is none before a start launches its first, nor when all is stopped.
Sole ==
  /\ \A p, q \in Around : p[2] = q[2]
  /\ \A t \in Starters : Active(t) => \A p \in Around : p[2] = t
  /\ \A t \in Starters : pc[t] \in Before => Around = {}
  /\ phase = "stopped" => Around = {}

\* The slots that a start has still to fill are free.
Free ==
  \A t \in Starters :
    pc[t] \in Holding \cup {"launch"} => \A i \in 1..Len(todo[t]) : slot[todo[t][i]] = None

\* What a start that succeeds and a teardown that fails leave owned.
Filled ==
  /\ \A t \in Starters : pc[t] \in {"take", "reap"} => failed[t]
  /\ \A t \in Starters : phase = "starting" /\ Succeeding(t) => OwnsResources
  /\ \A t \in Stoppers : pc[t] \in {"unlock", "mark"} => (failed[t] <=> OwnsResources)
  /\ pc[Main] = "unlock" => (failed[Main] <=> OwnsResources)
  /\ pc[Main] \in {"take", "reap", "unlock"} => phase = "running"

Owning == Tracked /\ Sole /\ Free /\ Filled

\* No step but a launch brings a process into being.
LEMMA AroundStep ==
  ASSUME Base, [Next]_vars
  PROVE  \/ Around' \subseteq Around
         \/ \E t \in Starters : Launch(t) /\ \A p \in Around' : p \in Around \/ p[2] = t
<1> USE DEF Around, Held
<1>1. CASE UNCHANGED procs
  BY <1>1 DEF procs
<1>2. ASSUME NEW t \in Starters, Launch(t)
      PROVE  \A p \in Around' : p \in Around \/ p[2] = t
  BY <1>2 DEF Launch, Base, Handed
<1>3. ASSUME NEW t \in Starters, Handling(t) PROVE Around' \subseteq Around
  <2>1. PICK p \in Process :
          /\ hand[t] = {p} /\ hand' = [hand EXCEPT ![t] = {}]
          /\ slot' = [slot EXCEPT ![p[1]] = p] \/ slot' = slot
          /\ alive' = alive \/ alive' = alive \ {p}
    BY <1>3, HandlingMoves
  <2>2. \A s \in Slots : slot'[s] = slot[s] \/ slot'[s] = p
    BY <2>1 DEF Base, Filed
  <2> QED
    BY <2>1, <2>2 DEF Base, Handed
<1>4. ASSUME NEW t \in Threads, Tidying(t) PROVE Around' \subseteq Around
  <2>1. CASE TakeAll(t)
    <3>1. None \notin Process
      BY DEF Process
    <3>2. /\ alive' = alive /\ \A s \in Slots : slot'[s] = None
          /\ \A u \in Threads : hand'[u] = (IF u = t THEN Slotted ELSE hand[u])
      BY <2>1, TakingMoves DEF Base, Handed
    <3>3. ASSUME NEW p \in Process, NEW u \in Threads, p \in hand'[u] PROVE p \in Around
      <4>1. CASE u = t
        <5>2. p \in Slotted
          BY <3>2, <3>3, <4>1
        <5>1. \E s \in Slots : slot[s] = p
          BY <5>2 DEF Slotted
        <5> QED
          BY <5>1
      <4>2. CASE u # t
        BY <3>2, <3>3, <4>2
      <4> QED
        BY <4>1, <4>2
    <3> QED
      BY <3>1, <3>2, <3>3
  <2>2. CASE ReapAll(t)
    <3>1. PICK kept \in SUBSET hand[t] :
            /\ alive' = alive \ (hand[t] \ kept)
            /\ hand' = [hand EXCEPT ![t] = {}]
            /\ \A s \in Slots : slot'[s] # None => slot'[s] \in kept
      BY <2>2, ReapingMoves
    <3>2. None \notin Process
      BY DEF Process
    <3> QED
      BY <3>1, <3>2 DEF Base, Handed
  <2> QED
    BY <1>4, <2>1, <2>2 DEF Tidying
<1>5. CASE Inspect
  <2>1. None \notin Process
    BY DEF Process
  <2>2. hand' = hand /\ alive' = alive /\ \A s \in Slots : slot'[s] \in {slot[s], None}
    BY <1>5 DEF Inspect, Base, Filed, Slots
  <2> QED
    BY <2>1, <2>2
<1>6. ASSUME NEW p \in Process, Crash(p) PROVE Around' \subseteq Around
  BY <1>6 DEF Crash
<1> QED
  BY <1>1, <1>2, <1>3, <1>4, <1>5, <1>6, ProcsKept

\* No step lets go of a process that runs.
LEMMA TrackedStep == Base /\ Tracked /\ Free /\ [Next]_vars => Tracked'
<1> SUFFICES ASSUME Base, Tracked, Free, [Next]_vars, NEW q \in alive'
             PROVE  Held(q)'
  BY DEF Tracked
<1> USE DEF Held
<1>1. CASE UNCHANGED procs
  BY <1>1 DEF procs, Tracked
<1>2. ASSUME NEW t \in Starters, Launch(t) PROVE Held(q)'
  <2>1. hand[t] = {} /\ hand' = [hand EXCEPT ![t] = {<<Head(todo[t]), t>>}] /\ slot' = slot
    BY <1>2 DEF Launch, At, Base, Handed, Holding
  <2>2. q \in alive \/ q = <<Head(todo[t]), t>>
    BY <1>2 DEF Launch
  <2> QED
    BY <2>1, <2>2 DEF Tracked, Base, Handed
<1>3. ASSUME NEW t \in Starters, Handling(t) PROVE Held(q)'
  <2>1. PICK p \in Process :
          /\ hand[t] = {p} /\ hand' = [hand EXCEPT ![t] = {}]
          /\ p[1] = todo[t][1] /\ p[1] \in Slots /\ 1 \in 1..Len(todo[t])
          /\ slot' = [slot EXCEPT ![p[1]] = p] \/ slot' = slot
          /\ alive' = alive \/ alive' = alive \ {p}
          /\ slot[p[1]] = None => slot' = [slot EXCEPT ![p[1]] = p] \/ p \notin alive'
    BY <1>3, HandlingMoves
  <2>2. slot[p[1]] = None
    BY <1>3, <2>1 DEF Free, Handling, WaitFails, Abandon, Commit, At, Holding
  <2>3. q \in alive /\ None \notin Process /\ q \in Process
    BY <2>1 DEF Process, Base, Filed
  <2>4. CASE q = p
    BY <2>1, <2>2, <2>4 DEF Base, Filed
  <2>5. CASE q # p
    BY <2>1, <2>2, <2>3, <2>5 DEF Tracked, Base, Filed, Handed
  <2> QED
    BY <2>4, <2>5
<1>4. ASSUME NEW t \in Threads, TakeAll(t) PROVE Held(q)'
  <2>1. q \in alive /\ None \notin Process /\ q \in Process
    BY <1>4, TakingMoves DEF Process, Base, Filed
  <2> QED
    BY <1>4, <2>1, TakingMoves DEF Tracked, Base, Handed, Slotted
<1>5. ASSUME NEW t \in Threads, ReapAll(t) PROVE Held(q)'
  <2>1. PICK kept \in SUBSET hand[t] :
          /\ alive' = alive \ (hand[t] \ kept)
          /\ hand' = [hand EXCEPT ![t] = {}]
          /\ \A s \in Slots : slot[s] = None
          /\ \A p \in kept : p[1] \in Slots /\ slot'[p[1]] = p
    BY <1>5, ReapingMoves
  <2>2. q \in alive /\ q # None
    BY <2>1 DEF Process, Base, Filed
  <2> QED
    BY <2>1, <2>2 DEF Tracked, Base, Handed
<1>6. CASE Inspect
  <2>1. hand' = hand /\ alive' = alive
    BY <1>6 DEF Inspect
  <2>2. \A s \in Slots : slot[s] = q => slot'[s] = q
    BY <1>6, <2>1 DEF Inspect, Dead, Base, Filed, Slots
  <2> QED
    BY <2>1, <2>2 DEF Tracked
<1>7. ASSUME NEW p \in Process, Crash(p) PROVE Held(q)'
  BY <1>7 DEF Crash, Tracked
<1> QED
  BY <1>1, <1>2, <1>3, <1>4, <1>5, <1>6, <1>7, ProcsKept DEF Tidying

\* Where nothing is owned and no hand is full, there is nothing.
LEMMA NothingAround ==
  ASSUME Base, Tracked, ~OwnsResources, \A t \in Threads : hand[t] = {}
  PROVE  Around = {}
BY DEF Around, Tracked, Held, OwnsResources, Process, Base, Filed

\* ... which is where a phase that says stopped comes from.
LEMMA StoppedNothing ==
  ASSUME Undisturbed, Base, Control, Owning, [Next]_vars, phase # "stopped", phase' = "stopped"
  PROVE  Around = {}
<1> USE DEF Control, NoQuit, OneOfEach, Active, Ended, Alone, Base, Placed, At, Goto
<1>1. ASSUME lock = None PROVE \A t \in Threads : hand[t] = {}
  BY <1>1 DEF Locking, Locked, Handed, Holding
<1>2. ASSUME NEW t \in Starters, Concluding(t) PROVE Around = {}
  <2>1. ~FinishCancelledStart(t)
    BY DEF FinishCancelledStart, life, Tickets
  <2>2. FinalizeStartFailure(t)
    BY <1>2, <2>1 DEF Concluding, Leave, Judge, FinishCancelledStart, CompleteStartSuccess, life
  <2>3. lock = None /\ ~OwnsResources
    BY <2>2 DEF FinalizeStartFailure, FailureKeepsRunning
  <2> QED
    BY <1>1, <2>3, NothingAround DEF Owning
<1>3. ASSUME NEW t \in Stoppers, StopperStep(t) PROVE Around = {}
  <2>1. Mark(t)
    BY <1>3 DEF StopperStep, Reporting, SpawnStopper, StatusReport, Respawn, Invalidate,
                Enter, Tidying, TakeAll, ReapAll, LeaveTeardown, life
  <2>2. pc[t] = "mark" /\ ~OwnsResources
    BY <2>1 DEF Mark, FailureKeepsRunning, Owning, Filled
  <2>3. pc[Main] \in {"idle", "stop"} /\ \A u \in Stoppers : pc[u] \in {"unborn", "done", "mark"}
    BY <2>2 DEF Phases, Stopping
  <2>4. \A u \in Starters : pc[u] \notin Inside
    BY <2>2 DEF NotInside, Tearing
  <2>5. \A u \in Threads : hand[u] = {}
    BY <2>3, <2>4 DEF Handed, Holding, Inside
  <2> QED
    BY <2>2, <2>5, NothingAround DEF Owning
<1>4. CASE Noticing
  <2>1. FinalizeUnexpectedExit
    BY <1>4 DEF Noticing, Inspect, life
  <2>2. pc[Main] = "unlock" /\ ~OwnsResources
    BY <2>1 DEF FinalizeUnexpectedExit, FailureKeepsRunning, Owning, Filled
  <2>3. \A u \in Threads : hand[u] = {}
    BY <2>2 DEF Locking, Locked, Handed, Holding
  <2> QED
    BY <2>2, <2>3, NothingAround DEF Owning
<1>5. ASSUME NEW t \in Starters, StartMixDirect(t) PROVE FALSE
  BY <1>5 DEF StartMixDirect, BeginStart
<1>6. StopRuntime \/ QueryStatus \/ Tidying(Main) \/ Outside => FALSE
  BY DEF StopRuntime, QueryStatus, Tidying, TakeAll, ReapAll, Outside, Crash, vars, life
<1>7. ASSUME NEW t \in Starters,
             Enter(t) \/ Opening(t) \/ Launching(t) \/ Publishing(t) \/ Tidying(t)
      PROVE  FALSE
  BY <1>7 DEF Enter, Opening, SpawnStarter, Prepare, Observe, Launching, Launch, LaunchFails,
              Ready, WaitFails, Publishing, Vet, Abandon, Commit, Check, Tidying, TakeAll,
              ReapAll, life
<1> QED
  BY <1>2, <1>3, <1>4, <1>5, <1>6, <1>7, CalmCases DEF StarterStep

\* One start owns all there is.
LEMMA SoleStep ==
  Undisturbed /\ Base /\ Control /\ Owning /\ [Next]_vars => Sole'
<1> SUFFICES ASSUME Undisturbed, Base, Control, Owning, [Next]_vars PROVE Sole'
  OBVIOUS
<1>1. OneOfEach'
  BY ControlStep DEF Control
<1>2. \A t \in Starters :
        /\ (Active(t))' => Active(t) \/ StartMixDirect(t)
        /\ pc'[t] \in Before => pc[t] \in Before \/ StartMixDirect(t)
  <2>1. ASSUME NEW t \in Starters, StartMixDirect(t)
        PROVE  \A u \in Starters \ {t} : pc'[u] = pc[u]
    BY <2>1 DEF StartMixDirect, Base, Placed
  <2>2. ASSUME NEW t \in Starters, StarterStep(t)
        PROVE  /\ Active(t) /\ \A u \in Starters \ {t} : pc'[u] = pc[u]
               /\ pc'[t] \in Before => pc[t] \in Before
    BY <2>2 DEF Before, StarterStep, Enter, Opening, SpawnStarter, Prepare, Observe, Launching,
       Launch, LaunchFails, Ready, WaitFails, Publishing, Vet, Abandon, Commit, Check, Concluding,
       Leave, Judge, FinishCancelledStart, CompleteStartSuccess, FinalizeStartFailure, Tidying,
       TakeAll, ReapAll, Active, Ended, At, Goto, Base, Placed
  <2>3. ASSUME NEW t \in Stoppers, StopperStep(t) PROVE \A u \in Starters : pc'[u] = pc[u]
    BY <2>3 DEF StopperStep, Reporting, SpawnStopper, Mark, StatusReport, Respawn, Invalidate,
              Enter, Tidying, TakeAll, ReapAll, LeaveTeardown, At, Goto, Base, Placed
  <2>4. CASE StopRuntime \/ QueryStatus \/ Noticing \/ Tidying(Main) \/ Outside
    BY <2>4 DEF StopRuntime, QueryStatus, Noticing, Inspect, FinalizeUnexpectedExit, Tidying,
                TakeAll, ReapAll, Outside, Crash, vars, Goto, Base, Placed, Active, Ended
  <2> QED
    BY <2>1, <2>2, <2>3, <2>4, CalmCases DEF Control, Active, Ended
<1>3. \A t \in Starters : StartMixDirect(t) => Around = {}
  BY DEF StartMixDirect, BeginStart, Owning, Sole
<1>4. ASSUME NEW t \in Starters, Launch(t), NEW p \in Around', p \notin Around PROVE p[2] = t
  BY <1>4, AroundStep DEF Launch, Around, Held, Base, Handed
<1>5. \A t \in Starters :
        Launch(t) => pc[t] = "launch" /\ pc'[t] = "wait" /\ Active(t) /\ phase' = phase
  BY DEF Launch, At, Goto, Active, Ended, Base, Placed, life
<1>6. \A t \in Starters : (Active(t))' => \A p \in Around' : p[2] = t
  <2> SUFFICES ASSUME NEW t \in Starters, (Active(t))', NEW p \in Around' PROVE p[2] = t
    OBVIOUS
  <2>1. CASE p \in Around
    BY <1>2, <1>3, <2>1 DEF Owning, Sole
  <2>2. CASE p \notin Around
    <3>1. PICK u \in Starters : Launch(u)
      BY <2>2, AroundStep
    <3>2. u = t
      BY <1>1, <1>5, <3>1 DEF OneOfEach, Active, Ended
    <3> QED
      BY <1>4, <2>2, <3>1, <3>2
  <2> QED
    BY <2>1, <2>2
<1>7. \A p, q \in Around' : p[2] = q[2]
  <2>1. CASE Around' \subseteq Around
    BY <2>1 DEF Owning, Sole
  <2>2. ASSUME NEW t \in Starters, Launch(t), \A p \in Around' : p \in Around \/ p[2] = t
        PROVE  \A p, q \in Around' : p[2] = q[2]
    BY <1>5, <2>2 DEF Owning, Sole
  <2> QED
    BY <2>1, <2>2, AroundStep
<1>8. \A t \in Starters : pc'[t] \in Before => Around' = {}
  <2> SUFFICES ASSUME NEW t \in Starters, pc'[t] \in Before PROVE Around' = {}
    OBVIOUS
  <2>1. Around = {}
    BY <1>2, <1>3 DEF Owning, Sole
  <2>2. ~\E u \in Starters : Launch(u)
    BY <1>1, <1>5 DEF OneOfEach, Active, Ended, Before
  <2> QED
    BY <2>1, <2>2, AroundStep
<1>9. phase' = "stopped" => Around' = {}
  <2> SUFFICES ASSUME phase' = "stopped" PROVE Around' = {}
    OBVIOUS
  <2>1. Around = {}
    BY StoppedNothing DEF Owning, Sole
  <2>2. ~\E u \in Starters : Launch(u)
    BY <1>5 DEF Control, NotInside, Inside
  <2> QED
    BY <2>1, <2>2, AroundStep
<1> QED
  BY <1>6, <1>7, <1>8, <1>9 DEF Sole

\* While a thread holds the lock, the slots are its own.
LEMMA SlotKept ==
  ASSUME Base, [Next]_vars, NEW t \in Threads, lock = t
  PROVE  slot' = slot \/ (t \in Starters /\ Handling(t)) \/ Tidying(t)
<1>1. \A u \in Starters : Handling(u) => u = t
  BY DEF Handling, WaitFails, Abandon, Commit, At, Base, Locking, Locked
<1>2. \A u \in Threads : Tidying(u) => u = t
  BY DEF Tidying, TakeAll, ReapAll, At, Base, Locking, Locked
<1>3. ~Inspect
  BY DEF Inspect
<1>4. \A u \in Starters : Launch(u) => slot' = slot
  BY DEF Launch
<1>5. \A p \in Process : Crash(p) => slot' = slot
  BY DEF Crash
<1> QED
  BY <1>1, <1>2, <1>3, <1>4, <1>5, ProcsKept DEF procs

\* The slots that a start has still to fill stay free: nobody else fills them.
LEMMA FreeStep == Undisturbed /\ Base /\ Control /\ Owning /\ [Next]_vars => Free'
<1> SUFFICES ASSUME Undisturbed, Base, Control, Owning, [Next]_vars,
                    NEW t \in Starters, pc'[t] \in Holding \cup {"launch"},
                    NEW i \in 1..Len(todo'[t])
             PROVE  slot'[todo'[t][i]] = None
  BY DEF Free
<1>0. NoQuit /\ Base' /\ todo[t] \in Seq(Slots) /\ todo'[t] \in Seq(Slots)
  BY BaseStep DEF Control, Base, Queued
<1>1. todo'[t][i] \in Slots
  BY <1>0
<1>2. /\ pc[t] \in Holding \cup {"launch", "observe"}
      /\ ~Tidying(t)
      /\ Handling(t) => Commit(t)
      /\ todo'[t] = todo[t] \/ Commit(t)
      /\ pc[t] = "observe" => ~Handling(t)
  <2>1. CASE pc'[t] = pc[t]
    <3>1. ~Tidying(t) /\ ~StartMixDirect(t) /\ ~Handling(t)
      BY <2>1, SetsAside DEF Base, Placed, Tidying, TakeAll, ReapAll, At, Goto, StartMixDirect,
                             Handling, Holding
    <3>2. todo'[t] = todo[t]
      BY <1>0, <2>1, <3>1, StarterKept DEF StarterStep, Base, Enter, Opening, SpawnStarter,
         Prepare, Observe, Launching, Launch, LaunchFails, Ready, Publishing, Vet, Check,
         Concluding, Leave, Judge, FinishCancelledStart, CompleteStartSuccess,
         FinalizeStartFailure, locals, Handling
    <3> QED
      BY <2>1, <3>1, <3>2
  <2>2. CASE pc'[t] # pc[t]
    <3>1. CASE StartMixDirect(t) \/ Enter(t) \/ Concluding(t) \/ Tidying(t)
      BY <3>1 DEF StartMixDirect, Enter, Concluding, Leave, Judge, FinishCancelledStart,
                  CompleteStartSuccess, FinalizeStartFailure, Tidying, TakeAll, ReapAll, Base,
                  Placed, Goto, At, Holding
    <3>2. CASE Opening(t) \/ Launch(t) \/ LaunchFails(t) \/ Ready(t) \/ Vet(t) \/ Check(t)
      BY <3>2 DEF Opening, SpawnStarter, Prepare, Observe, Launch, LaunchFails, Ready, Vet, Check,
                  Base, Placed, Goto, At, Holding, locals, Handling, WaitFails, Abandon, Commit,
                  Tidying, TakeAll, ReapAll
    <3>3. CASE Handling(t)
      BY <3>3 DEF Handling, WaitFails, Abandon, Commit, Base, Placed, Goto, At, Holding, Tidying,
                  TakeAll, ReapAll
    <3> QED
      BY <1>0, <2>2, <3>1, <3>2, <3>3, StarterKept DEF StarterStep, Launching, Publishing, Handling
  <2> QED
    BY <2>1, <2>2
<1>3. lock = t
  BY <1>2 DEF Base, Locking, Locked, Holding
<1>4. slot' = slot \/ Commit(t)
  BY <1>2, <1>3, SlotKept
<1>5. CASE pc[t] = "observe"
  <2>1. \A s \in Slots : slot[s] = None
    BY <1>5 DEF Owning, Sole, Before, Around, Held, Base, Filed
  <2>2. slot' = slot
    BY <1>2, <1>4, <1>5 DEF Handling
  <2> QED
    BY <1>1, <2>1, <2>2
<1>6. CASE pc[t] # "observe" /\ ~Commit(t)
  BY <1>2, <1>4, <1>6 DEF Owning, Free
<1>7. CASE pc[t] # "observe" /\ Commit(t)
  <2>1. /\ todo' = [todo EXCEPT ![t] = Tail(@)] /\ todo[t] # <<>>
        /\ \A j, k \in 1..Len(todo[t]) : todo[t][j] = todo[t][k] => j = k
    BY <1>7 DEF Commit, At, Base, Queued, Holding
  <2>2. todo'[t] = Tail(todo[t])
    BY <2>1 DEF Base, Queued
  <2>7. \A k \in 1..Len(Tail(todo[t])) :
          \E j \in 1..Len(todo[t]) : Tail(todo[t])[k] = todo[t][j] /\ todo[t][j] # Head(todo[t])
    BY <1>0, <2>1, TailDistinct
  <2>3. \E j \in 1..Len(todo[t]) : todo'[t][i] = todo[t][j] /\ todo[t][j] # Head(todo[t])
    BY <2>2, <2>7
  <2>4. \E p \in Process : p[1] = todo[t][1] /\ slot' = [slot EXCEPT ![p[1]] = p]
    BY <1>7, HandlingMoves DEF Handling
  <2>5. Head(todo[t]) = todo[t][1]
    BY <1>0, <2>1
  <2>6. slot'[todo'[t][i]] = slot[todo'[t][i]]
    BY <1>1, <2>3, <2>4, <2>5 DEF Base, Filed
  <2> QED
    BY <1>2, <1>7, <2>3, <2>6 DEF Owning, Free
<1> QED
  BY <1>5, <1>6, <1>7

\* While the phase says starting, only the start touches the slots.
LEMMA StartingSlots ==
  ASSUME Base, Control, [Next]_vars, phase = "starting"
  PROVE  slot' = slot \/ \E t \in Starters : Handling(t) \/ Tidying(t)
<1>1. pc[Main] \in {"idle", "start"} /\ pc[Exit] = "idle"
  BY DEF Control, Phases, NoQuit
<1>2. \A t \in Stoppers : pc[t] \in {"unborn", "done"}
  BY DEF Control, Phases, Alone, Ended
<1>3. ~Inspect /\ \A t \in Threads : Tidying(t) => t \in Starters
  BY <1>1, <1>2 DEF Inspect, Tidying, TakeAll, ReapAll, At
<1>4. \A u \in Starters : Launch(u) => slot' = slot
  BY DEF Launch
<1>5. \A p \in Process : Crash(p) => slot' = slot
  BY DEF Crash
<1> QED
  BY <1>3, <1>4, <1>5, ProcsKept DEF procs

\* Only a command makes the phase say starting.
LEMMA StartingKept ==
  ASSUME Undisturbed, Base, NoQuit, [Next]_vars, phase' = "starting"
  PROVE  phase = "starting" \/ \E t \in Starters : StartMixDirect(t)
<1>1. StopRuntime \/ QueryStatus \/ Noticing \/ Tidying(Main) \/ Outside => phase = "starting"
  BY DEF StopRuntime, QueryStatus, Noticing, Inspect, FinalizeUnexpectedExit, Tidying, TakeAll,
         ReapAll, Outside, Crash, vars, life
<1>2. ASSUME NEW t \in Starters, StarterStep(t)
      PROVE  phase = "starting"
  BY <1>2 DEF StarterStep, Enter, Opening, SpawnStarter, Prepare, Observe, Launching, Launch,
     LaunchFails, Ready, WaitFails, Publishing, Vet, Abandon, Commit, Check, Concluding, Leave,
     Judge, FinishCancelledStart, CompleteStartSuccess, FinalizeStartFailure, Tidying, TakeAll,
     ReapAll, life
<1>3. ASSUME NEW t \in Stoppers, StopperStep(t) PROVE phase = "starting"
  BY <1>3 DEF StopperStep, Reporting, SpawnStopper, Mark, StatusReport, Respawn, Invalidate,
              Enter, Tidying, TakeAll, ReapAll, LeaveTeardown, life
<1> QED
  BY <1>1, <1>2, <1>3, CalmCases

\* A start that succeeds has something to show.
LEMMA SuccessOwns ==
  ASSUME Undisturbed, Base, Control, Owning, [Next]_vars
  PROVE  \A t \in Starters : phase' = "starting" /\ (Succeeding(t))' => OwnsResources'
<1> SUFFICES ASSUME NEW t \in Starters, phase' = "starting", (Succeeding(t))'
             PROVE  OwnsResources'
  OBVIOUS
<1> USE DEF Base, Placed, Noted, At, Goto
<1>1. CASE Commit(t)
  <2>1. \E p \in Process : p[1] \in Slots /\ slot' = [slot EXCEPT ![p[1]] = p]
    BY <1>1, HandlingMoves DEF Handling
  <2> QED
    BY <2>1 DEF OwnsResources, Process, Filed
<1>2. CASE ~Commit(t)
  <2>1. \A u \in Starters : ~StartMixDirect(u)
    BY DEF StartMixDirect, Succeeding, Undisturbed, Ended
  <2>2. phase = "starting"
    BY <2>1, StartingKept DEF Control
  <2>3. Succeeding(t) /\ ~Handling(t) /\ ~Tidying(t)
    <3>1. CASE pc'[t] = pc[t] /\ failed'[t] = failed[t]
      <4>1. Succeeding(t)
        BY <3>1 DEF Succeeding
      <4>2. ~Handling(t) /\ ~Tidying(t)
        BY <3>1, SetsAside DEF Tidying, TakeAll, ReapAll, Handling, Holding
      <4> QED
        BY <4>1, <4>2
    <3>2. CASE Enter(t) \/ Opening(t) \/ Tidying(t)
      <4>1. CASE ReapAll(t)
        BY <4>1 DEF ReapAll, Succeeding, Owning, Filled
      <4>2. CASE Enter(t) \/ Opening(t) \/ TakeAll(t)
        BY <4>2 DEF Enter, Opening, SpawnStarter, Prepare, Observe, TakeAll, Succeeding
      <4> QED
        BY <3>2, <4>1, <4>2 DEF Tidying
    <3>3. CASE Launching(t) \/ Vet(t) \/ Abandon(t)
      BY <3>3 DEF Launching, Launch, LaunchFails, Ready, WaitFails, Vet, Abandon, Succeeding
    <3>4. CASE Check(t) \/ Concluding(t)
      <4>1. pc[t] \in {"check", "unlock", "judge", "cancelled", "publish", "finalize"}
        BY <3>4 DEF Check, Concluding, Leave, Judge, FinishCancelledStart, CompleteStartSuccess,
                    FinalizeStartFailure
      <4>2. ~Handling(t) /\ ~Tidying(t)
        BY <4>1 DEF Tidying, TakeAll, ReapAll, Handling, WaitFails, Abandon, Commit
      <4>3. Succeeding(t)
        BY <3>4 DEF Check, Concluding, Leave, Judge, FinishCancelledStart, CompleteStartSuccess,
                    FinalizeStartFailure, Succeeding, locals
      <4> QED
        BY <4>2, <4>3
    <3> QED
      BY <1>2, <2>1, <3>1, <3>2, <3>3, <3>4, StarterKept DEF StarterStep, Control, Publishing
  <2>4. \A u \in Starters : ~Handling(u) /\ ~Tidying(u)
    <3>1. \A u \in Starters : Handling(u) \/ Tidying(u) => Active(u)
      BY DEF Handling, WaitFails, Abandon, Commit, Tidying, TakeAll, ReapAll, Active, Ended
    <3>2. Active(t)
      BY <2>3 DEF Succeeding, Active, Ended
    <3> QED
      BY <2>3, <3>1, <3>2 DEF Control, OneOfEach
  <2>5. slot' = slot
    BY <2>2, <2>4, StartingSlots
  <2> QED
    BY <2>2, <2>3, <2>5 DEF Owning, Filled, OwnsResources
<1> QED
  BY <1>1, <1>2

\* The thread that has torn down knows whether something is left.
LEMMA ReapedOwns ==
  ASSUME Base, NEW t \in Threads \ Starters, ReapAll(t)
  PROVE  failed'[t] <=> OwnsResources'
<1>1. PICK kept \in SUBSET hand[t] :
        /\ failed' = [failed EXCEPT ![t] = IF t \in Starters THEN failed[t] ELSE kept # {}]
        /\ \A s \in Slots : slot'[s] # None => slot'[s] \in kept
        /\ \A p \in kept : p[1] \in Slots /\ slot'[p[1]] = p
  BY ReapingMoves
<1>2. failed'[t] = (kept # {})
  BY <1>1 DEF Base, Noted
<1>3. \A p \in kept : p # None
  BY DEF Base, Handed, Process
<1>4. OwnsResources' <=> kept # {}
  BY <1>1, <1>3 DEF OwnsResources
<1> QED
  BY <1>2, <1>4

\* ... and nobody changes that before it says so.
LEMMA StopOwns ==
  ASSUME Undisturbed, Base, Control, Owning, [Next]_vars
  PROVE  \A t \in Stoppers :
           pc'[t] \in {"unlock", "mark"} => (failed'[t] <=> OwnsResources')
<1> SUFFICES ASSUME NEW t \in Stoppers, pc'[t] \in {"unlock", "mark"}
             PROVE  failed'[t] <=> OwnsResources'
  OBVIOUS
<1>1. CASE ReapAll(t)
  BY <1>1, ReapedOwns
<1>2. CASE ~ReapAll(t)
  <2>1. pc[t] \in {"unlock", "mark"} /\ failed'[t] = failed[t]
    <3> USE DEF Base, Placed, Noted, At, Goto, locals
    <3>1. ASSUME NEW u \in Starters, StartMixDirect(u) \/ Enter(u) \/ Opening(u) \/ Tidying(u)
          PROVE  pc'[t] = pc[t] /\ failed'[t] = failed[t]
      BY <3>1 DEF StartMixDirect, Enter, Opening, SpawnStarter, Prepare, Observe, Tidying,
                  TakeAll, ReapAll
    <3>2. ASSUME NEW u \in Starters, Launching(u) \/ Publishing(u) \/ Concluding(u)
          PROVE  pc'[t] = pc[t] /\ failed'[t] = failed[t]
      BY <3>2 DEF Launching, Launch, LaunchFails, Ready, WaitFails, Publishing, Vet, Abandon,
                  Commit, Check, Concluding, Leave, Judge, FinishCancelledStart,
                  CompleteStartSuccess, FinalizeStartFailure
    <3>3. ASSUME NEW u \in Stoppers \ {t}, StopperStep(u)
          PROVE  pc'[t] = pc[t] /\ failed'[t] = failed[t]
      BY <3>3 DEF StopperStep, Reporting, SpawnStopper, Mark, StatusReport, Respawn, Invalidate,
              Enter, Tidying, TakeAll, ReapAll, LeaveTeardown
    <3>4. CASE StopperStep(t)
      BY <1>2, <3>4 DEF StopperStep, Reporting, SpawnStopper, Mark, StatusReport, Respawn,
                        Invalidate, Enter, Tidying, TakeAll, LeaveTeardown
    <3>5. CASE StopRuntime \/ QueryStatus \/ Noticing \/ Tidying(Main) \/ Outside
      BY <3>5 DEF StopRuntime, QueryStatus, Noticing, Inspect, FinalizeUnexpectedExit, Tidying,
                  TakeAll, ReapAll, Outside, Crash, vars
    <3> QED
      BY <3>1, <3>2, <3>3, <3>4, <3>5, CalmCases DEF StarterStep, Control
  <2>2. \A u \in Starters : pc[u] \notin Inside
    BY <2>1 DEF Control, NotInside, Tearing
  <2>3. pc[Main] \in {"idle", "stop"} /\ pc[Exit] = "idle"
    BY <2>1 DEF Control, Phases, Stopping, NoQuit
  <2>4. \A u \in Stoppers : u = t \/ pc[u] \in {"unborn", "done"}
    BY <2>1 DEF Control, OneOfEach, Active, Ended
  <2>5. ~Inspect /\ \A u \in Threads : ~Tidying(u)
    BY <1>2, <2>1, <2>2, <2>3, <2>4 DEF Inspect, Tidying, TakeAll, ReapAll, At, Inside
  <2>6. \A u \in Starters : ~Launch(u) /\ ~Handling(u)
    BY <2>2 DEF Launch, Handling, WaitFails, Abandon, Commit, At, Inside
  <2>7. \A p \in Process : Crash(p) => slot' = slot
    BY DEF Crash
  <2>8. slot' = slot
    BY <2>5, <2>6, <2>7, ProcsKept DEF procs
  <2> QED
    BY <2>1, <2>8 DEF Owning, Filled, OwnsResources
<1> QED
  BY <1>1, <1>2

\* What the main thread does of a teardown, and what others leave alone meanwhile.
LEMMA MainKept ==
  ASSUME Undisturbed, Base, Control, [Next]_vars, pc'[Main] \in {"take", "reap", "unlock"}
  PROVE  \/ Tidying(Main) \/ Inspect
         \/ pc'[Main] = pc[Main] /\ failed'[Main] = failed[Main]
<1> USE DEF Base, Placed, Noted, At, Goto, locals
<1>1. ASSUME NEW u \in Starters, StartMixDirect(u) \/ Enter(u) \/ Opening(u) \/ Tidying(u)
      PROVE  pc'[Main] = pc[Main] /\ failed'[Main] = failed[Main]
  BY <1>1 DEF StartMixDirect, Enter, Opening, SpawnStarter, Prepare, Observe, Tidying,
              TakeAll, ReapAll
<1>2. ASSUME NEW u \in Starters, Launching(u) \/ Publishing(u) \/ Concluding(u)
      PROVE  pc'[Main] = pc[Main] /\ failed'[Main] = failed[Main]
  BY <1>2 DEF Launching, Launch, LaunchFails, Ready, WaitFails, Publishing, Vet, Abandon,
              Commit, Check, Concluding, Leave, Judge, FinishCancelledStart,
              CompleteStartSuccess, FinalizeStartFailure
<1>3. ASSUME NEW u \in Stoppers, StopperStep(u)
      PROVE  pc'[Main] = pc[Main] /\ failed'[Main] = failed[Main]
  BY <1>3 DEF StopperStep, Reporting, SpawnStopper, Mark, StatusReport, Respawn, Invalidate,
              Enter, Tidying, TakeAll, ReapAll, LeaveTeardown
<1>4. CASE StopRuntime \/ QueryStatus \/ FinalizeUnexpectedExit \/ Outside
  BY <1>4 DEF StopRuntime, QueryStatus, FinalizeUnexpectedExit, Outside, Crash, vars
<1> QED
  BY <1>1, <1>2, <1>3, <1>4, CalmCases DEF StarterStep, Control, Noticing

\* A cleanup that the main thread has begun takes place in a running phase ...
LEMMA CleanupRuns ==
  ASSUME Undisturbed, Base, Control, Owning, [Next]_vars, pc'[Main] \in {"take", "reap", "unlock"}
  PROVE  phase' = "running"
<1>1. CASE Inspect
  <2>1. Around # {}
    BY <1>1 DEF Inspect, Goto, Dead, Around, Held, Base, Placed, Filed
  <2>2. phase = "running" /\ phase' = phase
    BY <1>1, <2>1 DEF Inspect, At, life, Owning, Sole, Control, Phases, Base, Phased
  <2> QED
    BY <2>2
<1>2. CASE ~Inspect
  <2>1. pc[Main] \in {"take", "reap", "unlock"} /\ ~FinalizeUnexpectedExit
    BY <1>2, MainKept DEF Tidying, TakeAll, ReapAll, At, FinalizeUnexpectedExit, Goto, Base, Placed
  <2>2. phase = "running" /\ Alone
    BY <2>1 DEF Owning, Filled, Control, Phases
  <2>3. ~StopRuntime /\ ~QueryStatus /\ \A t \in Starters : ~StartMixDirect(t)
    BY <2>1 DEF StopRuntime, QueryStatus, StartMixDirect, At
  <2>4. ASSUME NEW t \in Starters, StarterStep(t)
        PROVE  phase' = "running"
    BY <2>2, <2>4 DEF StarterStep, Enter, Opening, SpawnStarter, Prepare, Observe, Launching,
       Launch, LaunchFails, Ready, WaitFails, Publishing, Vet, Abandon, Commit, Check, Concluding,
       Leave, Judge, FinishCancelledStart, CompleteStartSuccess, FinalizeStartFailure, Tidying,
       TakeAll, ReapAll, life
  <2>5. ASSUME NEW t \in Stoppers, StopperStep(t) PROVE phase' = "running"
    BY <2>1, <2>2, <2>5 DEF Alone, Ended, At, StopperStep, Reporting, SpawnStopper, Mark,
       StatusReport, Respawn, Invalidate, Enter, Tidying, TakeAll, ReapAll, LeaveTeardown
  <2>6. Tidying(Main) \/ Outside => phase' = "running"
    BY <2>2 DEF Tidying, TakeAll, ReapAll, Outside, Crash, vars, life
  <2> QED
    BY <1>2, <2>1, <2>3, <2>4, <2>5, <2>6, CalmCases DEF Control, Noticing
<1> QED
  BY <1>1, <1>2

\* ... and its result is judged by what is left then.
LEMMA CleanupOwns ==
  ASSUME Undisturbed, Base, Control, Owning, [Next]_vars, pc'[Main] = "unlock"
  PROVE  failed'[Main] <=> OwnsResources'
<1>1. CASE ReapAll(Main)
  BY <1>1, ReapedOwns
<1>2. CASE ~ReapAll(Main)
  <2>1. pc[Main] = "unlock" /\ failed'[Main] = failed[Main]
    BY <1>2, MainKept DEF Tidying, TakeAll, Inspect, Goto, Base, Placed
  <2>2. lock = Main /\ ~Tidying(Main)
    BY <2>1 DEF Base, Locking, Locked, Tidying, TakeAll, ReapAll, At
  <2>3. slot' = slot
    BY <2>2, SlotKept
  <2> QED
    BY <2>1, <2>3 DEF Owning, Filled, OwnsResources
<1> QED
  BY <1>1, <1>2

\* Every step keeps what is owned in order.
LEMMA OwningStep == Undisturbed /\ Base /\ Control /\ Owning /\ [Next]_vars => Owning'
<1> SUFFICES ASSUME Undisturbed, Base, Control, Owning, [Next]_vars PROVE Owning'
  OBVIOUS
<1>1. Tracked' /\ Sole' /\ Free'
  BY TrackedStep, SoleStep, FreeStep DEF Owning
<1>2. Filled'
  BY TeardownFailed, SuccessOwns, StopOwns, CleanupOwns, CleanupRuns DEF Owning, Filled
<1> QED
  BY <1>1, <1>2 DEF Owning

-------------------------------------------------------------------------------
(* What the user sees.                                                     *)

\* The status agrees with the phase, but for a stop that has still to report.
Shown ==
  (\A t \in Stoppers : pc[t] # "report") =>
    /\ phase = "stopped" => status \in {"stopped", "error"}
    /\ phase = "running" => status = "running"

\* No poller outlives a stop ...
Silenced ==
  /\ phase = "stopped" => ~metrics.polled
  /\ \A t \in Stoppers : pc[t] \in {"enter"} \cup Tearing => ~metrics.polled

\* ... a start that succeeds has one ...
Watching(t) == pc[t] \in Holding \cup {"launch"} \/ Succeeding(t)
Watched ==
  \A t \in Starters :
    phase = "starting" => /\ pc[t] = "observe" => metrics.by = t
                          /\ Watching(t) => metrics.polled

\* ... and a running phase too, but for a stop that has still to bring it back.
Attended ==
  phase = "running" /\ session # None /\ lock # Main
    /\ (\A t \in Stoppers : pc[t] \notin {"report", "respawn"}) => metrics.polled

Polling == Silenced /\ Watched /\ Attended

\* The status is written with the phase, or before it is at rest.
LEMMA ShownStep == Undisturbed /\ Base /\ Control /\ Shown /\ [Next]_vars => Shown'
<1> SUFFICES ASSUME Undisturbed, Base, Control, Shown, [Next]_vars PROVE Shown'
  OBVIOUS
<1> USE DEF Base, Placed, At, Goto
<1>1. ASSUME NEW t \in Starters, StartMixDirect(t) PROVE Shown'
  BY <1>1 DEF StartMixDirect, BeginStart, Shown
<1>2. CASE StopRuntime \/ QueryStatus
  BY <1>2 DEF StopRuntime, QueryStatus, life, Shown
<1>3. ASSUME NEW t \in Starters, StarterStep(t)
      PROVE  Shown'
  <2>1. \A u \in Stoppers : pc'[u] = pc[u]
    BY <1>3 DEF StarterStep, Enter, Opening, SpawnStarter, Prepare, Observe, Launching, Launch,
       LaunchFails, Ready, WaitFails, Publishing, Vet, Abandon, Commit, Check, Concluding, Leave,
       Judge, FinishCancelledStart, CompleteStartSuccess, FinalizeStartFailure, Tidying, TakeAll,
       ReapAll
  <2>2. CASE Concluding(t)
    BY <2>1, <2>2 DEF Concluding, Leave, Judge, FinishCancelledStart, CompleteStartSuccess,
                      FinalizeStartFailure, life, Shown
  <2>3. CASE ~Concluding(t)
    <3>1. phase' = phase
      BY <1>3, <2>3 DEF StarterStep, Enter, Opening, SpawnStarter, Prepare, Observe, Launching,
         Launch, LaunchFails, Ready, WaitFails, Publishing, Vet, Abandon, Commit, Check, Tidying,
         TakeAll, ReapAll, life
    <3>2. phase \in {"stopped", "running"} => status' = status
      <4>1. SpawnStarter(t) => phase = "starting"
        BY DEF SpawnStarter, Control, Tickets, Phases
      <4>2. Observe(t) => status' = status \/ phase = "starting"
        BY DEF Observe, Cancelled
      <4>3. LaunchFails(t) \/ WaitFails(t) \/ Check(t) => phase \notin {"stopped", "running"}
        BY DEF LaunchFails, WaitFails, Check, Control, NotInside, Inside
      <4>4. Enter(t) \/ Prepare(t) \/ Launch(t) \/ Ready(t) \/ Vet(t) \/ Abandon(t) \/ Commit(t)
              \/ Tidying(t) => status' = status
        BY DEF Enter, Prepare, Launch, Ready, Vet, Abandon, Commit, Tidying, TakeAll, ReapAll,
               life
      <4> QED
        BY <1>3, <2>3, <4>1, <4>2, <4>3, <4>4 DEF StarterStep, Opening, Launching, Publishing
    <3> QED
      BY <2>1, <3>1, <3>2 DEF Shown
  <2> QED
    BY <2>2, <2>3
<1>4. ASSUME NEW t \in Stoppers, StopperStep(t) PROVE Shown'
  <2>1. CASE StatusReport(t)
    BY <2>1 DEF StatusReport, Control, Phases, Shown
  <2>2. CASE Mark(t)
    BY <2>2 DEF Mark, Shown
  <2>3. CASE SpawnStopper(t)
    BY <2>3 DEF SpawnStopper, Control, Phases, Shown
  <2>4. CASE Respawn(t) \/ Invalidate(t) \/ Enter(t) \/ Tidying(t) \/ LeaveTeardown(t)
    <3>1. /\ life' = life /\ pc[t] # "report"
          /\ \A u \in Stoppers \ {t} : pc'[u] = pc[u]
      BY <2>4 DEF Respawn, Invalidate, Enter, Tidying, TakeAll, ReapAll, LeaveTeardown
    <3> QED
      BY <3>1 DEF life, Shown
  <2> QED
    BY <1>4, <2>1, <2>2, <2>3, <2>4 DEF StopperStep, Reporting
<1>5. CASE Noticing \/ Tidying(Main)
  BY <1>5 DEF Noticing, Inspect, FinalizeUnexpectedExit, Tidying, TakeAll, ReapAll, life, Shown
<1>6. CASE Outside
  BY <1>6 DEF Outside, Crash, vars, life, Shown
<1> QED
  BY <1>1, <1>2, <1>3, <1>4, <1>5, <1>6, CalmCases DEF Control

\* A start whose phase is gone touches neither the poller nor the session.
LEMMA LateStartPolling ==
  ASSUME Undisturbed, Base, Control, Polling, phase # "starting", NEW t \in Starters,
         StarterStep(t)
  PROVE  Polling'
<1> USE DEF Base, Placed, At, Goto
<1>1. \A u \in Stoppers : pc'[u] = pc[u]
  BY DEF StarterStep, Enter, Opening, SpawnStarter, Prepare, Observe, Launching, Launch,
     LaunchFails, Ready, WaitFails, Publishing, Vet, Abandon, Commit, Check, Concluding, Leave,
     Judge, FinishCancelledStart, CompleteStartSuccess, FinalizeStartFailure, Tidying, TakeAll,
     ReapAll
<1>2. phase' = phase /\ metrics' = metrics /\ session' = session
  BY DEF StarterStep, Enter, Opening, SpawnStarter, Prepare, Observe, Launching, Launch,
     LaunchFails, Ready, WaitFails, Publishing, Vet, Abandon, Commit, Check, Concluding, Leave,
     Judge, FinishCancelledStart, CompleteStartSuccess, FinalizeStartFailure, Tidying, TakeAll,
     ReapAll, Cancelled, life, observers
<1>3. lock = Main => lock' = Main
  BY DEF StarterStep, Enter, Opening, SpawnStarter, Prepare, Observe, Launching, Launch,
     LaunchFails, Ready, WaitFails, Publishing, Vet, Abandon, Commit, Check, Concluding, Leave,
     Judge, FinishCancelledStart, CompleteStartSuccess, FinalizeStartFailure, Tidying, TakeAll,
     ReapAll, Locking, Locked
<1> QED
  BY <1>1, <1>2, <1>3 DEF Polling, Silenced, Watched, Attended

\* A start polls from the moment it is observed until its phase is settled.
LEMMA StartPolling ==
  ASSUME Undisturbed, Base, Control, Owning, Polling, phase = "starting", NEW t \in Starters,
         StarterStep(t)
  PROVE  Polling'
<1> USE DEF Base, Placed, Noted, Observed, At, Goto
<1>1. /\ \A u \in Stoppers : pc'[u] \in {"unborn", "done"}
      /\ \A u \in Starters \ {t} : pc'[u] \in {"unborn", "done"}
  <2>1. Active(t)
    BY DEF StarterStep, Enter, Opening, SpawnStarter, Prepare, Observe, Launching, Launch,
       LaunchFails, Ready, WaitFails, Publishing, Vet, Abandon, Commit, Check, Concluding, Leave,
       Judge, FinishCancelledStart, CompleteStartSuccess, FinalizeStartFailure, Tidying, TakeAll,
       ReapAll, Active, Ended
  <2>2. \A u \in Starters \ {t} : pc[u] \in {"unborn", "done"}
    BY <2>1 DEF Control, OneOfEach, Active, Ended
  <2>3. \A u \in Workers \ {t} : pc'[u] = pc[u]
    BY DEF StarterStep, Enter, Opening, SpawnStarter, Prepare, Observe, Launching, Launch,
       LaunchFails, Ready, WaitFails, Publishing, Vet, Abandon, Commit, Check, Concluding, Leave,
       Judge, FinishCancelledStart, CompleteStartSuccess, FinalizeStartFailure, Tidying, TakeAll,
       ReapAll
  <2> QED
    BY <2>2, <2>3 DEF Control, Phases, Alone, Ended
<1>2. \A u \in Starters \ {t} : pc'[u] # "observe" /\ ~(Watching(u))'
  BY <1>1 DEF Watching, Holding, Succeeding
<1>3. CASE Enter(t) \/ SpawnStarter(t)
  BY <1>1, <1>2, <1>3 DEF Enter, SpawnStarter, life, observers, Polling, Silenced, Watched,
     Attended, Watching, Holding, Succeeding, Tearing
<1>4. CASE Prepare(t)
  <2>1. /\ phase' = "starting" /\ pc'[t] \in {"unlock", "observe"}
        /\ pc'[t] = "unlock" => failed'[t]
        /\ pc'[t] = "observe" => metrics'.by = t
    BY <1>4 DEF Prepare, Cancelled, NewMetricsGeneration, life
  <2>2. ~(Watching(t))'
    BY <2>1 DEF Watching, Holding, Succeeding
  <2> QED
    BY <1>1, <1>2, <2>1, <2>2 DEF Polling, Silenced, Watched, Attended, Tearing
<1>5. CASE Observe(t)
  <2>1. /\ phase' = "starting" /\ pc'[t] \in {"unlock", "launch"}
        /\ pc'[t] = "unlock" => failed'[t]
    BY <1>5 DEF Observe
  <2>2. pc'[t] = "launch" => metrics'.polled
    BY <1>5 DEF Observe, Polling, Watched
  <2>3. (Watching(t))' => metrics'.polled
    BY <2>1, <2>2 DEF Watching, Holding, Succeeding
  <2> QED
    BY <1>1, <1>2, <2>1, <2>3 DEF Polling, Silenced, Watched, Attended, Tearing
<1>6. CASE Launching(t) \/ Publishing(t) \/ Tidying(t) \/ Leave(t) \/ Judge(t)
             \/ FinishCancelledStart(t)
  <2>1. phase' = "starting" /\ metrics' = metrics
    BY <1>6 DEF Launching, Launch, LaunchFails, Ready, WaitFails, Publishing, Vet, Abandon, Commit,
                Check, Tidying, TakeAll, ReapAll, Leave, Judge, FinishCancelledStart, life,
                observers, Control, Tickets, Active, Ended
  <2>2. (Watching(t))' => Watching(t)
    <3>1. CASE Launching(t) \/ Publishing(t)
      BY <3>1 DEF Launching, Launch, LaunchFails, Ready, WaitFails, Publishing, Vet, Abandon,
                  Commit, Check, Watching, Holding, Succeeding
    <3>2. CASE Tidying(t) \/ Leave(t) \/ Judge(t) \/ FinishCancelledStart(t)
      BY <3>2 DEF Tidying, TakeAll, ReapAll, Leave, Judge, FinishCancelledStart, Watching, Holding,
                  Succeeding, Owning, Filled, locals
    <3> QED
      BY <1>6, <3>1, <3>2
  <2>3. pc'[t] # "observe"
    BY <1>6 DEF Launching, Launch, LaunchFails, Ready, WaitFails, Publishing, Vet, Abandon, Commit,
                Check, Tidying, TakeAll, ReapAll, Leave, Judge, FinishCancelledStart
  <2> QED
    BY <1>1, <1>2, <2>1, <2>2, <2>3 DEF Polling, Silenced, Watched, Attended, Tearing
<1>7. CASE CompleteStartSuccess(t)
  <2>1. metrics.polled /\ metrics' = metrics /\ phase' = "running"
    BY <1>7 DEF CompleteStartSuccess, observers, Polling, Watched, Watching, Succeeding, Control,
                Tickets, Active, Ended
  <2> QED
    BY <1>1, <2>1 DEF Polling, Silenced, Watched, Attended, Tearing
<1>8. CASE FinalizeStartFailure(t)
  <2>1. \/ phase' = "running" /\ (session' # None => metrics'.polled)
        \/ phase' = "stopped" /\ ~metrics'.polled
    BY <1>8 DEF FinalizeStartFailure, RestartObservers, NewMetricsGeneration, Control, Tickets,
                Active, Ended
  <2> QED
    BY <1>1, <2>1 DEF Polling, Silenced, Watched, Attended, Tearing
<1> QED
  BY <1>3, <1>4, <1>5, <1>6, <1>7, <1>8 DEF StarterStep, Opening, Concluding

\* A stop ends the poller before it asks for the lock, and brings one back if it failed.
LEMMA StopPolling ==
  ASSUME Undisturbed, Base, Control, Polling, NEW t \in Stoppers, StopperStep(t)
  PROVE  Polling'
<1> USE DEF Base, Placed, Noted, Observed, At, Goto
<1>1. \A u \in Stoppers \ {t} : pc'[u] = pc[u] /\ pc'[u] \in {"unborn", "done"}
  <2>1. Active(t) \/ SpawnStopper(t)
    BY DEF StopperStep, Reporting, SpawnStopper, Mark, StatusReport, Respawn, Invalidate,
              Enter, Tidying, TakeAll, ReapAll, LeaveTeardown, Active, Ended
  <2>2. SpawnStopper(t) => Alone
    BY DEF SpawnStopper, Control, Phases
  <2>3. \A u \in Stoppers \ {t} : pc[u] \in {"unborn", "done"}
    BY <2>1, <2>2 DEF Control, OneOfEach, Alone, Active, Ended
  <2>4. \A u \in Stoppers \ {t} : pc'[u] = pc[u]
    BY DEF StopperStep, Reporting, SpawnStopper, Mark, StatusReport, Respawn, Invalidate,
              Enter, Tidying, TakeAll, ReapAll, LeaveTeardown
  <2> QED
    BY <2>3, <2>4
<1>2. CASE SpawnStopper(t) \/ Invalidate(t) \/ Enter(t) \/ Tidying(t) \/ LeaveTeardown(t)
  <2>1. phase' = "stopping" /\ pc'[t] \in Stopping
    BY <1>2 DEF SpawnStopper, Invalidate, Enter, Tidying, TakeAll, ReapAll, LeaveTeardown, life,
                Control, Phases, Stopping
  <2>2. pc'[t] \in {"enter"} \cup Tearing => ~metrics'.polled
    BY <1>2 DEF SpawnStopper, Invalidate, NewMetricsGeneration, Enter, Tidying, TakeAll, ReapAll,
                LeaveTeardown, observers, Polling, Silenced, Tearing
  <2> QED
    BY <1>1, <2>1, <2>2 DEF Polling, Silenced, Watched, Attended, Tearing
<1>3. CASE Mark(t)
  <2>1. /\ phase' \in {"stopped", "running"} /\ pc'[t] = "report"
        /\ metrics' = metrics /\ ~metrics.polled
    BY <1>3 DEF Mark, observers, Polling, Silenced, Tearing
  <2> QED
    BY <1>1, <2>1 DEF Polling, Silenced, Watched, Attended, Tearing
<1>4. CASE StatusReport(t)
  <2>1. /\ phase' = phase /\ metrics' = metrics /\ session' = session /\ phase # "starting"
        /\ pc'[t] \in {"respawn", "done"}
        /\ phase = "running" /\ session # None => pc'[t] = "respawn"
    BY <1>4 DEF StatusReport, observers, Control, Phases
  <2> QED
    BY <1>1, <2>1 DEF Polling, Silenced, Watched, Attended, Tearing
<1>5. CASE Respawn(t)
  <2>1. phase' = "running" /\ metrics'.polled /\ pc'[t] = "done"
    BY <1>5 DEF Respawn, life, Control, Phases
  <2> QED
    BY <1>1, <2>1 DEF Polling, Silenced, Watched, Attended, Tearing
<1> QED
  BY <1>2, <1>3, <1>4, <1>5 DEF StopperStep, Reporting

\* The pollers follow the phase.
LEMMA PollingStep ==
  Undisturbed /\ Base /\ Control /\ Owning /\ Polling /\ [Next]_vars => Polling'
<1> SUFFICES ASSUME Undisturbed, Base, Control, Owning, Polling, [Next]_vars PROVE Polling'
  OBVIOUS
<1> USE DEF Base, Placed, Noted, Observed, At, Goto
<1>1. ASSUME NEW t \in Starters, StartMixDirect(t) PROVE Polling'
  <2>1. /\ phase' = "starting" /\ metrics' = metrics
        /\ \A u \in Workers : pc'[u] \in {"unborn", "done", "accepted"}
    BY <1>1 DEF StartMixDirect, BeginStart, observers, Undisturbed, Ended
  <2> QED
    BY <2>1 DEF Polling, Silenced, Watched, Attended, Watching, Holding, Succeeding, Tearing
<1>2. CASE StopRuntime \/ QueryStatus
  <2>1. /\ UNCHANGED <<metrics, session, lock, failed>> /\ \A u \in Workers : pc'[u] = pc[u]
        /\ phase' = phase \/ phase' = "stopping"
    BY <1>2 DEF StopRuntime, QueryStatus, life, observers, locals
  <2> QED
    BY <2>1 DEF Polling, Silenced, Watched, Attended, Watching, Succeeding
<1>3. CASE Noticing \/ Tidying(Main)
  <2>1. Alone /\ pc[Main] # "idle" /\ \A u \in Workers : pc'[u] = pc[u]
    BY <1>3 DEF Noticing, Inspect, FinalizeUnexpectedExit, Tidying, TakeAll, ReapAll, Control,
       Phases
  <2>2. phase' # "starting"
    BY <1>3 DEF Noticing, Inspect, FinalizeUnexpectedExit, Tidying, TakeAll, ReapAll, life,
                Control, Phases
  <2>3. phase' = "stopped" => ~metrics'.polled
    BY <1>3 DEF Noticing, Inspect, FinalizeUnexpectedExit, Tidying, TakeAll, ReapAll, life,
                observers, NewMetricsGeneration, RestartObservers, Polling, Silenced
  <2>4. phase' = "running" /\ session' # None /\ lock' # Main => metrics'.polled
    <3>1. CASE Noticing
      BY <2>1, <3>1 DEF Noticing, Inspect, FinalizeUnexpectedExit, life, observers, Alone, Ended,
                NewMetricsGeneration, RestartObservers, Polling, Attended
    <3>2. CASE Tidying(Main)
      BY <3>2 DEF Tidying, TakeAll, ReapAll, Locking, Locked
    <3> QED
      BY <1>3, <3>1, <3>2
  <2> QED
    BY <2>1, <2>2, <2>3, <2>4 DEF Polling, Silenced, Watched, Attended, Alone, Ended, Tearing
<1>4. CASE Outside
  BY <1>4 DEF Outside, Crash, vars, life, observers, locals, Polling, Silenced, Watched, Attended,
              Watching, Succeeding
<1> QED
  BY <1>1, <1>2, <1>3, <1>4, LateStartPolling, StartPolling, StopPolling, CalmCases DEF Control

-------------------------------------------------------------------------------
(* The promises.                                                           *)

Calm == Base /\ Control /\ Owning /\ Shown /\ Polling

\* Nothing is under way, owned or polled at first.
LEMMA InitCalm == Init => Calm
<1> SUFFICES ASSUME Init PROVE Calm
  OBVIOUS
<1>1. Base
  BY InitBase
<1>2. /\ \A t \in Starters : pc[t] = "unborn"
      /\ \A t \in Stoppers : pc[t] = "unborn"
      /\ pc[Main] = "idle" /\ pc[Exit] = "idle"
  BY DEF Init
<1>3. Control
  BY <1>2 DEF Init, Control, NoQuit, OneOfEach, Phases, Alone, Active, Ended, Tickets, NotInside,
              Inside, Tearing, Stopping
<1>4. Around = {}
  BY DEF Init, Around, Held, Process
<1>5. Owning
  BY <1>2, <1>4 DEF Init, Owning, Tracked, Sole, Free, Filled, Succeeding, Holding, Before
<1>6. Shown /\ Polling
  BY <1>2 DEF Init, Shown, Polling, Silenced, Watched, Attended, Tearing, Watching, Succeeding
<1> QED
  BY <1>1, <1>3, <1>5, <1>6 DEF Calm

\* Every step keeps Calm, as long as nobody quits and no command overtakes a worker.
LEMMA CalmStep == Undisturbed /\ Calm /\ [Next]_vars => Calm'
BY BaseStep, ControlStep, OwningStep, ShownStep, PollingStep DEF Calm

\* The invariant behind the promises of the host, for every number of workers.
THEOREM CalmHolds == Undisturbed => (Spec => []Calm)
<1> SUFFICES ASSUME Undisturbed PROVE Spec => []Calm
  OBVIOUS
<1> QED
  BY InitCalm, CalmStep, PTL DEF Spec

\* Every process that runs has an owner, whatever starts, stops, crashes and failed
\* teardowns come together.
THEOREM NoProcessIsLost == Undisturbed => (Spec => []NoOrphan)
<1> SUFFICES ASSUME Undisturbed PROVE Spec => []NoOrphan
  OBVIOUS
<1>1. Calm => NoOrphan
  BY DEF Calm, Base, Filed, Owning, Tracked, Held, NoOrphan, Slotted, Process
<1> QED
  BY <1>1, CalmHolds, PTL

\* No two VMs and no two sing-boxes run side by side.
THEOREM OneRuntime == Undisturbed => (Spec => []SingleRuntime)
<1> SUFFICES ASSUME Undisturbed PROVE Spec => []SingleRuntime
  OBVIOUS
<1>1. ASSUME Calm PROVE SingleRuntime
  <2> SUFFICES ASSUME NEW p \in alive, NEW q \in alive, p[1] = q[1] PROVE p = q
    BY DEF SingleRuntime
  <2>1. p \in Process /\ q \in Process
    BY <1>1 DEF Calm, Base, Filed
  <2>2. p[2] = q[2]
    BY <1>1, <2>1 DEF Calm, Owning, Sole, Around
  <2> QED
    BY <2>1, <2>2 DEF Process
<1> QED
  BY <1>1, CalmHolds, PTL

\* Stopped means stopped: nothing runs, nothing is owned, no start is inside.
THEOREM StoppedMeansStopped == Undisturbed => (Spec => []StoppedIsQuiet)
<1> SUFFICES ASSUME Undisturbed PROVE Spec => []StoppedIsQuiet
  OBVIOUS
<1>1. ASSUME Calm, phase = "stopped"
      PROVE  ~OwnsResources /\ alive = {} /\ \A t \in Starters : ~InTransaction(t)
  <2>1. Around = {}
    BY <1>1 DEF Calm, Owning, Sole
  <2>2. ~OwnsResources /\ alive = {}
    BY <1>1, <2>1 DEF Around, Held, OwnsResources, Calm, Base, Filed
  <2>3. \A t \in Starters : ~InTransaction(t)
    BY <1>1 DEF Calm, Control, NotInside, Inside, InTransaction
  <2> QED
    BY <2>2, <2>3
<1>2. Calm => StoppedIsQuiet
  BY <1>1 DEF StoppedIsQuiet
<1> QED
  BY <1>2, CalmHolds, PTL

\* With all workers at rest the user sees the phase.
THEOREM StatusIsThePhase == Undisturbed => (Spec => []StatusAgrees)
<1> SUFFICES ASSUME Undisturbed PROVE Spec => []StatusAgrees
  OBVIOUS
<1>1. Calm => StatusAgrees
  BY DEF Calm, Shown, StatusAgrees, AtRest, Ended
<1> QED
  BY <1>1, CalmHolds, PTL

\* No poller outlives the stop of its session.
THEOREM StoppedEndsThePoller == Undisturbed => (Spec => []StoppedIsNotPolled)
<1> SUFFICES ASSUME Undisturbed PROVE Spec => []StoppedIsNotPolled
  OBVIOUS
<1>1. Calm => StoppedIsNotPolled
  BY DEF Calm, Polling, Silenced, StoppedIsNotPolled
<1> QED
  BY <1>1, CalmHolds, PTL

\* A session is polled for as long as its runtime runs.
THEOREM RunningKeepsThePoller == Undisturbed => (Spec => []RunningIsPolled)
<1> SUFFICES ASSUME Undisturbed PROVE Spec => []RunningIsPolled
  OBVIOUS
<1>1. Calm => RunningIsPolled
  BY DEF Calm, Polling, Attended, RunningIsPolled, AtRest, Ended, Base, Locking, Locked
<1> QED
  BY <1>1, CalmHolds, PTL

================================================================================
