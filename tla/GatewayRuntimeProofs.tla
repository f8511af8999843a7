------------------------- MODULE GatewayRuntimeProofs -------------------------
(***************************************************************************)
(* The supervisor of GatewayRuntime for every number of starts and         *)
(* crashes, every launch mode and every set of failures: nothing is lost,  *)
(* the directory outlives the processes, vfkit runs behind its helpers and *)
(* no second Gateway starts next to an orphaned one.                       *)
(***************************************************************************)
EXTENDS GatewayRuntime, ProcessGroupProofs

USE GatewayAssumption

Empty(f) == \A r \in Roles : f[r] = None

\* The types, with hand and children as functions.
Typed ==
  /\ launchd \in Launchd
  /\ pc \in Labels
  /\ thread \in [Roles -> {"idle", "spawn", "pid", "wait", "ready", "failed"}]
  /\ hand \in [Roles -> Opt(Child)] /\ children \in [Roles -> Opt(Child)]
  /\ tried \subseteq Roles /\ sock \subseteq Helpers
  /\ slot \in BOOLEAN /\ dir \in BOOLEAN /\ cancelled \in BOOLEAN
  /\ readiness \in {"unknown", "starting", "ready", "failed", "stopped"}
  /\ orphans \subseteq Child
Counted == starts \in 0..MaxStarts /\ crashes \in 0..MaxCrashes

\* Every handle leads to the processes behind it, and none was dropped before.
Holds(f) == \A r \in Roles : f[r] # None => Tracked(f[r]) /\ f[r].role = r
Owned == Holds(hand) /\ Holds(children) /\ stray = {}

\* A thread runs only while the supervisor waits to join it, and holds its child
\* from the moment it was spawned.
Working ==
  /\ \A h \in Helpers : thread[h] # "idle" => pc = "helpers"
  /\ thread["vfkit"] # "idle" => pc = "vfkit"
  /\ \A r \in Roles : thread[r] \in {"idle", "spawn"} => hand[r] = None
  /\ \A r \in Roles : thread[r] \in {"pid", "wait", "ready"} => hand[r] # None

\* Children outside a start or a stop belong to the runtime that is registered.
Registered ==
  /\ pc \in {"idle", "reclaim", "helpers_left", "admit", "plan"} => Empty(children) \/ slot
  /\ pc = "plan" => ~slot
  /\ pc = "helpers" => Empty(children)

\* Where there is a child, or is about to be one, there is the directory.
Housed ==
  ~Empty(children) \/ ~Empty(hand) \/ pc \in {"helpers", "gate", "vfkit"} => dir

\* What earlier applications left running is gone before there is a child.
Reclaimed ==
  /\ pc \in {"admit", "plan", "helpers", "gate", "vfkit"}
       \/ ~Empty(children) \/ ~Empty(hand)
     => \A c \in orphans : c.leader # "up"
  /\ pc = "helpers_left" => \A c \in orphans : c.role = "vfkit" => c.leader # "up"

\* Sockets of both helpers before vfkit; a failed start gives vfkit up first.
Both == \A h \in Helpers : h \in sock /\ children[h] # None
Behind ==
  /\ \A h \in Helpers : thread[h] = "ready" => h \in sock
  /\ pc \in {"gate", "vfkit", "agent"} => Both
  /\ pc = "undo" /\ children["vfkit"] # None /\ "vfkit" \notin tried => Both

Inv == Typed /\ Counted /\ Owned /\ Working /\ Registered /\ Housed /\ Reclaimed /\ Behind

-------------------------------------------------------------------------------
(* The operators the actions are built from.                               *)

\* A child is not None.
LEMMA ChildNotNone ==
  ASSUME NEW c, Tracked(c)
  PROVE  c # None /\ c \in Child
BY DEF Tracked

\* There is something to hold when some role has it.
LEMMA HeldEmpty ==
  ASSUME NEW f
  PROVE  Held(f) = {} <=> Empty(f)
BY DEF Held, Empty

\* A child stopped successfully leaves nothing that runs on its own.
LEMMA DroppedNothing ==
  ASSUME NEW o, NEW c, Safe(o, c)
  PROVE  (IF o.ok THEN Dropped(o.c) ELSE {}) = {}
BY DEF Safe, Dropped

\* Putting one child in the place of another keeps every handle in order.
LEMMA HoldsExcept ==
  ASSUME NEW f \in [Roles -> Opt(Child)], Holds(f), NEW r \in Roles, NEW c,
         c # None => Tracked(c) /\ c.role = r
  PROVE  /\ [f EXCEPT ![r] = c] \in [Roles -> Opt(Child)]
         /\ Holds([f EXCEPT ![r] = c])
<1>1. c \in Opt(Child)
  BY ChildNotNone DEF Opt
<1> QED
  BY <1>1 DEF Holds

-------------------------------------------------------------------------------
(* Actions that touch no child.                                            *)

\* Nothing runs and nothing is owned at first.
LEMMA InitInv == Init => Inv
<1> SUFFICES ASSUME Init PROVE Inv
  OBVIOUS
<1>1. Typed
  BY DEF Init, Typed, Nothing, Opt, Labels
<1>4. Counted
  BY DEF Init, Counted
<1>2. Owned /\ Working
  BY DEF Init, Owned, Holds, Working, Nothing, Roles, Helpers
<1>3. Registered /\ Housed /\ Reclaimed /\ Behind
  BY DEF Init, Registered, Housed, Reclaimed, Behind, Empty, Nothing, Roles, Helpers
<1> QED
  BY <1>1, <1>2, <1>3, <1>4 DEF Inv

\* A step of the supervisor alone.
Quiet ==
  \/ Begin \/ Refuse("reclaim") \/ Refuse("helpers_left") \/ Refuse("admit") \/ Admit
  \/ PlanFails \/ AgentAnswers \/ SessionFails \/ SessionActive \/ TakeOwner \/ Request
  \/ Cancel \/ ReclaimFails \/ UNCHANGED vars

\* ... leaves threads, hands, children, sockets and orphans as they are.
LEMMA QuietInv == Inv /\ Quiet => Inv'
<1> SUFFICES ASSUME Inv, Quiet PROVE Inv'
  OBVIOUS
<1> USE DEF Inv
<1>1. Typed'
  <2>1. /\ pc' \in Labels
        /\ slot' \in BOOLEAN /\ cancelled' \in BOOLEAN /\ tried' \subseteq Roles
        /\ readiness' \in {"unknown", "starting", "ready", "failed", "stopped"}
    BY DEF Quiet, Typed, Labels, vars, steps, runtime, setting, Begin, Refuse, Admit, PlanFails,
           AgentAnswers, SessionFails, SessionActive, TakeOwner, Request, Cancel,
         ReclaimFails
  <2>2. UNCHANGED <<launchd, steps, children, dir, sock, orphans>>
    BY DEF Quiet, vars, steps, runtime, setting, Begin, Refuse, Admit, PlanFails,
           AgentAnswers, SessionFails, SessionActive, TakeOwner, Request, Cancel,
         ReclaimFails
  <2> QED
    BY <2>1, <2>2 DEF Typed, steps
<1>2. Owned' /\ Working'
  BY DEF Quiet, Owned, Holds, Working, vars, steps, runtime, setting, Begin, Refuse, Admit,
         PlanFails, AgentAnswers, SessionFails, SessionActive, TakeOwner, Request, Cancel,
         ReclaimFails
<1>3. Registered' /\ Housed'
  BY DEF Quiet, Registered, Housed, Empty, vars, steps, runtime, setting, Begin, Refuse, Admit,
         PlanFails, AgentAnswers, SessionFails, SessionActive, TakeOwner, Request, Cancel,
         ReclaimFails
<1>4. Reclaimed' /\ Behind'
  BY DEF Quiet, Reclaimed, Behind, Both, Empty, vars, steps, runtime, setting, Begin, Refuse,
         Admit, PlanFails, AgentAnswers, SessionFails, SessionActive, TakeOwner, Request, Cancel,
         ReclaimFails
<1>5. Counted'
  BY DEF Quiet, Counted, vars, steps, runtime, setting, Begin, Refuse,
         Admit, PlanFails, AgentAnswers, SessionFails, SessionActive, TakeOwner, Request, Cancel,
         ReclaimFails
<1> QED
  BY <1>1, <1>2, <1>3, <1>4, <1>5

-------------------------------------------------------------------------------
(* Before the first process.                                               *)

\* An orphaned vfkit has no leader any more; its descendants may stay.
LEMMA ReclaimVfkitInv == Inv /\ ReclaimVfkit => Inv'
<1> SUFFICES ASSUME Inv, ReclaimVfkit PROVE Inv'
  OBVIOUS
<1> USE DEF Inv
<1>1. PICK after \in [Found({"vfkit"}) -> {"left", "leader_left", "killed"}] :
        orphans' = {c \in orphans : c \notin DOMAIN after}
                     \cup {[c EXCEPT !.leader = "gone"] :
                             c \in {d \in DOMAIN after : after[d] = "leader_left" /\ d.rest}}
  BY DEF ReclaimVfkit
<1>2. ASSUME NEW c \in orphans'
      PROVE  /\ c \in Child
             /\ c.leader # "up" \/ (c \in orphans /\ c.role # "vfkit")
  <2>1. CASE c \in orphans /\ c \notin Found({"vfkit"})
    BY <2>1 DEF Typed, Found, Foreign
  <2>2. ASSUME NEW d \in Found({"vfkit"}), c = [d EXCEPT !.leader = "gone"]
        PROVE  c \in Child /\ c.leader = "gone"
    <3>1. d \in Child
      BY DEF Typed, Found
    <3> QED
      BY <2>2, <3>1 DEF Child
  <2> QED
    BY <1>1, <2>1, <2>2
<1>3. pc = "reclaim" /\ pc' = "helpers_left"
      /\ UNCHANGED <<steps, runtime, sock, cancelled, readiness, stray, setting>>
  BY DEF ReclaimVfkit
<1>4. Typed' /\ Counted'
  BY <1>2, <1>3 DEF Typed, Counted, Labels, steps, runtime, setting
<1>5. Owned' /\ Working' /\ Registered' /\ Housed'
  BY <1>3 DEF Owned, Holds, Working, Registered, Housed, Empty, steps, runtime
<1>6. Reclaimed' /\ Behind'
  BY <1>2, <1>3 DEF Reclaimed, Behind, Empty, steps, runtime
<1> QED
  BY <1>4, <1>5, <1>6

\* ... and then no helper either: a child may be started.
LEMMA ReclaimHelpersInv == Inv /\ ReclaimHelpers => Inv'
<1> SUFFICES ASSUME Inv, ReclaimHelpers PROVE Inv'
  OBVIOUS
<1> USE DEF Inv
<1>1. ASSUME NEW c \in orphans'
      PROVE  c \in Child /\ c.leader # "up"
  <2>1. CASE c \in orphans /\ c \notin Found(Helpers)
    <3>1. c \in Child /\ (c.role = "vfkit" \/ c.role \in Helpers)
      BY <2>1 DEF Typed, Child, Roles
    <3> QED
      BY <2>1, <3>1 DEF Found, Foreign, Reclaimed, ReclaimHelpers
  <2>2. ASSUME NEW d \in Found(Helpers), c = [d EXCEPT !.leader = "gone"]
        PROVE  c \in Child /\ c.leader = "gone"
    <3>1. d \in Child
      BY DEF Typed, Found
    <3> QED
      BY <2>2, <3>1 DEF Child
  <2> QED
    BY <2>1, <2>2 DEF ReclaimHelpers
<1>2. pc = "helpers_left" /\ pc' = "admit"
      /\ UNCHANGED <<steps, runtime, sock, cancelled, readiness, stray, setting>>
  BY DEF ReclaimHelpers
<1>3. Typed' /\ Counted'
  BY <1>1, <1>2 DEF Typed, Counted, Labels, steps, runtime, setting
<1>4. Owned' /\ Working' /\ Registered' /\ Housed'
  BY <1>2 DEF Owned, Holds, Working, Registered, Housed, Empty, steps, runtime
<1>5. Reclaimed' /\ Behind'
  BY <1>1, <1>2 DEF Reclaimed, Behind, Empty, steps, runtime
<1> QED
  BY <1>3, <1>4, <1>5

\* The first helpers start in a fresh directory and with no children.
LEMMA PlanInv == Inv /\ Plan => Inv'
<1> SUFFICES ASSUME Inv, Plan PROVE Inv'
  OBVIOUS
<1> USE DEF Inv
<1>1. /\ pc = "plan" /\ pc' \in {"helpers", "undo"}
      /\ dir' = TRUE /\ sock' = {} /\ children' = Nothing /\ tried' = {}
      /\ UNCHANGED <<hand, slot, cancelled, readiness, orphans, stray, setting>>
  BY DEF Plan
<1>2. \/ pc' = "undo" /\ UNCHANGED thread
      \/ /\ pc' = "helpers"
         /\ thread' = [r \in Roles |-> IF r \in Helpers THEN "spawn" ELSE "idle"]
  BY DEF Plan
<1>3. thread = [r \in Roles |-> "idle"] /\ Empty(hand)
  BY <1>1 DEF Working, Typed, Roles, Helpers, Empty
<1>4. Empty(children')
  BY <1>1 DEF Empty, Nothing
<1>5. Typed' /\ Counted'
  BY <1>1, <1>2 DEF Typed, Counted, Labels, Nothing, Opt, setting
<1>6. Owned' /\ Working'
  BY <1>1, <1>2, <1>3, <1>4 DEF Owned, Holds, Working, Empty, Roles, Helpers
<1>7. Registered' /\ Housed' /\ Reclaimed'
  BY <1>1, <1>3, <1>4 DEF Registered, Housed, Reclaimed, Empty
<1>8. Behind'
  BY <1>1, <1>2, <1>3, <1>4 DEF Behind, Empty, Roles, Helpers
<1> QED
  BY <1>5, <1>6, <1>7, <1>8

-------------------------------------------------------------------------------
(* start_step_isolated.                                                    *)

\* What the steps of a role have in common: its thread moves on with the child it
\* then holds.
MovesOn(r, t, c) ==
  /\ thread[r] # "idle" /\ t \in {"pid", "wait", "ready", "failed"}
  /\ c # None => Tracked(c) /\ c.role = r
  /\ t # "failed" => c # None
  /\ t = "ready" /\ r \in Helpers => r \in sock
  /\ thread' = [thread EXCEPT ![r] = t]
  /\ hand' = [hand EXCEPT ![r] = c]
  /\ UNCHANGED <<pc, runtime, sock, cancelled, readiness, orphans, stray, setting>>

\* Such a step needs nothing else to keep the invariant.
LEMMA MovesOnInv ==
  ASSUME Inv, NEW r \in Roles, NEW t, NEW c, MovesOn(r, t, c)
  PROVE  Inv'
<1> USE DEF Inv
<1>1. /\ pc \in {"helpers", "vfkit"}
      /\ r \in Helpers => pc = "helpers"
      /\ r = "vfkit" => pc = "vfkit"
  BY DEF MovesOn, Working, Roles
<1>2. hand' \in [Roles -> Opt(Child)] /\ Holds(hand')
  BY HoldsExcept DEF MovesOn, Typed, Owned
<1>3. Typed' /\ Counted'
  BY <1>2 DEF MovesOn, Typed, Counted, runtime, setting
<1>4. Owned'
  BY <1>2 DEF MovesOn, Owned, runtime
<1>5. Working'
  BY <1>1 DEF MovesOn, Typed, Working, Roles, Helpers
<1>6. Registered' /\ Housed' /\ Reclaimed'
  BY <1>1 DEF MovesOn, Registered, Housed, Reclaimed, Empty, runtime
<1>7. Behind'
  BY <1>1 DEF MovesOn, Typed, Behind, Both, Helpers, Roles, runtime
<1> QED
  BY <1>3, <1>4, <1>5, <1>6, <1>7

\* ManagedChild::spawn: the thread now holds a child of its role.
LEMMA SpawnInv == ASSUME Inv, NEW r \in Roles, Spawn(r) PROVE Inv'
<1>1. PICK c \in Spawned(r, launchd) : hand' = [hand EXCEPT ![r] = c]
  BY DEF Spawn
<1>2. Tracked(c) /\ c.role = r
  BY SpawnedTracked DEF Inv, Typed
<1>3. MovesOn(r, "pid", c)
  BY <1>1, <1>2, ChildNotNone DEF Spawn, MovesOn
<1> QED
  BY <1>3, MovesOnInv

\* A thread that leaves its hand as it is.
LEMMA KeepsHand ==
  ASSUME Inv, NEW r \in Roles, UNCHANGED hand
  PROVE  /\ hand' = [hand EXCEPT ![r] = hand[r]]
         /\ hand[r] # None => Tracked(hand[r]) /\ hand[r].role = r
BY DEF Inv, Typed, Owned, Holds

\* ... or fails without one.
LEMMA SpawnFailsInv == ASSUME Inv, NEW r \in Roles, SpawnFails(r) PROVE Inv'
<1>1. MovesOn(r, "failed", hand[r])
  BY KeepsHand DEF SpawnFails, MovesOn
<1> QED
  BY <1>1, MovesOnInv

\* with_child: a child that did not stop is kept, one that did leaves nothing.
LEMMA WithChildMovesOn ==
  ASSUME Inv, NEW r \in Roles, thread[r] \in {"pid", "wait"}, WithChild(r),
         UNCHANGED <<pc, runtime, sock, cancelled, readiness, orphans, setting>>
  PROVE  Inv'
<1>1. PICK o \in StopGroup(hand[r]) :
        /\ hand' = [hand EXCEPT ![r] = IF o.ok THEN None ELSE o.c]
        /\ stray' = stray \cup IF o.ok THEN Dropped(o.c) ELSE {}
  BY DEF WithChild
<1>2. Tracked(hand[r]) /\ hand[r].role = r
  BY DEF Inv, Working, Owned, Holds
<1>3. Safe(o, hand[r])
  BY <1>2, StopGroupSafe
<1>4. stray' = stray
  BY <1>1, <1>3, DroppedNothing
<1>5. MovesOn(r, "failed", IF o.ok THEN None ELSE o.c)
  BY <1>1, <1>2, <1>3, <1>4 DEF WithChild, MovesOn, Safe
<1> QED
  BY <1>5, MovesOnInv

\* The PID is known, or the child is stopped.
LEMMA ReadPidInv == ASSUME Inv, NEW r \in Roles, ReadPid(r) PROVE Inv'
<1>1. CASE WithChild(r)
  BY <1>1, WithChildMovesOn DEF ReadPid
<1>2. CASE thread' = [thread EXCEPT ![r] = "wait"] /\ UNCHANGED <<hand, stray>>
  <2>1. hand[r] # None
    BY DEF ReadPid, Inv, Working
  <2>2. MovesOn(r, "wait", hand[r])
    BY <1>2, <2>1, KeepsHand DEF ReadPid, MovesOn
  <2> QED
    BY <2>2, MovesOnInv
<1> QED
  BY <1>1, <1>2 DEF ReadPid

\* The child is ready; a helper has its socket.
LEMMA StepReadyInv == ASSUME Inv, NEW r \in Roles, StepReady(r) PROVE Inv'
<1>1. hand[r] # None
  BY DEF StepReady, Inv, Working
<1>2. MovesOn(r, "ready", hand[r])
  BY <1>1, KeepsHand DEF StepReady, MovesOn
<1> QED
  BY <1>2, MovesOnInv

\* The wait is over without success: the child is stopped.
LEMMA StepFailsInv == ASSUME Inv, NEW r \in Roles, StepFails(r) PROVE Inv'
BY WithChildMovesOn DEF StepFails

-------------------------------------------------------------------------------
(* start_with_cancellation.                                                *)

\* The steps of some roles hand over what they hold.
LEMMA CollectHolds ==
  ASSUME Inv, NEW roles \in SUBSET Roles, Collect(roles)
  PROVE  /\ hand' \in [Roles -> Opt(Child)] /\ children' \in [Roles -> Opt(Child)]
         /\ thread' = [r \in Roles |-> "idle"]
         /\ Holds(hand') /\ Holds(children')
         /\ ~Empty(children') \/ ~Empty(hand') => ~Empty(children) \/ ~Empty(hand)
<1>1. hand' \in [Roles -> Opt(Child)] /\ children' \in [Roles -> Opt(Child)]
  BY DEF Inv, Typed, Collect, Opt
<1>2. Holds(hand') /\ Holds(children')
  BY DEF Inv, Owned, Collect, Holds
<1> QED
  BY <1>1, <1>2 DEF Collect, Empty

\* When every thread has handed over what it held, no hand holds a child.
LEMMA CollectWorking ==
  ASSUME Inv, NEW roles \in SUBSET Roles, Collect(roles),
         \A r \in Roles \ roles : thread[r] = "idle"
  PROVE  Working'
BY DEF Inv, Typed, Working, Collect, Helpers, Roles

\* Both helpers hand over their children; only then, and with both sockets, the gate.
LEMMA JoinInv == Inv /\ Join => Inv'
<1> SUFFICES ASSUME Inv, Join PROVE Inv'
  OBVIOUS
<1> USE DEF Inv
<1>1. /\ pc = "helpers" /\ Collect(Helpers)
      /\ pc' \in {"gate", "undo"}
      /\ pc' = "gate" => \A h \in Helpers : thread[h] = "ready"
      /\ UNCHANGED <<tried, slot, dir, sock, cancelled, readiness, orphans, stray, setting>>
  BY DEF Join, HelpersUp
<1>2. Helpers \in SUBSET Roles /\ \A r \in Roles \ Helpers : thread[r] = "idle"
  BY <1>1 DEF Roles, Working
<1>3. Typed' /\ Counted'
  BY <1>1, <1>2, CollectHolds DEF Typed, Counted, Labels, setting
<1>4. Owned' /\ Working'
  BY <1>1, <1>2, CollectHolds, CollectWorking DEF Owned
<1>5. Registered' /\ Housed' /\ Reclaimed'
  BY <1>1, <1>2, CollectHolds DEF Registered, Housed, Reclaimed
<1>6. Behind'
  <2>1. pc' = "gate" => Both'
    BY <1>1 DEF Collect, Working, Behind, Both, Roles
  <2>2. children'["vfkit"] = None
    BY <1>1 DEF Collect, Registered, Empty, Roles, Helpers
  <2>3. \A h \in Helpers : thread'[h] = "idle"
    BY <1>1 DEF Collect, Roles
  <2> QED
    BY <1>1, <2>1, <2>2, <2>3 DEF Behind
<1> QED
  BY <1>3, <1>4, <1>5, <1>6

\* vfkit joins helpers that are still owned.
LEMMA JoinVfkitInv == Inv /\ JoinVfkit => Inv'
<1> SUFFICES ASSUME Inv, JoinVfkit PROVE Inv'
  OBVIOUS
<1> USE DEF Inv
<1>1. /\ pc = "vfkit" /\ Collect({"vfkit"})
      /\ pc' \in {"agent", "undo"}
      /\ UNCHANGED <<tried, slot, dir, sock, cancelled, readiness, orphans, stray, setting>>
  BY DEF JoinVfkit
<1>2. {"vfkit"} \in SUBSET Roles /\ \A r \in Roles \ {"vfkit"} : thread[r] = "idle"
  BY <1>1 DEF Roles, Working
<1>3. Typed' /\ Counted'
  BY <1>1, <1>2, CollectHolds DEF Typed, Counted, Labels, setting
<1>4. Owned' /\ Working'
  BY <1>1, <1>2, CollectHolds, CollectWorking DEF Owned
<1>5. Registered' /\ Housed' /\ Reclaimed'
  BY <1>1, <1>2, CollectHolds DEF Registered, Housed, Reclaimed
<1>6. Behind'
  BY <1>1 DEF Collect, Behind, Both, Roles, Helpers
<1> QED
  BY <1>3, <1>4, <1>5, <1>6

\* Looking at the children may reap one, and changes nothing else.
LEMMA WatchedHolds ==
  ASSUME Inv
  PROVE  /\ Watched \in [Roles -> Opt(Child)] /\ Holds(Watched)
         /\ \A r \in Roles : Watched[r] = None <=> children[r] = None
<1>1. ASSUME NEW r \in Roles, children[r] # None
      PROVE  /\ Tracked(Reaped(children[r])) /\ Reaped(children[r]).role = r
             /\ Reaped(children[r]) # None /\ Reaped(children[r]) \in Child
  BY <1>1, ReapedTracked, ChildNotNone DEF Inv, Owned, Holds, Same
<1> QED
  BY <1>1 DEF Watched, Holds, Opt

\* A helper that died meanwhile is still a child, to be stopped after vfkit.
LEMMA GateInv == Inv /\ Gate => Inv'
<1> SUFFICES ASSUME Inv, Gate PROVE Inv'
  OBVIOUS
<1> USE DEF Inv
<1>1. /\ pc = "gate" /\ children' = Watched
      /\ \/ pc' = "vfkit" /\ thread' = [thread EXCEPT !["vfkit"] = "spawn"]
         \/ pc' = "undo" /\ UNCHANGED thread
      /\ UNCHANGED <<hand, tried, slot, dir, sock, cancelled, readiness, orphans, stray,
                     setting>>
  BY DEF Gate
<1>2. \A r \in Roles : thread[r] = "idle" /\ hand[r] = None
  BY <1>1 DEF Working, Roles
<1>3. Typed' /\ Counted'
  BY <1>1, WatchedHolds DEF Typed, Counted, Labels, setting
<1>4. Owned'
  BY <1>1, WatchedHolds DEF Owned
<1>5. Working'
  BY <1>1, <1>2 DEF Typed, Working, Roles, Helpers
<1>6. Registered' /\ Housed' /\ Reclaimed'
  BY <1>1, WatchedHolds DEF Registered, Housed, Reclaimed, Empty
<1>7. Both'
  BY <1>1, WatchedHolds DEF Behind, Both, Roles
<1>8. Behind'
  BY <1>1, <1>2, <1>7 DEF Behind, Typed, Roles, Helpers
<1> QED
  BY <1>3, <1>4, <1>5, <1>6, <1>8

\* The guest agent does not answer: everything is undone.
LEMMA AgentFailsInv == Inv /\ AgentFails => Inv'
<1> SUFFICES ASSUME Inv, AgentFails PROVE Inv'
  OBVIOUS
<1> USE DEF Inv
<1>1. /\ pc = "agent" /\ pc' = "undo" /\ children' = Watched
      /\ UNCHANGED <<steps, tried, slot, dir, sock, cancelled, readiness, orphans, stray,
                     setting>>
  BY DEF AgentFails
<1>2. Typed' /\ Counted'
  BY <1>1, WatchedHolds DEF Typed, Counted, Labels, setting, steps
<1>3. Owned' /\ Working'
  BY <1>1, WatchedHolds DEF Owned, Working, steps
<1>4. Registered' /\ Housed' /\ Reclaimed'
  BY <1>1, WatchedHolds DEF Registered, Housed, Reclaimed, Empty, steps
<1>5. Behind'
  BY <1>1, WatchedHolds DEF Behind, Both, Roles, steps
<1> QED
  BY <1>2, <1>3, <1>4, <1>5

-------------------------------------------------------------------------------
(* Failure and stop.                                                       *)

\* One child is stopped, or stays where it is: both are safe for all of them.
LEMMA StopOneHolds ==
  ASSUME Inv, NEW r \in Roles, children[r] # None, NEW outcomes,
         \A o \in outcomes : Safe(o, children[r]), StopOne(r, outcomes)
  PROVE  /\ children' \in [Roles -> Opt(Child)] /\ Holds(children')
         /\ stray' = stray /\ tried' = tried \cup {r}
         /\ \A q \in Roles : children[q] = None => children'[q] = None
         /\ \A q \in Roles \ {r} : children'[q] = children[q]
<1>1. PICK o \in outcomes :
        /\ children' = [children EXCEPT ![r] = IF o.ok THEN None ELSE o.c]
        /\ stray' = stray \cup IF o.ok THEN Dropped(o.c) ELSE {}
        /\ tried' = tried \cup {r}
  BY DEF StopOne
<1>2. stray' = stray
  BY <1>1, DroppedNothing
<1>3. Tracked(children[r]) /\ children[r].role = r /\ children \in [Roles -> Opt(Child)]
  BY DEF Inv, Typed, Owned, Holds
<1>4. children' \in [Roles -> Opt(Child)] /\ Holds(children')
  BY <1>1, <1>3, HoldsExcept DEF Safe, Inv, Owned
<1> QED
  BY <1>1, <1>2, <1>3, <1>4

\* ... in a failed start.
LEMMA UndoInv == ASSUME Inv, NEW r \in Roles, Undo(r) PROVE Inv'
<1> USE DEF Inv
<1>1. /\ pc = "undo" /\ Pending(r) /\ \A later \in Later(r) : ~Pending(later)
      /\ StopOne(r, StopGroup(children[r]))
      /\ UNCHANGED <<pc, steps, slot, dir, sock, cancelled, readiness, orphans, setting>>
  BY DEF Undo
<1>2. Tracked(children[r]) /\ children[r] # None
  BY <1>1 DEF Pending, Owned, Holds
<1>3. \A o \in StopGroup(children[r]) : Safe(o, children[r])
  BY <1>2, StopGroupSafe
<1>4. /\ children' \in [Roles -> Opt(Child)] /\ Holds(children')
      /\ stray' = stray /\ tried' = tried \cup {r}
      /\ \A q \in Roles : children[q] = None => children'[q] = None
      /\ \A q \in Roles \ {r} : children'[q] = children[q]
  BY <1>1, <1>2, <1>3, StopOneHolds
<1>5. Typed' /\ Counted'
  BY <1>1, <1>4 DEF Typed, Counted, setting, steps
<1>6. Owned' /\ Working'
  BY <1>1, <1>4 DEF Owned, Working, steps
<1>7. Registered' /\ Housed' /\ Reclaimed'
  BY <1>1, <1>4 DEF Registered, Housed, Reclaimed, Empty, steps
<1>8. Behind'
  <2>1. r # "vfkit" => ~Pending("vfkit")
    BY <1>1 DEF Later, Roles, Helpers
  <2>2. children'["vfkit"] = None \/ "vfkit" \in tried'
    BY <1>4, <2>1 DEF Pending, Roles
  <2> QED
    BY <1>1, <2>2 DEF Behind, steps
<1> QED
  BY <1>5, <1>6, <1>7, <1>8

\* ... in a stop.
LEMMA FinishInv == ASSUME Inv, NEW r \in Roles, Finish(r) PROVE Inv'
<1> USE DEF Inv
<1>1. /\ pc \in {"finish", "finish_abort"} /\ Pending(r)
      /\ StopOne(r, FinishStop(children[r]))
      /\ UNCHANGED <<pc, steps, slot, dir, sock, cancelled, readiness, orphans, setting>>
  BY DEF Finish
<1>2. Tracked(children[r]) /\ children[r] # None
  BY <1>1 DEF Pending, Owned, Holds
<1>3. \A o \in FinishStop(children[r]) : Safe(o, children[r])
  BY <1>2, FinishStopSafe
<1>4. /\ children' \in [Roles -> Opt(Child)] /\ Holds(children')
      /\ stray' = stray /\ tried' = tried \cup {r}
      /\ \A q \in Roles : children[q] = None => children'[q] = None
  BY <1>1, <1>2, <1>3, StopOneHolds
<1>5. Typed' /\ Counted'
  BY <1>1, <1>4 DEF Typed, Counted, setting, steps
<1>6. Owned' /\ Working'
  BY <1>1, <1>4 DEF Owned, Working, steps
<1>7. Registered' /\ Housed' /\ Reclaimed'
  BY <1>1, <1>4 DEF Registered, Housed, Reclaimed, Empty, steps
<1>8. Behind'
  BY <1>1 DEF Behind, steps
<1> QED
  BY <1>5, <1>6, <1>7, <1>8

\* A failed start and a stop end alike: the directory goes with the last child, and
\* what is left is registered.
LEMMA EndedInv == Inv /\ (Undone \/ Finished) => Inv'
<1> SUFFICES ASSUME Inv, Undone \/ Finished PROVE Inv'
  OBVIOUS
<1> USE DEF Inv
<1>1. /\ pc \in {"undo", "finish", "finish_abort"} /\ pc' = "idle"
      /\ tried' = {} /\ sock' = {}
      /\ UNCHANGED <<steps, children, cancelled, orphans, stray, setting>>
      /\ \E ok \in BOOLEAN : dir' = ~Cleaned(ok)
      /\ slot' = dir'
      /\ readiness' \in {"unknown", "starting", "ready", "failed", "stopped"}
  BY DEF Undone, Finished, Adopted, ReadinessAfterStop, Typed
<1>2. dir' \in BOOLEAN /\ slot' = dir' /\ (~Empty(children) => dir')
  BY <1>1, HeldEmpty DEF Cleaned
<1>3. \A r \in Roles : thread[r] = "idle" /\ hand[r] = None
  BY <1>1 DEF Working, Roles
<1>4. Typed' /\ Counted'
  BY <1>1, <1>2 DEF Typed, Counted, Labels, setting, steps
<1>5. Owned' /\ Working'
  BY <1>1, <1>3 DEF Owned, Working, Roles, Helpers, steps
<1>6. Registered' /\ Housed' /\ Reclaimed'
  BY <1>1, <1>2, <1>3 DEF Registered, Housed, Reclaimed, Empty, steps
<1>7. Behind'
  BY <1>1, <1>3 DEF Behind, Roles, steps
<1> QED
  BY <1>4, <1>5, <1>6, <1>7

-------------------------------------------------------------------------------
(* What happens around the supervisor.                                     *)

\* Sockets only appear while a start is under way.
LEMMA ListenInv == ASSUME Inv, NEW h \in Helpers, Listen(h) PROVE Inv'
<1> USE DEF Inv
<1>1. /\ sock' = sock \cup {h}
      /\ UNCHANGED <<pc, steps, runtime, cancelled, readiness, orphans, stray, setting>>
  BY DEF Listen
<1>2. Typed' /\ Counted'
  BY <1>1 DEF Typed, Counted, steps, runtime, setting
<1>3. Owned' /\ Working'
  BY <1>1 DEF Owned, Working, steps, runtime
<1>4. Registered' /\ Housed' /\ Reclaimed'
  BY <1>1 DEF Registered, Housed, Reclaimed, steps, runtime
<1>5. Behind'
  BY <1>1 DEF Behind, Both, steps, runtime
<1> QED
  BY <1>2, <1>3, <1>4, <1>5

\* A leader that exits: a hand or a child is another stage of itself.
LEMMA LeftHolds ==
  ASSUME NEW f \in [Roles -> Opt(Child)], Holds(f), NEW r \in Roles, f[r] # None,
         f[r].leader = "up"
  PROVE  /\ [f EXCEPT ![r] = Left(f[r])] \in [Roles -> Opt(Child)]
         /\ Holds([f EXCEPT ![r] = Left(f[r])])
         /\ \A q \in Roles : [f EXCEPT ![r] = Left(f[r])][q] = None <=> f[q] = None
<1>1. Tracked(Left(f[r])) /\ Left(f[r]).role = r /\ Left(f[r]) # None
  BY LeftTracked, ChildNotNone DEF Holds, Same
<1>2. /\ [f EXCEPT ![r] = Left(f[r])] \in [Roles -> Opt(Child)]
      /\ Holds([f EXCEPT ![r] = Left(f[r])])
  BY <1>1, HoldsExcept
<1> QED
  BY <1>1, <1>2

\* ... is still held.
LEMMA ExitInv == ASSUME Inv, NEW r \in Roles, Exit(r) PROVE Inv'
<1> USE DEF Inv
<1>1. UNCHANGED <<pc, thread, tried, slot, dir, sock, cancelled, readiness, orphans, stray,
                  setting>>
  BY DEF Exit
<1>2. /\ hand' \in [Roles -> Opt(Child)] /\ children' \in [Roles -> Opt(Child)]
      /\ Holds(hand') /\ Holds(children')
      /\ \A q \in Roles : hand'[q] = None <=> hand[q] = None
      /\ \A q \in Roles : children'[q] = None <=> children[q] = None
  <2>1. CASE /\ hand[r] # None /\ hand[r].leader = "up"
             /\ hand' = [hand EXCEPT ![r] = Left(hand[r])]
             /\ UNCHANGED children
    <3>1. /\ hand' \in [Roles -> Opt(Child)] /\ Holds(hand')
          /\ \A q \in Roles : hand'[q] = None <=> hand[q] = None
      <4>1. hand \in [Roles -> Opt(Child)] /\ Holds(hand)
        BY DEF Typed, Owned
      <4> QED
        BY <2>1, <4>1, LeftHolds
    <3>2. children' \in [Roles -> Opt(Child)] /\ Holds(children')
      BY <2>1 DEF Typed, Owned
    <3> QED
      BY <2>1, <3>1, <3>2
  <2>2. CASE /\ children[r] # None /\ children[r].leader = "up"
             /\ children' = [children EXCEPT ![r] = Left(children[r])]
             /\ UNCHANGED hand
    <3>1. /\ children' \in [Roles -> Opt(Child)] /\ Holds(children')
          /\ \A q \in Roles : children'[q] = None <=> children[q] = None
      <4>1. children \in [Roles -> Opt(Child)] /\ Holds(children)
        BY DEF Typed, Owned
      <4> QED
        BY <2>2, <4>1, LeftHolds
    <3>2. hand' \in [Roles -> Opt(Child)] /\ Holds(hand')
      BY <2>2 DEF Typed, Owned
    <3> QED
      BY <2>2, <3>1, <3>2
  <2> QED
    BY <2>1, <2>2 DEF Exit
<1>3. Typed' /\ Counted'
  BY <1>1, <1>2 DEF Typed, Counted, setting
<1>4. Owned' /\ Working'
  BY <1>1, <1>2 DEF Owned, Working, Roles, Helpers
<1>5. Registered' /\ Housed' /\ Reclaimed'
  BY <1>1, <1>2 DEF Registered, Housed, Reclaimed, Empty
<1>6. Behind'
  BY <1>1, <1>2 DEF Behind, Both, Roles
<1> QED
  BY <1>3, <1>4, <1>5, <1>6

\* A killed application leaves processes, and no state of its own.
LEMMA CrashInv == Inv /\ Crash => Inv'
<1> SUFFICES ASSUME Inv, Crash PROVE Inv'
  OBVIOUS
<1> USE DEF Inv
<1>1. /\ pc' = "idle" /\ thread' = [r \in Roles |-> "idle"]
      /\ hand' = Nothing /\ children' = Nothing /\ tried' = {} /\ slot' = FALSE
      /\ sock' = {} /\ dir' = FALSE /\ cancelled' = FALSE /\ readiness' = "unknown"
      /\ crashes < MaxCrashes /\ crashes' = crashes + 1
      /\ UNCHANGED <<stray, launchd, starts>>
  BY DEF Crash
<1>2. orphans' \subseteq Child
  <2>1. ASSUME NEW c \in Held(children) \cup Held(hand)
        PROVE  Orphaned(c) \in Child
    <3>1. c \in Child
      BY DEF Held, Typed, Opt
    <3> QED
      BY <3>1 DEF Orphaned, Child
  <2> QED
    BY <2>1 DEF Crash, Typed
<1>3. Typed'
  BY <1>1, <1>2 DEF Typed, Labels, Nothing, Opt
<1>4. Counted'
  BY <1>1 DEF Counted
<1>5. Owned' /\ Working'
  BY <1>1 DEF Owned, Holds, Working, Nothing, Roles, Helpers
<1>6. Registered' /\ Housed' /\ Reclaimed'
  BY <1>1 DEF Registered, Housed, Reclaimed, Empty, Nothing
<1>7. Behind'
  BY <1>1 DEF Behind, Nothing, Roles, Helpers
<1> QED
  BY <1>3, <1>4, <1>5, <1>6, <1>7

-------------------------------------------------------------------------------
(* The invariant and what follows from it.                                 *)

\* Every step, one kind of actions after the other.
LEMMA StepInv == Inv /\ [Next]_vars => Inv'
<1> SUFFICES ASSUME Inv, [Next]_vars PROVE Inv'
  OBVIOUS
<1>1. CASE Quiet
  BY <1>1, QuietInv
<1>2. CASE ReclaimVfkit \/ ReclaimHelpers \/ Plan
  BY <1>2, ReclaimVfkitInv, ReclaimHelpersInv, PlanInv
<1>3. CASE \E r \in Roles : StepOf(r)
  BY <1>3, SpawnInv, SpawnFailsInv, ReadPidInv, StepReadyInv, StepFailsInv DEF StepOf
<1>4. CASE Join \/ Gate \/ JoinVfkit \/ AgentFails
  BY <1>4, JoinInv, GateInv, JoinVfkitInv, AgentFailsInv
<1>5. CASE (\E r \in Roles : Undo(r)) \/ (\E r \in Roles : Finish(r)) \/ Undone \/ Finished
  BY <1>5, UndoInv, FinishInv, EndedInv
<1>6. CASE (\E h \in Helpers : Listen(h)) \/ (\E r \in Roles : Exit(r)) \/ Crash
  BY <1>6, ListenInv, ExitInv, CrashInv
<1> QED
  BY <1>1, <1>2, <1>3, <1>4, <1>5, <1>6 DEF Next, Supervise, Environment, Quiet

\* Inv is inductive: one lemma for each action, or kind of actions, above.
THEOREM Invariance == Spec => []Inv
BY InitInv, StepInv, PTL DEF Spec

\* TypeOK holds for every set of failures and every number of starts and crashes.
THEOREM GatewayTypeCorrect == Spec => []TypeOK
<1>1. Inv => TypeOK
  <2> SUFFICES ASSUME Inv PROVE TypeOK
    OBVIOUS
  <2>1. \A r \in Roles : hand[r] \in ChildOf(r) /\ children[r] \in ChildOf(r)
    BY DEF Inv, Owned, Holds, Tracked, ChildOf, Opt
  <2> QED
    BY <2>1 DEF Inv, Typed, Counted, Owned, TypeOK
<1> QED
  BY <1>1, Invariance, PTL

\* NothingLost: no process is left behind without a handle, and no handle without an
\* owner, whichever calls fail and wherever the start is cancelled.
THEOREM NothingIsLost == Spec => []NothingLost
<1>1. Inv => NothingLost
  <2> SUFFICES ASSUME Inv PROVE NothingLost
    OBVIOUS
  <2>1. pc = "idle" => Empty(hand)
    BY DEF Inv, Working, Empty, Roles
  <2>2. Held(children) \cup Held(hand) # {} => ~Empty(children) \/ ~Empty(hand)
    BY HeldEmpty
  <2> QED
    BY <2>1, <2>2 DEF Inv, Owned, Registered, NothingLost
<1> QED
  BY <1>1, Invariance, PTL

\* DirOutlivesProcesses: the directory is never removed under a process that runs.
THEOREM DirIsLast == Spec => []DirOutlivesProcesses
<1>1. Inv => DirOutlivesProcesses
  BY HeldEmpty DEF Inv, Housed, DirOutlivesProcesses
<1> QED
  BY <1>1, Invariance, PTL

\* VfkitBehindHelpers: vfkit never outlives the helpers whose sockets it consumes.
THEOREM VfkitIsBehind == Spec => []VfkitBehindHelpers
<1>1. Inv => VfkitBehindHelpers
  BY DEF Inv, Working, Behind, Both, VfkitBehindHelpers, Roles
<1> QED
  BY <1>1, Invariance, PTL

\* NoSecondGateway: nothing is started next to what an earlier application left.
THEOREM OneGateway == Spec => []NoSecondGateway
<1>1. Inv => NoSecondGateway
  BY HeldEmpty DEF Inv, Reclaimed, NoSecondGateway
<1> QED
  BY <1>1, Invariance, PTL

\* ResidueStoppable: however a stop failed, and whatever exited meanwhile, the next
\* one may end every child of the registered runtime, except a job booted out.
THEOREM ResidueCanBeStopped == Spec => []ResidueStoppable
<1>1. Inv => ResidueStoppable
  <2> SUFFICES ASSUME Inv, NEW c \in Held(children), ~(c.job /\ ~c.loaded)
               PROVE  Stoppable(c)
    BY DEF ResidueStoppable
  <2>1. Tracked(c)
    BY DEF Inv, Owned, Holds, Held
  <2> QED
    BY <2>1, TrackedIsStoppable
<1> QED
  BY <1>1, Invariance, PTL
===============================================================================
