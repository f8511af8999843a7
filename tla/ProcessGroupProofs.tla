-------------------------- MODULE ProcessGroupProofs --------------------------
(***************************************************************************)
(* What ManagedChild promises, whatever fails: a stop that reports success *)
(* leaves no process behind, and one that fails leaves a child that a      *)
(* later stop still knows how to reach.                                    *)
(***************************************************************************)
EXTENDS ProcessGroup, TLAPS

\* A child that is not lost: while a process runs, the handle or the group id that
\* leads to it is held, and the handle goes only once the leader was waited for.
Tracked(c) ==
  /\ c \in Child
  /\ c.job => c.role \in Helpers
  /\ c.role \in Helpers => ~c.rest
  /\ ~c.handle => c.leader = "gone" /\ (c.rest => c.group)
  /\ c.handle /\ ~c.job => c.group

\* Two stages of one child between which no handle was given up.
Same(a, c) ==
  /\ a.role = c.role /\ a.job = c.job
  /\ a.handle = c.handle /\ a.group = c.group /\ a.loaded = c.loaded

\* A child is stopped by an outcome, or stays tracked.
Safe(o, c) ==
  /\ Tracked(o.c) /\ o.c.role = c.role
  /\ o.ok => ~Living(o.c)

\* What Done and Failed, the two outcomes of a call, consist of.
LEMMA OutcomeOf ==
  ASSUME NEW c
  PROVE  /\ Done(c).ok /\ Done(c).c = c
         /\ ~Failed(c).ok /\ Failed(c).c = c
BY DEF Done, Failed

\* A failure the instance does not cause has no outcome; otherwise it has the one named.
LEMMA MayOf ==
  ASSUME NEW kind, NEW outcome, NEW o \in May(kind, outcome)
  PROVE  o = outcome
BY DEF May

\* A child starts tracked: by its group, or by launchd.
LEMMA SpawnedTracked ==
  ASSUME NEW role \in Roles, NEW launchd \in BOOLEAN, NEW c \in Spawned(role, launchd)
  PROVE  Tracked(c) /\ c.role = role
<1>1. PICK j \in BOOLEAN, r \in BOOLEAN :
        /\ j => role \in Helpers
        /\ r => role = "vfkit"
        /\ c = [role |-> role, job |-> j, handle |-> TRUE, group |-> ~j, leader |-> "up",
                rest |-> r, loaded |-> j]
  <2>1. CASE role = "vfkit"
    BY <2>1 DEF Spawned
  <2>2. CASE role # "vfkit"
    BY <2>2 DEF Spawned
  <2> QED
    BY <2>1, <2>2
<1>2. c \in Child
  BY <1>1 DEF Child
<1> QED
  BY <1>1, <1>2 DEF Tracked, Helpers

\* A leader that exits leaves its descendants in the group that is known.
LEMMA LeftTracked ==
  ASSUME NEW c, Tracked(c), c.leader = "up"
  PROVE  Tracked(Left(c)) /\ Same(Left(c), c) /\ Left(c).leader # "up"
         /\ Left(c).rest = c.rest
BY DEF Tracked, Child, Left, Same

\* ... and reaping it gives up nothing.
LEMMA ReapedTracked ==
  ASSUME NEW c, Tracked(c)
  PROVE  Tracked(Reaped(c)) /\ Same(Reaped(c), c)
BY DEF Tracked, Child, Reaped, Same

\* Descendants that end do no harm either.
LEMMA AloneTracked ==
  ASSUME NEW c, Tracked(c)
  PROVE  LET a == [c EXCEPT !.rest = FALSE]
         IN Tracked(a) /\ Same(a, c) /\ a.leader = c.leader /\ ~a.rest
BY DEF Tracked, Child, Same

\* Whatever has left by a deadline, the child is the same.
LEMMA GraceTracked ==
  ASSUME NEW c, Tracked(c), NEW g \in Grace(c)
  PROVE  Tracked(g) /\ Same(g, c)
<1>1. PICK l \in {c, Left(c)} :
        /\ l = c \/ c.leader = "up"
        /\ g = l \/ g = [l EXCEPT !.rest = FALSE]
  BY DEF Grace
<1>2. Tracked(l) /\ Same(l, c)
  BY <1>1, LeftTracked DEF Same
<1>3. g = l \/ (Tracked(g) /\ Same(g, l))
  BY <1>1, <1>2, AloneTracked
<1> QED
  BY <1>2, <1>3 DEF Same

\* SIGKILL ends the leader, if not every descendant.
LEMMA KilledTracked ==
  ASSUME NEW c, Tracked(c), NEW k \in Killed(c)
  PROVE  Tracked(k) /\ Same(k, c) /\ k.leader # "up"
<1> DEFINE l == IF c.leader = "up" THEN Left(c) ELSE c
<1>1. Tracked(l) /\ Same(l, c) /\ l.leader # "up"
  BY LeftTracked DEF Same, Tracked
<1>2. k = l \/ k = [l EXCEPT !.rest = FALSE]
  BY MayOf DEF Killed
<1> HIDE DEF l
<1>3. k = l \/ (Tracked(k) /\ Same(k, l) /\ k.leader = l.leader)
  BY <1>1, <1>2, AloneTracked
<1> QED
  BY <1>1, <1>3 DEF Same

\* A signal is delivered, there is nobody left to receive it, or it is refused.
LEMMA SignalOf ==
  ASSUME NEW c, NEW after, NEW o \in SignalGroup(c, after)
  PROVE  \/ o.ok /\ o.c \in after
         \/ o.ok /\ o.c = c /\ ~GroupExists(c)
         \/ ~o.ok /\ o.c = c
BY OutcomeOf, MayOf DEF SignalGroup, Signalled

\* A SIGKILL sent to the group, delivered or not.
LEMMA SignalTracked ==
  ASSUME NEW c, Tracked(c), NEW o \in SignalGroup(c, Killed(c))
  PROVE  /\ Tracked(o.c) /\ Same(o.c, c)
         /\ o.ok /\ c.group => ~GroupExists(o.c) \/ o.c.leader # "up"
<1>1. CASE o.ok /\ o.c \in Killed(c)
  BY <1>1, KilledTracked
<1>2. CASE o.c = c /\ (o.ok => ~GroupExists(c))
  BY <1>2 DEF Same
<1> QED
  BY <1>1, <1>2, SignalOf

\* Asking a child to stop loses nothing.
LEMMA RequestTracked ==
  ASSUME NEW c, Tracked(c), NEW o \in RequestStop(c)
  PROVE  Tracked(o.c) /\ Same(o.c, c)
<1>1. o.c = c \/ (o.c = Left(c) /\ c.leader = "up")
  BY OutcomeOf, MayOf, SignalOf DEF RequestStop, LeaderRunning
<1> QED
  BY <1>1, LeftTracked DEF Same

\* A child given up for good, when nothing of it runs.
LEMMA ReleasedTracked ==
  ASSUME NEW c, Tracked(c), c.role \in Helpers
  PROVE  Tracked(Released(c)) /\ Released(c).role = c.role /\ ~Living(Released(c))
BY DEF Tracked, Child, Released, Living

\* Giving up the group after a refused signal is safe for a helper, which is alone in it.
LEMMA FinishHelperSafe ==
  ASSUME NEW c, Tracked(c), c.role \in Helpers, NEW o \in FinishHelper(c)
  PROVE  Safe(o, c)
<1>1. CASE o = Failed(c)
  BY <1>1, OutcomeOf DEF Safe
<1>2. ASSUME NEW g \in Grace(c), NEW s \in SignalGroup(g, Killed(g)),
             o \in IF s.ok THEN WaitHelper(s.c) ELSE KillAlone(s.c)
      PROVE  Safe(o, c)
  <2>1. Tracked(g) /\ Same(g, c)
    BY GraceTracked
  <2>2. Tracked(s.c) /\ s.c.role = c.role
    BY <2>1, SignalTracked DEF Same
  <2>3. ~s.c.rest
    BY <2>2 DEF Tracked
  <2>4. o = Done(Released(s.c)) \/ o = Failed(s.c)
    BY <1>2, <2>3, MayOf DEF WaitHelper, KillAlone
  <2> QED
    BY <2>2, <2>4, OutcomeOf, ReleasedTracked DEF Safe
<1> QED
  BY <1>1, <1>2, MayOf DEF FinishHelper

\* finish_owned_group_until gives the group id up only over an empty group.
LEMMA FinishOwnedGroupSafe ==
  ASSUME NEW c, Tracked(c), ~c.handle, NEW o \in FinishOwnedGroup(c)
  PROVE  Safe(o, c)
<1>1. PICK s \in SignalGroup(c, Killed(c)) :
        o = IF s.ok /\ ~GroupExists(s.c) THEN Done([s.c EXCEPT !.group = FALSE])
            ELSE Failed(s.c)
  BY DEF FinishOwnedGroup
<1>2. Tracked(s.c) /\ Same(s.c, c)
  BY SignalTracked
<1>3. CASE o = Failed(s.c)
  BY <1>2, <1>3, OutcomeOf DEF Safe, Same
<1>4. CASE o = Done([s.c EXCEPT !.group = FALSE]) /\ ~GroupExists(s.c)
  <2>1. s.c.leader # "up" /\ ~s.c.rest /\ ~s.c.handle
    BY <1>2, <1>4 DEF Tracked, Same, GroupExists
  <2>2. o.c = [s.c EXCEPT !.group = FALSE]
    BY <1>4, OutcomeOf
  <2> QED
    BY <1>2, <2>1, <2>2 DEF Tracked, Child, Safe, Same, Living
<1> QED
  BY <1>1, <1>3, <1>4

\* A leader that was waited for leaves the group id behind.
LEMMA WaitLeaderTracked ==
  ASSUME NEW c, Tracked(c), c.role = "vfkit", c.handle
  PROVE  /\ Tracked(WaitLeader(c)) /\ WaitLeader(c).role = c.role
         /\ ~WaitLeader(c).handle
BY DEF Tracked, Child, WaitLeader, Helpers

\* The leader is killed with its group, or alone when the group refuses.
LEMMA EndLeaderTracked ==
  ASSUME NEW c, Tracked(c), NEW e \in EndLeader(c)
  PROVE  Tracked(e.c) /\ Same(e.c, c)
<1>1. CASE c.leader # "up"
  BY <1>1, OutcomeOf DEF EndLeader, Same
<1>2. CASE c.leader = "up"
  <2>1. PICK s \in SignalGroup(c, Killed(c)) :
          e \in IF s.ok THEN {s} ELSE {Done(Left(s.c))} \cup May("denied", s)
    BY <1>2 DEF EndLeader
  <2>2. Tracked(s.c) /\ Same(s.c, c)
    BY SignalTracked
  <2>3. e.c = s.c \/ (e.c = Left(s.c) /\ s.c.leader = "up")
    BY <1>2, <2>1, OutcomeOf, MayOf, SignalOf
  <2> QED
    BY <2>2, <2>3, LeftTracked DEF Same
<1> QED
  BY <1>1, <1>2

\* finish_stop_until of vfkit: the group id outlives the leader as long as the group.
LEMMA FinishVfkitSafe ==
  ASSUME NEW c, Tracked(c), c.role = "vfkit", NEW o \in FinishVfkit(c)
  PROVE  Safe(o, c)
<1>1. CASE ~c.handle /\ c.group
  BY <1>1, FinishOwnedGroupSafe DEF FinishVfkit
<1>2. CASE ~c.handle /\ ~c.group
  BY <1>2, OutcomeOf DEF FinishVfkit, Safe, Tracked, Living
<1>3. CASE c.handle
  <2>1. CASE o = Failed(c)
    BY <2>1, OutcomeOf DEF Safe
  <2>2. ASSUME NEW g \in Grace(c), NEW e \in EndLeader(g),
               o \in IF e.ok THEN FinishOwnedGroup(WaitLeader(e.c)) ELSE {e}
        PROVE  Safe(o, c)
    <3>1. Tracked(g) /\ Same(g, c)
      BY GraceTracked
    <3>2. Tracked(e.c) /\ Same(e.c, c)
      BY <3>1, EndLeaderTracked DEF Same
    <3>3. CASE ~e.ok
      BY <2>2, <3>2, <3>3 DEF Safe, Same
    <3>4. CASE e.ok
      <4>1. Tracked(WaitLeader(e.c)) /\ WaitLeader(e.c).role = c.role
            /\ ~WaitLeader(e.c).handle
        BY <1>3, <3>2, WaitLeaderTracked DEF Same
      <4>2. Safe(o, WaitLeader(e.c))
        BY <2>2, <3>4, <4>1, FinishOwnedGroupSafe
      <4> QED
        BY <4>1, <4>2 DEF Safe
    <3> QED
      BY <3>3, <3>4
  <2> QED
    BY <1>3, <2>1, <2>2, MayOf DEF FinishVfkit
<1> QED
  BY <1>1, <1>2, <1>3

\* A job that was booted out has been reaped by launchd.
LEMMA BootOutOf ==
  ASSUME NEW c, Tracked(c), c.job, NEW b \in BootOut(c)
  PROVE  /\ Tracked(b.c) /\ b.c.role = c.role /\ b.c.job /\ b.c.handle = c.handle
         /\ b.ok => b.c.leader = "gone"
<1> DEFINE d == [c EXCEPT !.loaded = FALSE, !.leader = "gone"]
<1>1. Tracked(d) /\ d.role = c.role /\ d.job /\ d.handle = c.handle /\ d.leader = "gone"
  BY DEF Tracked, Child
<1>2. b \in {Failed(c), Done(d), Failed(d)}
  BY MayOf DEF BootOut
<1> HIDE DEF d
<1> QED
  BY <1>1, <1>2, OutcomeOf

\* ... of a job of launchd, whose handle goes only with a bootout that succeeded.
LEMMA FinishJobSafe ==
  ASSUME NEW c, Tracked(c), c.job, NEW o \in FinishJob(c)
  PROVE  Safe(o, c)
<1>1. CASE o = Failed(c)
  BY <1>1, OutcomeOf DEF Safe
<1>2. ASSUME NEW g \in Grace(c), NEW k \in KillJob(g), NEW b \in BootOut(k.c),
             o = IF k.ok /\ b.ok THEN Done([b.c EXCEPT !.handle = FALSE]) ELSE Failed(b.c)
      PROVE  Safe(o, c)
  <2>1. Tracked(g) /\ Same(g, c)
    BY GraceTracked
  <2>2. k.c = g \/ (k.c = Left(g) /\ g.leader = "up")
    BY OutcomeOf, MayOf DEF KillJob, LeaderRunning
  <2>3. Tracked(k.c) /\ Same(k.c, c)
    <3>1. g.leader = "up" => Tracked(Left(g)) /\ Same(Left(g), g)
      BY <2>1, LeftTracked
    <3> QED
      BY <2>1, <2>2, <3>1 DEF Same
  <2>4. /\ Tracked(b.c) /\ b.c.role = c.role /\ b.c.job
        /\ b.ok => b.c.leader = "gone"
    BY <2>3, BootOutOf DEF Same
  <2>5. CASE o = Failed(b.c)
    BY <2>4, <2>5, OutcomeOf DEF Safe
  <2>6. CASE b.ok /\ o = Done([b.c EXCEPT !.handle = FALSE])
    <3>1. o.c = [b.c EXCEPT !.handle = FALSE]
      BY <2>6, OutcomeOf
    <3>2. b.c.leader = "gone" /\ ~b.c.rest
      BY <2>4, <2>6 DEF Tracked
    <3> QED
      BY <2>4, <3>1, <3>2 DEF Tracked, Child, Safe, Living
  <2> QED
    BY <1>2, <2>5, <2>6
<1>3. \/ o = Failed(c)
      \/ \E g \in Grace(c) : \E k \in KillJob(g) : \E b \in BootOut(k.c) :
           o = IF k.ok /\ b.ok THEN Done([b.c EXCEPT !.handle = FALSE]) ELSE Failed(b.c)
  BY MayOf DEF FinishJob
<1> QED
  BY <1>1, <1>2, <1>3

\* finish_stop_until: a success leaves no process, a failure leaves a way to it.
THEOREM FinishStopSafe ==
  ASSUME NEW c, Tracked(c), NEW o \in FinishStop(c)
  PROVE  Safe(o, c)
<1>1. CASE c.role = "vfkit"
  BY <1>1, FinishVfkitSafe DEF FinishStop
<1>2. CASE c.role # "vfkit"
  <2>1. c.role \in Helpers
    BY <1>2 DEF Tracked, Child, Roles
  <2>2. CASE ~c.handle
    <3>1. o = Done(c)
      BY <1>2, <2>2 DEF FinishStop
    <3> QED
      BY <2>1, <2>2, <3>1, OutcomeOf DEF Safe, Tracked, Living
  <2>3. CASE c.handle /\ c.job
    BY <1>2, <2>3, FinishJobSafe DEF FinishStop
  <2>4. CASE c.handle /\ ~c.job
    BY <1>2, <2>1, <2>4, FinishHelperSafe DEF FinishStop
  <2> QED
    BY <2>2, <2>3, <2>4
<1> QED
  BY <1>1, <1>2

\* stop_group: the same of both halves together.
THEOREM StopGroupSafe ==
  ASSUME NEW c, Tracked(c), NEW o \in StopGroup(c)
  PROVE  Safe(o, c)
<1>1. PICK r \in RequestStop(c) :
        \E f \in FinishStop(r.c) : o = [ok |-> f.ok /\ r.ok, c |-> f.c]
  BY DEF StopGroup
<1>2. PICK f \in FinishStop(r.c) : o = [ok |-> f.ok /\ r.ok, c |-> f.c]
  BY <1>1
<1>3. Tracked(r.c) /\ Same(r.c, c)
  BY RequestTracked
<1>4. Safe(f, r.c)
  BY <1>3, FinishStopSafe
<1> QED
  BY <1>2, <1>3, <1>4 DEF Safe, Same

-------------------------------------------------------------------------------
(* A later stop may succeed.                                               *)

\* SIGKILL may reach every process of a group, and then the group is empty.
LEMMA SignalMayKill ==
  ASSUME NEW c, Tracked(c)
  PROVE  \E o \in SignalGroup(c, Killed(c)) :
           /\ o.ok
           /\ \/ o.c = c /\ ~GroupExists(c)
              \/ Tracked(o.c) /\ Same(o.c, c) /\ ~o.c.rest
           /\ c.leader = "gone" => o.c.leader = "gone"
<1> DEFINE l == IF c.leader = "up" THEN Left(c) ELSE c
           k == [l EXCEPT !.rest = FALSE]
<1>1. k \in Killed(c)
  BY DEF Killed
<1>2. ~k.rest /\ (c.leader = "gone" => k.leader = "gone")
  BY DEF Tracked, Child
<1>3. Tracked(k) /\ Same(k, c)
  BY <1>1, KilledTracked
<1> HIDE DEF k
<1>4. CASE GroupExists(c)
  <2>1. Done(k) \in SignalGroup(c, Killed(c))
    BY <1>1, <1>4 DEF SignalGroup, Signalled
  <2>2. Done(k).ok /\ Done(k).c = k
    BY OutcomeOf
  <2> QED
    BY <1>2, <1>3, <2>1, <2>2
<1>5. CASE ~GroupExists(c)
  <2>1. Done(c) \in SignalGroup(c, Killed(c))
    BY <1>5 DEF SignalGroup
  <2>2. Done(c).ok /\ Done(c).c = c
    BY OutcomeOf
  <2> QED
    BY <1>5, <2>1, <2>2
<1> QED
  BY <1>4, <1>5

\* A group whose leader was waited for may be gone after one more SIGKILL.
LEMMA GroupMayEnd ==
  ASSUME NEW c, Tracked(c), ~c.handle
  PROVE  \E o \in FinishOwnedGroup(c) : o.ok
<1>1. PICK s \in SignalGroup(c, Killed(c)) :
        /\ s.ok
        /\ \/ s.c = c /\ ~GroupExists(c)
           \/ Tracked(s.c) /\ Same(s.c, c) /\ ~s.c.rest
        /\ c.leader = "gone" => s.c.leader = "gone"
  BY SignalMayKill
<1>2. ~GroupExists(s.c)
  BY <1>1 DEF Tracked, GroupExists
<1>3. Done([s.c EXCEPT !.group = FALSE]) \in FinishOwnedGroup(c)
  BY <1>1, <1>2 DEF FinishOwnedGroup
<1> QED
  BY <1>3, OutcomeOf

\* What is there at a deadline when everything has left in time.
Alone(c) == [(IF c.leader = "up" THEN Left(c) ELSE c) EXCEPT !.rest = FALSE]

\* ... is one of the outcomes of the grace period.
LEMMA AloneInGrace ==
  ASSUME NEW c, Tracked(c)
  PROVE  /\ Alone(c) \in Grace(c) /\ Tracked(Alone(c)) /\ Same(Alone(c), c)
         /\ Alone(c).leader # "up" /\ ~Alone(c).rest
<1>1. Alone(c) \in Grace(c)
  BY DEF Alone, Grace
<1>2. Tracked(Alone(c)) /\ Same(Alone(c), c)
  BY <1>1, GraceTracked
<1>3. Alone(c).leader # "up" /\ ~Alone(c).rest
  BY DEF Alone, Tracked, Child, Left
<1> QED
  BY <1>1, <1>2, <1>3

\* vfkit: the leader may leave on SIGTERM, and the group with it.
LEMMA VfkitMayStop ==
  ASSUME NEW c, Tracked(c), c.role = "vfkit"
  PROVE  \E o \in FinishVfkit(c) : o.ok
<1>1. CASE ~c.handle /\ c.group
  BY <1>1, GroupMayEnd DEF FinishVfkit
<1>2. CASE ~c.handle /\ ~c.group
  BY <1>2, OutcomeOf DEF FinishVfkit
<1>3. CASE c.handle
  <2> DEFINE g == Alone(c)
  <2>1. g \in Grace(c) /\ Tracked(g) /\ Same(g, c) /\ g.leader # "up"
    BY AloneInGrace
  <2> HIDE DEF g
  <2>2. Done(g) \in EndLeader(g)
    BY <2>1 DEF EndLeader
  <2>3. Tracked(WaitLeader(g)) /\ ~WaitLeader(g).handle
    BY <1>3, <2>1, WaitLeaderTracked DEF Same
  <2>4. PICK o \in FinishOwnedGroup(WaitLeader(g)) : o.ok
    BY <2>3, GroupMayEnd
  <2>5. o \in UNION {IF e.ok THEN FinishOwnedGroup(WaitLeader(e.c)) ELSE {e} :
                       e \in EndLeader(g)}
    BY <2>2, <2>4, OutcomeOf
  <2> QED
    BY <1>3, <2>1, <2>4, <2>5 DEF FinishVfkit
<1> QED
  BY <1>1, <1>2, <1>3

\* A helper: alone in its group, it may be killed.
LEMMA HelperMayStop ==
  ASSUME NEW c, Tracked(c), c.role \in Helpers
  PROVE  \E o \in FinishHelper(c) : o.ok
<1>1. c \in Grace(c)
  BY DEF Grace
<1>2. PICK s \in SignalGroup(c, Killed(c)) : s.ok /\ ~s.c.rest
  BY SignalMayKill DEF Tracked
<1>3. Done(Released(s.c)) \in FinishHelper(c)
  BY <1>1, <1>2 DEF FinishHelper, WaitHelper
<1> QED
  BY <1>3, OutcomeOf

\* A job launchd still knows: it may be killed and booted out.
LEMMA JobMayStop ==
  ASSUME NEW c, Tracked(c), c.job, c.loaded
  PROVE  \E o \in FinishJob(c) : o.ok
<1>1. c \in Grace(c)
  BY DEF Grace
<1>2. PICK k \in KillJob(c) : k.ok /\ k.c.loaded
  <2>1. CASE LeaderRunning(c)
    <3>1. Left(c).loaded
      BY DEF Left, Tracked, Child
    <3> QED
      BY <2>1, <3>1, OutcomeOf DEF KillJob
  <2>2. CASE ~LeaderRunning(c)
    BY <2>2, OutcomeOf DEF KillJob
  <2> QED
    BY <2>1, <2>2
<1>3. PICK b \in BootOut(k.c) : b.ok
  BY <1>2, OutcomeOf DEF BootOut
<1>4. Done([b.c EXCEPT !.handle = FALSE]) \in FinishJob(c)
  <2> DEFINE Ends(kk, bb) == IF kk.ok /\ bb.ok THEN Done([bb.c EXCEPT !.handle = FALSE])
                             ELSE Failed(bb.c)
  <2>1. Ends(k, b) \in {Ends(k, bb) : bb \in BootOut(k.c)}
    BY <1>3, Zenon
  <2>3. {Ends(k, bb) : bb \in BootOut(k.c)}
          \in {{Ends(kk, bb) : bb \in BootOut(kk.c)} : kk \in KillJob(c)}
    BY <1>2, Zenon
  <2>2. UNION {{Ends(kk, bb) : bb \in BootOut(kk.c)} : kk \in KillJob(c)}
          \subseteq FinishJob(c)
    BY <1>1 DEF FinishJob
  <2> QED
    BY <1>2, <1>3, <2>1, <2>2, <2>3
<1> QED
  BY <1>4, OutcomeOf

\* Stoppable: whatever happened to a child that was never lost, a later stop_group
\* may still end it.  Only a job whose label was booted out is beyond reach.
THEOREM TrackedIsStoppable ==
  ASSUME NEW c, Tracked(c), c.job => c.loaded \/ ~c.handle
  PROVE  Stoppable(c)
<1>1. \E f \in FinishStop(c) : f.ok
  <2>1. CASE c.role = "vfkit"
    BY <2>1, VfkitMayStop DEF FinishStop
  <2>2. CASE c.role # "vfkit" /\ ~c.handle
    BY <2>2, OutcomeOf DEF FinishStop
  <2>3. CASE c.role # "vfkit" /\ c.handle /\ c.job
    BY <2>3, JobMayStop DEF FinishStop
  <2>4. CASE c.role # "vfkit" /\ c.handle /\ ~c.job
    <3>1. c.role \in Helpers
      BY <2>4 DEF Tracked, Child, Roles
    <3> QED
      BY <2>4, <3>1, HelperMayStop DEF FinishStop
  <2> QED
    BY <2>1, <2>2, <2>3, <2>4
<1>2. Done(c) \in RequestStop(c)
  BY DEF RequestStop, SignalGroup, Signalled
<1>3. PICK f \in FinishStop(c) : f.ok
  BY <1>1
<1>4. Done(c).ok /\ Done(c).c = c
  BY OutcomeOf
<1>5. [ok |-> f.ok /\ Done(c).ok, c |-> f.c] \in StopGroup(c)
  BY <1>2, <1>3, <1>4 DEF StopGroup
<1> QED
  BY <1>3, <1>4, <1>5 DEF Stoppable
===============================================================================
