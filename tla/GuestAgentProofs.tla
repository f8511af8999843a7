--------------------------- MODULE GuestAgentProofs ---------------------------
(***************************************************************************)
(* The guest agent keeps, for every value of the constants: its types, the *)
(* ownership of every data-plane process, and that a data plane published  *)
(* as ready serves the session files in force.                             *)
(*                                                                         *)
(* A handler is a chain of operators that map a state to the set of its    *)
(* outcomes, and so is the proof: one lemma per operator says that a sound *)
(* state has sound outcomes, and cites the lemmas of the operators it      *)
(* calls.  The files may only be rewritten when the agent is quiet, and    *)
(* every stop leaves it quiet, also one that fails: that is what makes the *)
(* invariant inductive.                                                    *)
(***************************************************************************)
EXTENDS GuestAgent, TLAPS

\* What runs is owned: no process is left over from an earlier start, and sing-box was
\* started from a configuration.
Owns(s) ==
  /\ ~s.run.stray
  /\ s.run.sb = None => ~s.run.sbUp
  /\ s.run.sb # None => s.run.cfg # None
  /\ ~s.run.mitm => ~s.run.mitmUp

\* What the data plane was started from.
Current(s) ==
  /\ s.run.sb # None => s.run.cfg = s.files.cfg
  /\ s.run.mitm => s.run.plan = s.files.plan

\* Without a fault, and always while published, the children serve the files in force.
Serves(s) ==
  /\ ~s.run.fault => Current(s)
  /\ s.run.ready => s.run.sb # None /\ Current(s)

\* The invariant, of one state.
Sound(s) == s \in State /\ Owns(s) /\ Serves(s)

\* No data plane that anyone may rely on.
Quiet(s) ==
  /\ ~s.run.ready
  /\ ~s.run.fault => s.run.sb = None /\ ~s.run.mitm

-------------------------------------------------------------------------------

\* What Done and Failed, the two outcomes of a fallible call, consist of.
LEMMA OutcomeOf ==
  ASSUME NEW s
  PROVE  /\ Done(s).ok /\ Done(s).s = s
         /\ ~Failed(s).ok /\ Failed(s).s = s
BY DEF Done, Failed

\* A failure the instance does not cause has no outcome; otherwise it has the one named.
LEMMA MayOf ==
  ASSUME NEW kind, NEW outcome, NEW o \in May(kind, outcome)
  PROVE  o = outcome
BY DEF May

\* Replacing the handles of the agent leaves the rest of its state alone.
LEMMA RunUpdate ==
  ASSUME NEW s \in State, NEW r \in Runtime
  PROVE  /\ [s EXCEPT !.run = r] \in State
         /\ [s EXCEPT !.run = r].run = r
         /\ [s EXCEPT !.run = r].files = s.files
         /\ [s EXCEPT !.run = r].pending = s.pending
         /\ [s EXCEPT !.run = r].slots = s.slots
         /\ [s EXCEPT !.run = r].network = s.network
         /\ [s EXCEPT !.run = r].log = s.log
BY DEF State

\* stop_child: a handle is kept only if there was one, and a child that runs on
\* keeps its handle.
LEMMA ReapSound ==
  ASSUME NEW owned \in BOOLEAN, NEW up \in BOOLEAN, NEW m \in Reap(owned, up)
  PROVE  /\ m.kept \in BOOLEAN /\ m.up \in BOOLEAN
         /\ m.kept => owned
         /\ ~m.kept => ~m.up
<1>1. \/ m = [kept |-> FALSE, up |-> FALSE]
      \/ \E u \in BOOLEAN : m = [kept |-> TRUE, up |-> u] /\ owned
  BY DEF Reap
<1>2. CASE m = [kept |-> FALSE, up |-> FALSE]
  BY <1>2
<1>3. CASE \E u \in BOOLEAN : m = [kept |-> TRUE, up |-> u] /\ owned
  <2>1. PICK u \in BOOLEAN : m = [kept |-> TRUE, up |-> u] /\ owned
    BY <1>3
  <2>2. m.kept = TRUE /\ m.up = u /\ owned
    BY <2>1
  <2> QED BY <2>2
<1> QED BY <1>1, <1>2, <1>3

\* After both children were asked to leave, the agent still owns what runs and the
\* readiness file is gone; only the children changed.
LEMMA StoppedSound ==
  ASSUME NEW s \in State, Owns(s),
         NEW m \in Reap(s.run.mitm, s.run.mitmUp),
         NEW b \in Reap(s.run.sb # None, s.run.sbUp)
  PROVE  LET t == Stopped(s, m, b) IN
         /\ t \in State /\ Owns(t)
         /\ ~t.run.ready
         /\ ~m.kept => ~t.run.mitm
         /\ ~b.kept => t.run.sb = None
         /\ t.files = s.files /\ t.pending = s.pending /\ t.slots = s.slots
         /\ t.network = s.network /\ t.log = s.log
<1> DEFINE t == Stopped(s, m, b)
<1>1. s.run \in Runtime /\ s.run.mitm \in BOOLEAN /\ s.run.mitmUp \in BOOLEAN
      /\ s.run.sbUp \in BOOLEAN
  BY DEF State, Runtime
<1>2. /\ m.kept \in BOOLEAN /\ m.up \in BOOLEAN
      /\ m.kept => s.run.mitm
      /\ ~m.kept => ~m.up
  BY <1>1, ReapSound
<1>3. /\ b.kept \in BOOLEAN /\ b.up \in BOOLEAN
      /\ b.kept => s.run.sb # None
      /\ ~b.kept => ~b.up
  BY <1>1, ReapSound
<1> DEFINE pl == IF m.kept THEN s.run.plan ELSE None
           sb == IF b.kept THEN s.run.sb ELSE None
           cf == IF b.kept THEN s.run.cfg ELSE None
           r == [s.run EXCEPT !.mitm = m.kept, !.mitmUp = m.up, !.plan = pl,
                              !.sb = sb, !.sbUp = b.up, !.cfg = cf,
                              !.api = FALSE, !.ready = FALSE]
<1>4. pl \in Opt(Plans) /\ sb \in Opt(Versions) /\ cf \in Opt(Configs)
  BY <1>1 DEF Runtime, Opt
<1>5. t = [s EXCEPT !.run = r]
  BY DEF Stopped
<1>6. ~b.kept => sb = None
  OBVIOUS
<1>7. (b.kept => sb # None) /\ (sb # None => cf # None)
  BY <1>3 DEF Owns
<1> HIDE DEF pl, sb, cf
<1>8. r \in Runtime
  BY <1>1, <1>2, <1>3, <1>4 DEF Runtime
<1>9. /\ r.mitm = m.kept /\ r.mitmUp = m.up /\ r.sb = sb /\ r.sbUp = b.up
      /\ r.cfg = cf /\ r.ready = FALSE /\ r.stray = s.run.stray
  BY <1>1 DEF Runtime
<1> HIDE DEF r, t
<1>10. /\ t \in State /\ t.run = r
       /\ t.files = s.files /\ t.pending = s.pending /\ t.slots = s.slots
       /\ t.network = s.network /\ t.log = s.log
  BY <1>5, <1>8, RunUpdate
<1>11. ~t.run.stray
  BY <1>9, <1>10 DEF Owns
<1>12. /\ t.run.sb = None => ~t.run.sbUp
       /\ t.run.sb # None => t.run.cfg # None
  BY <1>3, <1>7, <1>9, <1>10
<1>13. ~t.run.mitm => ~t.run.mitmUp
  BY <1>2, <1>9, <1>10
<1>14. /\ ~t.run.ready
       /\ ~m.kept => ~t.run.mitm
       /\ ~b.kept => t.run.sb = None
  BY <1>6, <1>9, <1>10
<1> QED BY <1>10, <1>11, <1>12, <1>13, <1>14 DEF t, Owns

\* Recording whether the stop failed (liveness_fault) changes neither ownership nor
\* the files.
LEMMA StoppedFlagged ==
  ASSUME NEW t \in State, Owns(t)
  PROVE  LET x == [t EXCEPT !.run.fault = TRUE]
             y == [t EXCEPT !.run.fault = FALSE, !.run.backoff = FALSE] IN
         /\ x \in State /\ Owns(x) /\ x.run.fault /\ x.run.ready = t.run.ready
         /\ x.files = t.files /\ x.pending = t.pending /\ x.slots = t.slots
         /\ x.network = t.network /\ x.log = t.log
         /\ y \in State /\ Owns(y) /\ ~y.run.fault /\ y.run.ready = t.run.ready
         /\ y.run.sb = t.run.sb /\ y.run.mitm = t.run.mitm
         /\ y.files = t.files /\ y.pending = t.pending /\ y.slots = t.slots
         /\ y.network = t.network /\ y.log = t.log
<1> DEFINE rx == [t.run EXCEPT !.fault = TRUE]
           ry == [t.run EXCEPT !.fault = FALSE, !.backoff = FALSE]
           x == [t EXCEPT !.run = rx]
           y == [t EXCEPT !.run = ry]
<1>1. t.run \in Runtime
  BY DEF State
<1>2. /\ rx \in Runtime /\ rx.fault = TRUE /\ rx.ready = t.run.ready
      /\ rx.stray = t.run.stray /\ rx.sb = t.run.sb /\ rx.cfg = t.run.cfg /\ rx.sbUp = t.run.sbUp
      /\ rx.mitm = t.run.mitm /\ rx.mitmUp = t.run.mitmUp
  BY <1>1 DEF Runtime
<1>3. /\ ry \in Runtime /\ ry.fault = FALSE /\ ry.ready = t.run.ready
      /\ ry.stray = t.run.stray /\ ry.sb = t.run.sb /\ ry.cfg = t.run.cfg /\ ry.sbUp = t.run.sbUp
      /\ ry.mitm = t.run.mitm /\ ry.mitmUp = t.run.mitmUp
  BY <1>1 DEF Runtime
<1>4. /\ x = [t EXCEPT !.run.fault = TRUE]
      /\ y = [t EXCEPT !.run.fault = FALSE, !.run.backoff = FALSE]
  BY <1>1 DEF State, Runtime
<1> HIDE DEF rx, ry
<1>5. /\ x \in State /\ x.run = rx
      /\ x.files = t.files /\ x.pending = t.pending /\ x.slots = t.slots
      /\ x.network = t.network /\ x.log = t.log
  BY <1>2, RunUpdate
<1>6. /\ y \in State /\ y.run = ry
      /\ y.files = t.files /\ y.pending = t.pending /\ y.slots = t.slots
      /\ y.network = t.network /\ y.log = t.log
  BY <1>3, RunUpdate
<1> HIDE DEF x, y
<1>7. Owns(x)
  BY <1>2, <1>5 DEF Owns
<1>8. Owns(y)
  BY <1>3, <1>6 DEF Owns
<1> QED BY <1>2, <1>3, <1>4, <1>5, <1>6, <1>7, <1>8

\* stop leaves a quiet agent behind, whether it succeeds or not, and touches nothing
\* but the children.
LEMMA StopSound ==
  ASSUME NEW s, Sound(s), NEW o \in Stop(s)
  PROVE  /\ Sound(o.s) /\ Quiet(o.s)
         /\ o.s.files = s.files /\ o.s.pending = s.pending /\ o.s.slots = s.slots
         /\ o.s.network = s.network /\ o.s.log = s.log
<1>1. PICK m \in Reap(s.run.mitm, s.run.mitmUp), b \in Reap(s.run.sb # None, s.run.sbUp) :
        o = StopOutcome(s, m, b)
  BY DEF Stop
<1> DEFINE t == Stopped(s, m, b)
<1>2. s \in State /\ Owns(s)
  BY DEF Sound
<1>3. /\ t \in State /\ Owns(t)
      /\ ~t.run.ready
      /\ ~m.kept => ~t.run.mitm
      /\ ~b.kept => t.run.sb = None
      /\ t.files = s.files /\ t.pending = s.pending /\ t.slots = s.slots
      /\ t.network = s.network /\ t.log = s.log
  BY <1>2, StoppedSound
<1>4. CASE m.kept \/ b.kept
  <2> DEFINE x == [t EXCEPT !.run.fault = TRUE]
  <2>1. o.s = x
    BY <1>1, <1>4, OutcomeOf DEF StopOutcome
  <2>2. /\ x \in State /\ Owns(x) /\ x.run.fault /\ x.run.ready = t.run.ready
        /\ x.files = t.files /\ x.pending = t.pending /\ x.slots = t.slots
        /\ x.network = t.network /\ x.log = t.log
    BY <1>3, StoppedFlagged
  <2> HIDE DEF t, x
  <2>3. Serves(x) /\ Quiet(x)
    BY <1>3, <2>2 DEF Serves, Quiet
  <2> QED BY <1>3, <2>1, <2>2, <2>3 DEF Sound
<1>5. CASE ~(m.kept \/ b.kept)
  <2> DEFINE y == [t EXCEPT !.run.fault = FALSE, !.run.backoff = FALSE]
  <2>1. o.s = y
    BY <1>1, <1>5, OutcomeOf DEF StopOutcome
  <2>2. /\ y \in State /\ Owns(y) /\ ~y.run.fault /\ y.run.ready = t.run.ready
        /\ y.run.sb = t.run.sb /\ y.run.mitm = t.run.mitm
        /\ y.files = t.files /\ y.pending = t.pending /\ y.slots = t.slots
        /\ y.network = t.network /\ y.log = t.log
    BY <1>3, StoppedFlagged
  <2> HIDE DEF t, y
  <2>3. y.run.sb = None /\ ~y.run.mitm /\ ~y.run.ready
    BY <1>3, <1>5, <2>2
  <2>4. Serves(y) /\ Quiet(y)
    BY <2>3 DEF Serves, Quiet, Current
  <2> QED BY <1>3, <2>1, <2>2, <2>4 DEF Sound
<1> QED BY <1>4, <1>5

\* A stop that succeeds leaves no fault behind.
LEMMA StopOk ==
  ASSUME NEW s, Sound(s), NEW o \in Stop(s), o.ok
  PROVE  ~o.s.run.fault
<1>1. PICK m \in Reap(s.run.mitm, s.run.mitmUp), b \in Reap(s.run.sb # None, s.run.sbUp) :
        o = StopOutcome(s, m, b)
  BY DEF Stop
<1> DEFINE t == Stopped(s, m, b)
           y == [t EXCEPT !.run.fault = FALSE, !.run.backoff = FALSE]
<1>2. ~(m.kept \/ b.kept) /\ o = Done(y)
  BY <1>1, OutcomeOf DEF StopOutcome
<1>3. t \in State /\ Owns(t)
  BY StoppedSound DEF Sound
<1>4. ~y.run.fault
  BY <1>3, StoppedFlagged
<1> QED BY <1>2, <1>4, OutcomeOf

\* What a run field must satisfy for the state to be sound with it.
LEMMA RunSound ==
  ASSUME NEW s \in State, NEW r \in Runtime,
         ~r.stray,
         r.sb = None => ~r.sbUp,
         r.sb # None => r.cfg # None,
         ~r.mitm => ~r.mitmUp,
         ~r.fault \/ r.ready => /\ r.sb # None => r.cfg = s.files.cfg
                                /\ r.mitm => r.plan = s.files.plan,
         r.ready => r.sb # None
  PROVE  /\ Sound([s EXCEPT !.run = r])
         /\ [s EXCEPT !.run = r].run = r
         /\ [s EXCEPT !.run = r].files = s.files
         /\ [s EXCEPT !.run = r].pending = s.pending
         /\ [s EXCEPT !.run = r].slots = s.slots
         /\ [s EXCEPT !.run = r].network = s.network
<1> DEFINE t == [s EXCEPT !.run = r]
<1>1. /\ t \in State /\ t.run = r /\ t.files = s.files /\ t.pending = s.pending
      /\ t.slots = s.slots /\ t.network = s.network
  BY RunUpdate
<1> HIDE DEF t
<1>2. Owns(t)
  BY <1>1 DEF Owns
<1>3. Serves(t)
  BY <1>1 DEF Serves, Current
<1> QED BY <1>1, <1>2, <1>3 DEF Sound, t

\* The invariant, spelled out for the handles.
LEMMA SoundRun ==
  ASSUME NEW s, Sound(s)
  PROVE  /\ s \in State /\ s.run \in Runtime /\ s.files \in Files
         /\ s.run.sb \in Opt(Versions) /\ s.run.cfg \in Opt(Configs)
         /\ s.run.plan \in Opt(Plans)
         /\ ~s.run.stray
         /\ s.run.sb = None => ~s.run.sbUp
         /\ s.run.sb # None => s.run.cfg # None
         /\ ~s.run.mitm => ~s.run.mitmUp
         /\ ~s.run.fault \/ s.run.ready => /\ s.run.sb # None => s.run.cfg = s.files.cfg
                                           /\ s.run.mitm => s.run.plan = s.files.plan
         /\ s.run.ready => s.run.sb # None
<1>1. s \in State /\ Owns(s) /\ Serves(s)
  BY DEF Sound
<1>2. s.run \in Runtime /\ s.files \in Files
  BY <1>1 DEF State
<1>3. /\ s.run.sb \in Opt(Versions) /\ s.run.cfg \in Opt(Configs)
      /\ s.run.plan \in Opt(Plans)
  BY <1>2 DEF Runtime
<1>4. /\ ~s.run.stray
      /\ s.run.sb = None => ~s.run.sbUp
      /\ s.run.sb # None => s.run.cfg # None
      /\ ~s.run.mitm => ~s.run.mitmUp
  BY <1>1 DEF Owns
<1>5. /\ ~s.run.fault \/ s.run.ready => /\ s.run.sb # None => s.run.cfg = s.files.cfg
                                        /\ s.run.mitm => s.run.plan = s.files.plan
      /\ s.run.ready => s.run.sb # None
  BY <1>1 DEF Serves, Current
<1> QED BY <1>1, <1>2, <1>3, <1>4, <1>5

\* remove_readiness is always safe.
LEMMA UnpublishedSound ==
  ASSUME NEW s, Sound(s)
  PROVE  /\ Sound(Unpublished(s)) /\ ~Unpublished(s).run.ready
         /\ Unpublished(s).files = s.files /\ Unpublished(s).slots = s.slots
         /\ Unpublished(s).pending = s.pending
         /\ Unpublished(s).run.sb = s.run.sb /\ Unpublished(s).run.mitm = s.run.mitm
         /\ Unpublished(s).run.fault = s.run.fault
<1> DEFINE r == [s.run EXCEPT !.ready = FALSE]
<1>1. s.run \in Runtime
  BY SoundRun
<1>2. /\ r \in Runtime /\ ~r.ready
      /\ r.stray = s.run.stray /\ r.sb = s.run.sb /\ r.sbUp = s.run.sbUp
      /\ r.mitm = s.run.mitm /\ r.mitmUp = s.run.mitmUp /\ r.fault = s.run.fault
      /\ r.cfg = s.run.cfg /\ r.plan = s.run.plan
  BY <1>1 DEF Runtime
<1>3. Unpublished(s) = [s EXCEPT !.run = r]
  BY DEF Unpublished
<1> HIDE DEF r
<1> QED BY <1>2, <1>3, SoundRun, RunSound

\* The readiness file may be written over a data plane without a fault: it serves the
\* files in force.
LEMMA PublishedSound ==
  ASSUME NEW s, Sound(s), s.run.sb # None, ~s.run.fault
  PROVE  Sound(Published(s)) /\ Published(s).files = s.files
<1> DEFINE r == [s.run EXCEPT !.ready = TRUE]
<1>1. s.run \in Runtime
  BY SoundRun
<1>2. /\ r \in Runtime
      /\ r.stray = s.run.stray /\ r.sb = s.run.sb /\ r.sbUp = s.run.sbUp
      /\ r.mitm = s.run.mitm /\ r.mitmUp = s.run.mitmUp
      /\ r.cfg = s.run.cfg /\ r.plan = s.run.plan
  BY <1>1 DEF Runtime
<1>3. Published(s) = [s EXCEPT !.run = r]
  BY DEF Published
<1> HIDE DEF r
<1> QED BY <1>2, <1>3, SoundRun, RunSound

\* Recording a liveness fault is always safe.
LEMMA FaultSound ==
  ASSUME NEW s, Sound(s)
  PROVE  Sound([s EXCEPT !.run.fault = TRUE]) /\ [s EXCEPT !.run.fault = TRUE].files = s.files
<1> DEFINE r == [s.run EXCEPT !.fault = TRUE]
<1>1. s.run \in Runtime
  BY SoundRun
<1>2. /\ r \in Runtime /\ r.ready = s.run.ready /\ r.fault = TRUE
      /\ r.stray = s.run.stray /\ r.sb = s.run.sb /\ r.sbUp = s.run.sbUp
      /\ r.mitm = s.run.mitm /\ r.mitmUp = s.run.mitmUp
      /\ r.cfg = s.run.cfg /\ r.plan = s.run.plan
  BY <1>1 DEF Runtime
<1>3. [s EXCEPT !.run.fault = TRUE] = [s EXCEPT !.run = r]
  OBVIOUS
<1> HIDE DEF r
<1> QED BY <1>2, <1>3, SoundRun, RunSound

\* Whether the services answer is not what ownership or readiness rest on.
LEMMA ApiSound ==
  ASSUME NEW s, Sound(s), NEW b \in BOOLEAN
  PROVE  Sound([s EXCEPT !.run.api = b]) /\ [s EXCEPT !.run.api = b].files = s.files
<1> DEFINE r == [s.run EXCEPT !.api = b]
<1>1. s.run \in Runtime
  BY SoundRun
<1>2. /\ r \in Runtime /\ r.ready = s.run.ready /\ r.fault = s.run.fault
      /\ r.stray = s.run.stray /\ r.sb = s.run.sb /\ r.sbUp = s.run.sbUp
      /\ r.mitm = s.run.mitm /\ r.mitmUp = s.run.mitmUp
      /\ r.cfg = s.run.cfg /\ r.plan = s.run.plan
  BY <1>1 DEF Runtime
<1>3. [s EXCEPT !.run.api = b] = [s EXCEPT !.run = r]
  OBVIOUS
<1> HIDE DEF r
<1> QED BY <1>2, <1>3, SoundRun, RunSound

\* The restart backoff is not either.
LEMMA BackoffSound ==
  ASSUME NEW s, Sound(s), NEW b \in BOOLEAN
  PROVE  Sound([s EXCEPT !.run.backoff = b])
<1> DEFINE r == [s.run EXCEPT !.backoff = b]
<1>1. s.run \in Runtime
  BY SoundRun
<1>2. /\ r \in Runtime /\ r.ready = s.run.ready /\ r.fault = s.run.fault
      /\ r.stray = s.run.stray /\ r.sb = s.run.sb /\ r.sbUp = s.run.sbUp
      /\ r.mitm = s.run.mitm /\ r.mitmUp = s.run.mitmUp
      /\ r.cfg = s.run.cfg /\ r.plan = s.run.plan
  BY <1>1 DEF Runtime
<1>3. [s EXCEPT !.run.backoff = b] = [s EXCEPT !.run = r]
  OBVIOUS
<1> HIDE DEF r
<1> QED BY <1>2, <1>3, SoundRun, RunSound

\* write_readiness either publishes a data plane that answers or changes nothing.
LEMMA WriteReadinessSound ==
  ASSUME NEW s, Sound(s), NEW o \in WriteReadiness(s)
  PROVE  Sound(o.s) /\ o.s.files = s.files
<1>1. PICK up \in Probes(s) :
        o \in IF ~up THEN {Failed(s)}
              ELSE {Done(Published(s))} \cup May("write", Failed(s))
                                        \cup May("write", Failed(Published(s)))
  BY DEF WriteReadiness
<1>2. CASE o.s = s
  BY <1>2
<1>3. CASE o.s # s
  <2>1. up /\ o.s = Published(s)
    BY <1>1, <1>3, OutcomeOf, MayOf
  <2>2. Answering(s)
    BY <1>1, <2>1 DEF Probes
  <2>3. s.run.sb # None /\ ~s.run.fault
    BY <2>2 DEF Answering
  <2> QED BY <2>1, <2>3, PublishedSound
<1> QED BY <1>2, <1>3

\* A mitmdump started when none is owned leaves no other one behind, and it serves the
\* plan in force.
LEMMA MitmStartedSound ==
  ASSUME NEW s, Sound(s), ~s.run.mitm
  PROVE  /\ Sound(MitmStarted(s)) /\ MitmStarted(s).files = s.files
         /\ MitmStarted(s).run.ready = s.run.ready
<1> DEFINE r == [s.run EXCEPT !.mitm = TRUE, !.mitmUp = TRUE, !.plan = s.files.plan,
                              !.api = FALSE, !.stray = s.run.stray \/ s.run.mitmUp]
<1>1. s.run \in Runtime /\ s.files.plan \in Opt(Plans)
  BY SoundRun DEF Files
<1>2. ~(s.run.stray \/ s.run.mitmUp)
  BY SoundRun
<1>3. (s.run.stray \/ s.run.mitmUp) \in BOOLEAN
  OBVIOUS
<1>4. r \in Runtime
  BY <1>1, <1>3 DEF Runtime
<1>5. /\ r.ready = s.run.ready /\ r.fault = s.run.fault
      /\ r.sb = s.run.sb /\ r.sbUp = s.run.sbUp /\ r.cfg = s.run.cfg
  BY <1>1 DEF Runtime
<1>6. /\ r.stray = (s.run.stray \/ s.run.mitmUp)
      /\ r.mitm = TRUE /\ r.mitmUp = TRUE /\ r.plan = s.files.plan
  BY <1>1 DEF Runtime
<1>7. MitmStarted(s) = [s EXCEPT !.run = r]
  BY DEF MitmStarted
<1> HIDE DEF r
<1>8. ~r.stray
  BY <1>2, <1>6
<1>9. s \in State
  BY SoundRun
<1>10. ~r.fault \/ r.ready => /\ r.sb # None => r.cfg = s.files.cfg
                              /\ r.mitm => r.plan = s.files.plan
  BY <1>5, <1>6, SoundRun
<1>11. /\ r.ready => r.sb # None
       /\ r.sb = None => ~r.sbUp
       /\ r.sb # None => r.cfg # None
       /\ ~r.mitm => ~r.mitmUp
  BY <1>5, <1>6, SoundRun
<1>12. /\ Sound([s EXCEPT !.run = r])
       /\ [s EXCEPT !.run = r].run = r
       /\ [s EXCEPT !.run = r].files = s.files
  BY <1>4, <1>8, <1>9, <1>10, <1>11, RunSound
<1> QED BY <1>5, <1>7, <1>12

\* start_mitm, with every way it can fail.
LEMMA StartMitmSound ==
  ASSUME NEW s, Sound(s), NEW o \in StartMitm(s)
  PROVE  Sound(o.s) /\ o.s.files = s.files /\ o.s.run.ready = s.run.ready
<1>1. CASE o.s = s
  BY <1>1
<1>2. CASE o.s # s
  <2>1. /\ ~s.run.mitm
        /\ o.s = MitmStarted(s) \/ o.s = [MitmStarted(s) EXCEPT !.run.fault = TRUE]
    BY <1>2, OutcomeOf, MayOf DEF StartMitm
  <2>2. /\ Sound(MitmStarted(s)) /\ MitmStarted(s).files = s.files
        /\ MitmStarted(s).run.ready = s.run.ready
    BY <2>1, MitmStartedSound
  <2> DEFINE t == MitmStarted(s)
  <2>3. t.run \in Runtime /\ t \in State
    BY <2>2, SoundRun
  <2> HIDE DEF t
  <2>4. [t EXCEPT !.run.fault = TRUE].run.ready = t.run.ready
    BY <2>3 DEF State, Runtime
  <2> QED BY <2>1, <2>2, <2>4, FaultSound DEF t
<1> QED BY <1>1, <1>2

\* A sing-box started when nothing is owned leaves no other one behind, and it serves
\* the configuration in force.
LEMMA SingBoxStartedSound ==
  ASSUME NEW s, Sound(s), NEW v \in Versions, ~Owned(s), ~s.run.ready,
         s.files.cfg # None
  PROVE  Sound(SingBoxStarted(s, v)) /\ SingBoxStarted(s, v).files = s.files
<1> DEFINE r == [s.run EXCEPT !.sb = v, !.sbUp = TRUE, !.cfg = s.files.cfg,
                              !.api = FALSE, !.stray = s.run.stray \/ s.run.sbUp]
<1>1. s.run \in Runtime /\ s.files.cfg \in Opt(Configs) /\ s \in State
  BY SoundRun DEF Files
<1>2. ~(s.run.stray \/ s.run.sbUp) /\ ~s.run.mitm /\ ~s.run.mitmUp
  BY SoundRun DEF Owned
<1>3. (s.run.stray \/ s.run.sbUp) \in BOOLEAN
  OBVIOUS
<1>4. v \in Opt(Versions) /\ v # None
  BY ConstantsAssumption DEF Opt
<1>5. r \in Runtime
  BY <1>1, <1>3, <1>4 DEF Runtime
<1>6. r.ready = s.run.ready /\ r.mitm = s.run.mitm /\ r.mitmUp = s.run.mitmUp
  BY <1>1 DEF Runtime
<1>7. /\ r.stray = (s.run.stray \/ s.run.sbUp)
      /\ r.sb = v /\ r.sbUp = TRUE /\ r.cfg = s.files.cfg
  BY <1>1 DEF Runtime
<1>8. SingBoxStarted(s, v) = [s EXCEPT !.run = r]
  BY DEF SingBoxStarted
<1> HIDE DEF r
<1>9. ~r.stray /\ ~r.mitm /\ ~r.ready
  BY <1>2, <1>6, <1>7
<1>10. ~r.fault \/ r.ready => /\ r.sb # None => r.cfg = s.files.cfg
                              /\ r.mitm => r.plan = s.files.plan
  BY <1>7, <1>9
<1>11. /\ r.ready => r.sb # None
       /\ r.sb = None => ~r.sbUp
       /\ r.sb # None => r.cfg # None
       /\ ~r.mitm => ~r.mitmUp
  BY <1>2, <1>4, <1>6, <1>7
<1>12. /\ Sound([s EXCEPT !.run = r])
       /\ [s EXCEPT !.run = r].files = s.files
  BY <1>1, <1>5, <1>9, <1>10, <1>11, RunSound
<1> QED BY <1>8, <1>12

\* A handler that gives up stops what it started.
LEMMA StopAndFailSound ==
  ASSUME NEW s, Sound(s), NEW o \in StopAndFail(s)
  PROVE  Sound(o.s) /\ o.s.files = s.files
<1>1. PICK stop \in Stop(s) : o = Failed(stop.s)
  BY DEF StopAndFail
<1> QED BY <1>1, StopSound, OutcomeOf

\* The end of start_version, whether the services answer yet or not.
LEMMA PublishSound ==
  ASSUME NEW s, Sound(s), NEW o \in Publish(s)
  PROVE  Sound(o.s) /\ o.s.files = s.files
<1> DEFINE t == [s EXCEPT !.run.api = TRUE]
<1>1. CASE o = Done(Unpublished(s))
  BY <1>1, OutcomeOf, UnpublishedSound
<1>2. CASE o # Done(Unpublished(s))
  <2>1. PICK w \in WriteReadiness(t) : o \in IF w.ok THEN {w} ELSE StopAndFail(w.s)
    BY <1>2 DEF Publish
  <2>2. Sound(t) /\ t.files = s.files
    BY ApiSound
  <2> HIDE DEF t
  <2>3. Sound(w.s) /\ w.s.files = s.files
    BY <2>2, WriteReadinessSound
  <2> QED BY <2>1, <2>3, StopAndFailSound
<1> QED BY <1>1, <1>2

\* start_version never starts over something it owns.
LEMMA StartSound ==
  ASSUME NEW s, Sound(s), NEW v \in Versions, NEW o \in Start(s, v)
  PROVE  Sound(o.s) /\ o.s.files = s.files
<1> DEFINE clean == Unpublished(s)
           up == SingBoxStarted(clean, v)
<1>1. CASE o = Failed(s)
  BY <1>1, OutcomeOf
<1>2. Sound(clean) /\ clean.files = s.files
  BY UnpublishedSound
<1>3. CASE o = Failed(clean)
  BY <1>2, <1>3, OutcomeOf
<1>4. CASE o # Failed(s) /\ o # Failed(clean)
  <2>1. /\ ~Owned(s) /\ s.files.cfg # None
        /\ \/ o = Failed([up EXCEPT !.run.fault = TRUE])
           \/ \E m \in StartMitm(up) : o \in IF m.ok THEN Publish(m.s)
                                                     ELSE StopAndFail(m.s)
    BY <1>4, MayOf DEF Start
  <2>2. ~Owned(clean) /\ ~clean.run.ready /\ clean.files.cfg # None
    BY <2>1, UnpublishedSound DEF Owned
  <2> HIDE DEF clean
  <2>3. Sound(up) /\ up.files = s.files
    BY <1>2, <2>2, SingBoxStartedSound
  <2> HIDE DEF up
  <2>4. CASE o = Failed([up EXCEPT !.run.fault = TRUE])
    BY <2>3, <2>4, FaultSound, OutcomeOf
  <2>5. CASE \E m \in StartMitm(up) : o \in IF m.ok THEN Publish(m.s) ELSE StopAndFail(m.s)
    <3>1. PICK m \in StartMitm(up) : o \in IF m.ok THEN Publish(m.s) ELSE StopAndFail(m.s)
      BY <2>5
    <3>2. Sound(m.s) /\ m.s.files = s.files
      BY <2>3, StartMitmSound
    <3> QED BY <3>1, <3>2, PublishSound, StopAndFailSound
  <2> QED BY <2>1, <2>4, <2>5
<1> QED BY <1>1, <1>3, <1>4

\* restart_version: with nothing to start there is nothing to go wrong.
LEMMA RestartSound ==
  ASSUME NEW s, Sound(s), NEW v \in Opt(Versions), NEW o \in Restart(s, v)
  PROVE  Sound(o.s) /\ o.s.files = s.files
<1>1. CASE v = None
  BY <1>1, OutcomeOf DEF Restart
<1>2. CASE v # None
  BY <1>2, StartSound DEF Restart, Opt
<1> QED BY <1>1, <1>2

\* Every state of the agent has its parts, and each may be replaced alone.
LEMMA Parts ==
  ASSUME NEW s, Sound(s)
  PROVE  /\ s \in State /\ s.files \in Files /\ s.slots \in Slots /\ s.log \in History
         /\ s.pending \in Opt(PendingSession) /\ s.network \in BOOLEAN
BY DEF Sound, State

\* A step that leaves the handles alone keeps the invariant, unless it rewrites the
\* files under a data plane that is not quiet.
LEMMA SameRun ==
  ASSUME NEW s, Sound(s), NEW t \in State, t.run = s.run,
         Quiet(s) \/ (t.files.cfg = s.files.cfg /\ t.files.plan = s.files.plan)
  PROVE  Sound(t) /\ (Quiet(s) => Quiet(t))
<1>1. Owns(t)
  BY DEF Sound, Owns
<1>2. Quiet(s) => Quiet(t)
  BY DEF Quiet
<1>3. Serves(t)
  BY DEF Sound, Serves, Current, Quiet
<1> QED BY <1>1, <1>2, <1>3 DEF Sound

\* The session files may be rewritten when the agent is quiet.
LEMMA FilesSound ==
  ASSUME NEW s, Sound(s), NEW f \in Files,
         Quiet(s) \/ (f.cfg = s.files.cfg /\ f.plan = s.files.plan)
  PROVE  LET t == [s EXCEPT !.files = f] IN
         /\ Sound(t) /\ (Quiet(s) => Quiet(t))
         /\ t.files = f /\ t.pending = s.pending /\ t.slots = s.slots
<1> DEFINE t == [s EXCEPT !.files = f]
<1>1. /\ t \in State /\ t.run = s.run /\ t.files = f /\ t.pending = s.pending
      /\ t.slots = s.slots
  BY Parts DEF State
<1> HIDE DEF t
<1> QED BY <1>1, SameRun DEF t

\* Neither the invariant nor quietness depends on the history.
LEMMA LogSound ==
  ASSUME NEW s, Sound(s), NEW l \in History
  PROVE  LET t == [s EXCEPT !.log = l] IN
         /\ Sound(t) /\ (Quiet(s) => Quiet(t))
         /\ t.files = s.files /\ t.pending = s.pending /\ t.slots = s.slots
<1> DEFINE t == [s EXCEPT !.log = l]
<1>1. /\ t \in State /\ t.run = s.run /\ t.files = s.files /\ t.pending = s.pending
      /\ t.slots = s.slots
  BY Parts DEF State
<1> HIDE DEF t
<1> QED BY <1>1, SameRun DEF t

\* ... nor on the pending session.
LEMMA PendingSound ==
  ASSUME NEW s, Sound(s), NEW q \in Opt(PendingSession)
  PROVE  LET t == [s EXCEPT !.pending = q] IN
         /\ Sound(t) /\ (Quiet(s) => Quiet(t))
         /\ t.files = s.files /\ t.slots = s.slots
<1> DEFINE t == [s EXCEPT !.pending = q]
<1>1. /\ t \in State /\ t.run = s.run /\ t.files = s.files /\ t.slots = s.slots
  BY Parts DEF State
<1> HIDE DEF t
<1> QED BY <1>1, SameRun DEF t

\* ... nor on the version slots.
LEMMA SlotsSound ==
  ASSUME NEW s, Sound(s), NEW sl \in Slots
  PROVE  LET t == [s EXCEPT !.slots = sl] IN
         /\ Sound(t) /\ (Quiet(s) => Quiet(t))
         /\ t.slots = sl
<1> DEFINE t == [s EXCEPT !.slots = sl]
<1>1. /\ t \in State /\ t.run = s.run /\ t.files = s.files /\ t.slots = sl
  BY Parts DEF State
<1> HIDE DEF t
<1> QED BY <1>1, SameRun DEF t

\* refresh: a sing-box that exited takes its handle and the readiness file with it.
LEMMA RefreshSound ==
  ASSUME NEW s, Sound(s), NEW t \in Refresh(s)
  PROVE  Sound(t)
<1> DEFINE r1 == [s.run EXCEPT !.sb = None, !.cfg = None, !.ready = FALSE]
           r2 == [s.run EXCEPT !.ready = FALSE, !.fault = TRUE]
<1>1. \/ t = s
      \/ ~s.run.sbUp /\ t = [s EXCEPT !.run = r1]
      \/ t = [s EXCEPT !.run = r2]
  BY MayOf DEF Refresh
<1>2. s.run \in Runtime /\ s \in State /\ None \in Opt(Versions) /\ None \in Opt(Configs)
  BY SoundRun DEF Opt
<1>3. /\ r1 \in Runtime /\ ~r1.ready /\ r1.sb = None
      /\ r1.stray = s.run.stray /\ r1.sbUp = s.run.sbUp
      /\ r1.mitm = s.run.mitm /\ r1.mitmUp = s.run.mitmUp
      /\ r1.plan = s.run.plan /\ r1.fault = s.run.fault
  BY <1>2 DEF Runtime
<1>4. /\ r2 \in Runtime /\ ~r2.ready /\ r2.fault = TRUE
      /\ r2.stray = s.run.stray /\ r2.sb = s.run.sb /\ r2.sbUp = s.run.sbUp
      /\ r2.cfg = s.run.cfg
      /\ r2.mitm = s.run.mitm /\ r2.mitmUp = s.run.mitmUp
  BY <1>2 DEF Runtime
<1> HIDE DEF r1, r2
<1>5. CASE ~s.run.sbUp /\ t = [s EXCEPT !.run = r1]
  BY <1>2, <1>3, <1>5, SoundRun, RunSound
<1>6. CASE t = [s EXCEPT !.run = r2]
  BY <1>2, <1>4, <1>6, SoundRun, RunSound
<1> QED BY <1>1, <1>5, <1>6

\* The handle of a mitmdump that exited may be dropped.
LEMMA MitmLostSound ==
  ASSUME NEW s, Sound(s), ~s.run.mitmUp
  PROVE  Sound(MitmLost(s))
<1> DEFINE r == [s.run EXCEPT !.mitm = FALSE, !.plan = None]
<1>1. s.run \in Runtime /\ s \in State /\ None \in Opt(Plans)
  BY SoundRun DEF Opt
<1>2. /\ r \in Runtime /\ ~r.mitm /\ r.mitmUp = s.run.mitmUp
      /\ r.stray = s.run.stray /\ r.sb = s.run.sb /\ r.sbUp = s.run.sbUp
      /\ r.ready = s.run.ready /\ r.fault = s.run.fault /\ r.cfg = s.run.cfg
  BY <1>1 DEF Runtime
<1>3. MitmLost(s) = [s EXCEPT !.run = r]
  BY DEF MitmLost
<1> HIDE DEF r
<1> QED BY <1>1, <1>2, <1>3, SoundRun, RunSound

\* refresh_mitm, with the one restart it attempts.
LEMMA RefreshMitmSound ==
  ASSUME NEW s, Sound(s), NEW t \in RefreshMitm(s)
  PROVE  Sound(t)
<1> DEFINE l == [MitmLost(s) EXCEPT !.run.backoff = TRUE]
<1>1. \/ t = s
      \/ t = [s EXCEPT !.run.fault = TRUE]
      \/ ~s.run.mitmUp /\ t = MitmLost(s)
      \/ ~s.run.mitmUp /\ \E m \in StartMitm(l) : t = m.s
  BY MayOf DEF RefreshMitm
<1>2. CASE ~s.run.mitmUp /\ \E m \in StartMitm(l) : t = m.s
  <2>1. PICK m \in StartMitm(l) : t = m.s
    BY <1>2
  <2>2. Sound(l)
    BY <1>2, MitmLostSound, BackoffSound
  <2> HIDE DEF l
  <2> QED BY <2>1, <2>2, StartMitmSound
<1> QED BY <1>1, <1>2, FaultSound, MitmLostSound

\* restore_config and restore_file, when the agent is quiet.
LEMMA PutBackSound ==
  ASSUME NEW s, Sound(s), Quiet(s), NEW c \in Opt(Configs), NEW p \in Opt(Plans)
  PROVE  Sound(PutBack(s, c, p)) /\ Quiet(PutBack(s, c, p))
<1> DEFINE f == [s.files EXCEPT !.cfg = c, !.plan = p]
<1>1. f \in Files
  BY Parts DEF Files
<1>2. PutBack(s, c, p) = [s EXCEPT !.files = f]
  BY DEF PutBack
<1> HIDE DEF f
<1> QED BY <1>1, <1>2, FilesSound

\* The same for a restore that puts only a part of the pair back.
LEMMA TornSound ==
  ASSUME NEW s, Sound(s), Quiet(s), NEW c \in Opt(Configs), NEW p \in Opt(Plans)
  PROVE  Sound(Torn(s, c, p)) /\ Quiet(Torn(s, c, p))
<1> DEFINE t == PutBack(s, c, p)
           l == [t.log EXCEPT !.torn = TRUE]
<1>1. Sound(t) /\ Quiet(t)
  BY PutBackSound
<1>2. Torn(s, c, p) = [t EXCEPT !.log = l]
  BY DEF Torn
<1> HIDE DEF t
<1>3. l \in History
  BY <1>1, Parts DEF History
<1> HIDE DEF l
<1> QED BY <1>1, <1>2, <1>3, LogSound

\* Every outcome of the restore, complete or torn.
LEMMA RestoreSound ==
  ASSUME NEW s, Sound(s), Quiet(s), NEW c \in Opt(Configs), NEW p \in Opt(Plans),
         NEW o \in Restore(s, c, p)
  PROVE  Sound(o.s) /\ Quiet(o.s)
<1>1. s.files.cfg \in Opt(Configs) /\ s.files.plan \in Opt(Plans)
  BY Parts DEF Files
<1>2. \/ o.s = PutBack(s, c, p) \/ o.s = Torn(s, c, s.files.plan)
      \/ o.s = Torn(s, s.files.cfg, p) \/ o.s = Torn(s, s.files.cfg, s.files.plan)
  BY OutcomeOf, MayOf DEF Restore
<1> QED BY <1>1, <1>2, PutBackSound, TornSound

\* The way back never rewrites the files under a data plane: stop comes first, and
\* leaves the agent quiet even when it fails.
LEMMA StopAndRestoreSound ==
  ASSUME NEW s, Sound(s), NEW c \in Opt(Configs), NEW p \in Opt(Plans),
         NEW o \in StopAndRestore(s, c, p)
  PROVE  Sound(o.s) /\ Quiet(o.s)
<1>1. PICK stop \in Stop(s) :
        \E r \in Restore(stop.s, c, p) : o = IF stop.ok THEN r ELSE Failed(r.s)
  BY DEF StopAndRestore
<1>2. PICK r \in Restore(stop.s, c, p) : o = IF stop.ok THEN r ELSE Failed(r.s)
  BY <1>1
<1>3. Sound(r.s) /\ Quiet(r.s)
  BY StopSound, RestoreSound
<1> QED BY <1>2, <1>3, OutcomeOf

\* remove_session_artifacts leaves the files in force alone.
LEMMA DiscardSound ==
  ASSUME NEW s, Sound(s)
  PROVE  /\ Sound(Discard(s)) /\ (Quiet(s) => Quiet(Discard(s)))
<1> DEFINE f == [s.files EXCEPT !.cfgIn = None, !.cfgStaged = None,
                                !.planIn = None, !.planStaged = None]
<1>1. /\ None \in Opt(Configs) /\ None \in Opt(Plans)
      /\ None \in Opt(Configs \cup {Partial}) /\ None \in Opt(Plans \cup {Partial})
  BY DEF Opt
<1>2. f \in Files /\ f.cfg = s.files.cfg /\ f.plan = s.files.plan
  BY <1>1, Parts DEF Files
<1>3. Discard(s) = [s EXCEPT !.files = f]
  BY DEF Discard
<1> HIDE DEF f
<1> QED BY <1>2, <1>3, FilesSound

\* Taking the pending session out of its slot changes no child and no file.
LEMMA NotPendingSound ==
  ASSUME NEW s, Sound(s)
  PROVE  /\ Sound(NotPending(s)) /\ (Quiet(s) => Quiet(NotPending(s)))
<1>1. None \in Opt(PendingSession)
  BY DEF Opt
<1> QED BY <1>1, PendingSound DEF NotPending

\* A stop whose outcome the caller does not look at.
LEMMA AfterStopSound ==
  ASSUME NEW s, Sound(s), NEW t \in After(Stop(s))
  PROVE  Sound(t)
<1>1. PICK o \in Stop(s) : t = o.s
  BY DEF After
<1> QED BY <1>1, StopSound

\* rollback_pending_session, with every outcome of its stop, its restore and its restart.
LEMMA RollbackPendingSound ==
  ASSUME NEW s, Sound(s), NEW old \in PendingSession, NEW t \in RollbackPending(s, old)
  PROVE  Sound(t)
<1>1. /\ old.prevCfg \in Opt(Configs) /\ old.prevPlan \in Opt(Plans)
      /\ old.version \in Opt(Versions)
  BY DEF PendingSession, Opt
<1>2. PICK back \in StopAndRestore(NotPending(s), old.prevCfg, old.prevPlan) :
        t \in IF ~back.ok THEN After(Stop(Discard(back.s)))
              ELSE IF old.prevCfg = None THEN {Discard(back.s)}
              ELSE UNION {IF re.ok THEN {re.s} ELSE After(Stop(re.s)) :
                            re \in Restart(Discard(back.s), old.version)}
  BY DEF RollbackPending
<1>3. Sound(NotPending(s))
  BY NotPendingSound
<1>4. Sound(back.s)
  BY <1>1, <1>3, StopAndRestoreSound
<1> DEFINE d == Discard(back.s)
<1>5. Sound(d)
  BY <1>4, DiscardSound
<1> HIDE DEF d
<1>6. \/ t \in After(Stop(d))
      \/ t = d
      \/ \E re \in Restart(d, old.version) : t = re.s \/ t \in After(Stop(re.s))
  BY <1>2 DEF d
<1>7. CASE \E re \in Restart(d, old.version) : t = re.s \/ t \in After(Stop(re.s))
  <2>1. PICK re \in Restart(d, old.version) : t = re.s \/ t \in After(Stop(re.s))
    BY <1>7
  <2>2. Sound(re.s)
    BY <1>1, <1>5, RestartSound
  <2> QED BY <2>1, <2>2, AfterStopSound
<1> QED BY <1>5, <1>6, <1>7, AfterStopSound

\* The commit of a pending session only drops the staged files.
LEMMA CommitSound ==
  ASSUME NEW s, Sound(s)
  PROVE  Sound(Commit(s))
<1> DEFINE t == Discard(NotPending(s))
           pair == <<s.files.cfg, s.files.plan>>
           l == [t.log EXCEPT !.torn = FALSE, !.committed = pair]
<1>1. Sound(t)
  BY NotPendingSound, DiscardSound
<1>2. pair \in Pair
  BY Parts DEF Pair, Files
<1>3. Commit(s) = [t EXCEPT !.log = l]
  BY DEF Commit
<1> HIDE DEF t, pair
<1>4. l \in History
  BY <1>1, <1>2, Parts DEF History
<1> HIDE DEF l
<1> QED BY <1>1, <1>3, <1>4, LogSound

\* progress_pending_session: a commit, a rollback, or another wait.
LEMMA ProgressSound ==
  ASSUME NEW s, Sound(s), NEW t \in Progress(s)
  PROVE  Sound(t)
<1>1. CASE t = s
  BY <1>1
<1>2. CASE t # s
  <2>1. s.pending # None
    BY <1>2 DEF Progress
  <2>2. s.pending \in PendingSession
    BY <2>1, Parts DEF Opt
  <2>3. PICK up \in Probes(s) :
          t \in IF up /\ FilesMatch(s)
                THEN {IF w.ok THEN Commit(w.s) ELSE w.s : w \in WriteReadiness(s)}
                ELSE IF GivenUp(s) THEN RollbackPending(s, s.pending) ELSE {s}
    BY <2>1 DEF Progress
  <2>4. \/ \E w \in WriteReadiness(s) : t = IF w.ok THEN Commit(w.s) ELSE w.s
        \/ t \in RollbackPending(s, s.pending)
    BY <1>2, <2>3
  <2>5. CASE \E w \in WriteReadiness(s) : t = IF w.ok THEN Commit(w.s) ELSE w.s
    <3>1. PICK w \in WriteReadiness(s) : t = IF w.ok THEN Commit(w.s) ELSE w.s
      BY <2>5
    <3> QED BY <3>1, WriteReadinessSound, CommitSound
  <2> QED BY <2>2, <2>4, <2>5, RollbackPendingSound
<1> QED BY <1>1, <1>2

\* An answer to the host changes no state of the agent.
LEMMA TellSound ==
  ASSUME NEW s, Sound(s), NEW pair \in Opt(Pair)
  PROVE  Sound(Tell(s, pair))
<1> DEFINE l == [s.log EXCEPT !.told = pair]
<1>1. l \in History
  BY Parts DEF History
<1>2. Tell(s, pair) = [s EXCEPT !.log = l]
  BY DEF Tell
<1> HIDE DEF l
<1> QED BY <1>1, <1>2, LogSound

\* Neither does a refusal.
LEMMA RefusedSound ==
  ASSUME NEW s, Sound(s)
  PROVE  Sound(Refused(s))
<1>1. None \in Opt(Pair)
  BY DEF Opt
<1> QED BY <1>1, TellSound DEF Refused

\* The report of a status request, which may publish readiness.
LEMMA ReportSound ==
  ASSUME NEW s, Sound(s), NEW t \in Report(s)
  PROVE  Sound(t)
<1> DEFINE pair == <<s.files.cfg, s.files.plan>>
<1>1. pair \in Opt(Pair)
  BY Parts DEF Pair, Files, Opt
<1> HIDE DEF pair
<1>2. \/ t = Refused(s)
      \/ \E w \in (IF s.run.ready THEN {Done(s)} ELSE WriteReadiness(s)) :
           t = Tell(w.s, pair) \/ t = Refused(w.s)
  BY DEF Report, pair
<1>3. CASE t = Refused(s)
  BY <1>3, RefusedSound
<1>4. CASE \E w \in (IF s.run.ready THEN {Done(s)} ELSE WriteReadiness(s)) :
             t = Tell(w.s, pair) \/ t = Refused(w.s)
  <2>1. PICK w \in (IF s.run.ready THEN {Done(s)} ELSE WriteReadiness(s)) :
          t = Tell(w.s, pair) \/ t = Refused(w.s)
    BY <1>4
  <2>2. Sound(w.s)
    BY OutcomeOf, WriteReadinessSound
  <2> QED BY <1>1, <2>1, <2>2, TellSound, RefusedSound
<1> QED BY <1>2, <1>3, <1>4

\* The whole status handler: refresh, refresh_mitm, progress, refresh, report.
LEMMA StatusSound ==
  ASSUME NEW s, Sound(s), NEW t \in StatusResponse(s)
  PROVE  Sound(t)
<1>1. PICK w \in Refresh(s) :
        t \in UNION {UNION {UNION {Report(z) : z \in Refresh(y)} : y \in Progress(x)} :
                       x \in RefreshMitm(w)}
  BY DEF StatusResponse
<1>2. PICK x \in RefreshMitm(w) :
        t \in UNION {UNION {Report(z) : z \in Refresh(y)} : y \in Progress(x)}
  BY <1>1
<1>3. PICK y \in Progress(x) : t \in UNION {Report(z) : z \in Refresh(y)}
  BY <1>2
<1>4. PICK z \in Refresh(y) : t \in Report(z)
  BY <1>3
<1>5. Sound(w)
  BY RefreshSound
<1>6. Sound(x)
  BY <1>5, RefreshMitmSound
<1>7. Sound(y)
  BY <1>6, ProgressSound
<1>8. Sound(z)
  BY <1>7, RefreshSound
<1> QED BY <1>4, <1>8, ReportSound

\* stage_config never touches the configuration in force.
LEMMA StageConfigSound ==
  ASSUME NEW s, Sound(s), NEW c \in Configs, NEW t \in StageConfig(s, c)
  PROVE  Sound(t)
<1> DEFINE f1 == [s.files EXCEPT !.cfgIn = c, !.cfgStaged = c]
           f2 == [s.files EXCEPT !.cfgIn = c]
           f3 == [s.files EXCEPT !.cfgIn = Partial]
           f4 == [s.files EXCEPT !.cfgIn = None]
<1>1. t \in {[s EXCEPT !.files = f1], [s EXCEPT !.files = f2], [s EXCEPT !.files = f3],
             [s EXCEPT !.files = f4]}
  BY MayOf DEF StageConfig
<1>2. /\ c \in Opt(Configs) /\ c \in Opt(Configs \cup {Partial})
      /\ None \in Opt(Configs \cup {Partial}) /\ Partial \in Opt(Configs \cup {Partial})
  BY DEF Opt
<1>3. /\ f1 \in Files /\ f2 \in Files /\ f3 \in Files /\ f4 \in Files
      /\ f1.cfg = s.files.cfg /\ f2.cfg = s.files.cfg /\ f3.cfg = s.files.cfg
      /\ f4.cfg = s.files.cfg
      /\ f1.plan = s.files.plan /\ f2.plan = s.files.plan /\ f3.plan = s.files.plan
      /\ f4.plan = s.files.plan
  BY <1>2, Parts DEF Files
<1> HIDE DEF f1, f2, f3, f4
<1> QED BY <1>1, <1>3, FilesSound

\* stage_module_plan never touches the plan in force.
LEMMA StageModulePlanSound ==
  ASSUME NEW s, Sound(s), NEW p \in Plans, NEW t \in StageModulePlan(s, p)
  PROVE  Sound(t)
<1> DEFINE f1 == [s.files EXCEPT !.planIn = p, !.planStaged = p]
           f2 == [s.files EXCEPT !.planIn = p]
           f3 == [s.files EXCEPT !.planIn = Partial]
           f4 == [s.files EXCEPT !.planIn = None]
<1>1. t \in {[s EXCEPT !.files = f1], [s EXCEPT !.files = f2], [s EXCEPT !.files = f3],
             [s EXCEPT !.files = f4]}
  BY MayOf DEF StageModulePlan
<1>2. /\ p \in Opt(Plans) /\ p \in Opt(Plans \cup {Partial})
      /\ None \in Opt(Plans \cup {Partial}) /\ Partial \in Opt(Plans \cup {Partial})
  BY DEF Opt
<1>3. /\ f1 \in Files /\ f2 \in Files /\ f3 \in Files /\ f4 \in Files
      /\ f1.cfg = s.files.cfg /\ f2.cfg = s.files.cfg /\ f3.cfg = s.files.cfg
      /\ f4.cfg = s.files.cfg
      /\ f1.plan = s.files.plan /\ f2.plan = s.files.plan /\ f3.plan = s.files.plan
      /\ f4.plan = s.files.plan
  BY <1>2, Parts DEF Files
<1> HIDE DEF f1, f2, f3, f4
<1> QED BY <1>1, <1>3, FilesSound

\* The candidate: the files are rewritten while the agent is quiet, before anything
\* is started from them.
LEMMA StartCandidateSound ==
  ASSUME NEW s, Sound(s), Quiet(s), s.files.cfgIn \in Configs, s.files.planIn \in Plans,
         s.slots.active \in Versions, NEW o \in StartCandidate(s)
  PROVE  Sound(o.s)
<1> DEFINE f1 == [s.files EXCEPT !.cfg = s.files.cfgIn]
           t1 == [s EXCEPT !.files.cfg = s.files.cfgIn]
<1>1. PICK w \in Store(s, t1) :
        o \in IF ~w.ok THEN {w}
              ELSE UNION {IF ~x.ok THEN {x} ELSE Start(x.s, s.slots.active) :
                            x \in Store(w.s, [w.s EXCEPT !.files.plan = s.files.planIn])}
  BY DEF StartCandidate
<1>2. s.files \in Files /\ s.files.cfgIn \in Opt(Configs) /\ s.files.planIn \in Opt(Plans)
  BY Parts DEF Opt
<1>3. f1 \in Files
  BY <1>2 DEF Files
<1>4. t1 = [s EXCEPT !.files = f1]
  OBVIOUS
<1> HIDE DEF f1
<1>5. Sound(t1) /\ Quiet(t1)
  BY <1>3, <1>4, FilesSound
<1> HIDE DEF t1
<1>6. Sound(w.s) /\ Quiet(w.s)
  BY <1>5, OutcomeOf, MayOf DEF Store
<1> DEFINE f2 == [w.s.files EXCEPT !.plan = s.files.planIn]
           t2 == [w.s EXCEPT !.files.plan = s.files.planIn]
<1>7. \/ o = w
      \/ \E x \in Store(w.s, t2) : o = x \/ o \in Start(x.s, s.slots.active)
  BY <1>1
<1>8. f2 \in Files
  BY <1>2, <1>6, Parts DEF Files
<1>9. t2 = [w.s EXCEPT !.files = f2]
  OBVIOUS
<1> HIDE DEF f2
<1>10. Sound(t2)
  BY <1>6, <1>8, <1>9, FilesSound
<1> HIDE DEF t2
<1>11. CASE \E x \in Store(w.s, t2) : o = x \/ o \in Start(x.s, s.slots.active)
  <2>1. PICK x \in Store(w.s, t2) : o = x \/ o \in Start(x.s, s.slots.active)
    BY <1>11
  <2>2. Sound(x.s)
    BY <1>6, <1>10, OutcomeOf, MayOf DEF Store
  <2> QED BY <2>1, <2>2, StartSound
<1> QED BY <1>6, <1>7, <1>11

\* The way back of activate_session when its candidate did not start.
LEMMA UndoSound ==
  ASSUME NEW s, Sound(s), NEW old, Sound(old), NEW t \in Undo(s, old)
  PROVE  Sound(t)
<1>1. /\ old.files.cfg \in Opt(Configs) /\ old.files.plan \in Opt(Plans)
      /\ old.slots.active \in Opt(Versions)
  BY Parts DEF Files, Slots
<1>2. PICK back \in StopAndRestore(s, old.files.cfg, old.files.plan) :
        t \in IF ~back.ok THEN {back.s}
              ELSE UNION {UNION {IF re.ok /\ up /\ re.s.run.ready THEN {re.s}
                                 ELSE After(Stop(re.s)) : up \in Probes(re.s)} :
                            re \in Restart(back.s, old.slots.active)}
  BY DEF Undo
<1>3. Sound(back.s)
  BY <1>1, StopAndRestoreSound
<1>4. \/ t = back.s
      \/ \E re \in Restart(back.s, old.slots.active) : t = re.s \/ t \in After(Stop(re.s))
  BY <1>2
<1>5. CASE \E re \in Restart(back.s, old.slots.active) : t = re.s \/ t \in After(Stop(re.s))
  <2>1. PICK re \in Restart(back.s, old.slots.active) : t = re.s \/ t \in After(Stop(re.s))
    BY <1>5
  <2>2. Sound(re.s)
    BY <1>1, <1>3, RestartSound
  <2> QED BY <2>1, <2>2, AfterStopSound
<1> QED BY <1>3, <1>4, <1>5

\* A candidate that started becomes the pending session.
LEMMA BeginSound ==
  ASSUME NEW s, Sound(s), NEW old, Sound(old), old.slots.active \in Versions,
         NEW c \in Configs, NEW p \in Plans
  PROVE  Sound(Begin(s, old, c, p))
<1> DEFINE q == [cfg |-> c, plan |-> p, prevCfg |-> old.files.cfg,
                 prevPlan |-> old.files.plan, version |-> old.slots.active,
                 late |-> FALSE]
<1>1. q \in PendingSession
  BY Parts DEF PendingSession, Files
<1>2. q \in Opt(PendingSession)
  BY <1>1 DEF Opt
<1>3. Begin(s, old, c, p) = [s EXCEPT !.pending = q]
  BY DEF Begin
<1> HIDE DEF q
<1> QED BY <1>2, <1>3, PendingSound

\* The answer to activate_session.
LEMMA AnswerSound ==
  ASSUME NEW s, Sound(s), NEW c \in Configs, NEW p \in Plans, NEW t \in Answer(s, c, p)
  PROVE  Sound(t)
<1>1. <<c, p>> \in Opt(Pair)
  BY DEF Pair, Opt
<1>2. t = Tell(s, <<c, p>>) \/ t = Refused(s)
  BY DEF Answer
<1> QED BY <1>1, <1>2, TellSound, RefusedSound

\* The whole activate_session handler.
LEMMA ActivateSound ==
  ASSUME NEW s, Sound(s), NEW c \in Configs, NEW p \in Plans,
         NEW t \in ActivateSession(s, c, p)
  PROVE  Sound(t)
<1>1. <<c, p>> \in Opt(Pair)
  BY DEF Pair, Opt
<1>2. \/ t = Tell(s, <<c, p>>)
      \/ t = Refused(s)
      \/ Activatable(s, c, p) /\ t \in SwitchSession(s, c, p)
  BY MayOf DEF ActivateSession
<1>3. CASE Activatable(s, c, p) /\ t \in SwitchSession(s, c, p)
  <2>1. /\ s.files.cfgIn \in Configs /\ s.files.planIn \in Plans
        /\ s.slots.active \in Versions
    BY <1>3, Parts DEF Activatable, Slots, Opt
  <2>2. PICK stop \in Stop(s) :
          t \in IF ~stop.ok THEN {Refused(stop.s)}
                ELSE UNION {IF u.ok
                            THEN UNION {Answer(z, c, p) :
                                          z \in Progress(Begin(u.s, s, c, p))}
                            ELSE {Refused(z) : z \in Undo(u.s, s)} :
                              u \in StartCandidate(stop.s)}
    BY <1>3 DEF SwitchSession
  <2>3. /\ Sound(stop.s) /\ Quiet(stop.s)
        /\ stop.s.files = s.files /\ stop.s.slots = s.slots
    BY StopSound
  <2>4. CASE t = Refused(stop.s)
    BY <2>3, <2>4, RefusedSound
  <2>5. CASE t # Refused(stop.s)
    <3>1. PICK u \in StartCandidate(stop.s) :
            t \in IF u.ok
                  THEN UNION {Answer(z, c, p) : z \in Progress(Begin(u.s, s, c, p))}
                  ELSE {Refused(z) : z \in Undo(u.s, s)}
      BY <2>2, <2>5
    <3>2. Sound(u.s)
      BY <2>1, <2>3, StartCandidateSound
    <3>3. CASE u.ok
      <4> DEFINE b == Begin(u.s, s, c, p)
      <4>1. PICK z \in Progress(b) : t \in Answer(z, c, p)
        BY <3>1, <3>3
      <4>2. Sound(b)
        BY <2>1, <3>2, BeginSound
      <4> HIDE DEF b
      <4> QED BY <4>1, <4>2, ProgressSound, AnswerSound
    <3>4. CASE ~u.ok
      <4>1. PICK z \in Undo(u.s, s) : t = Refused(z)
        BY <3>1, <3>4
      <4> QED BY <3>2, <4>1, UndoSound, RefusedSound
    <3> QED BY <3>3, <3>4
  <2> QED BY <2>4, <2>5
<1> QED BY <1>1, <1>2, <1>3, TellSound, RefusedSound

\* abort_pending_session_for_stop.
LEMMA AbortForStopSound ==
  ASSUME NEW s, Sound(s), NEW o \in AbortForStop(s)
  PROVE  Sound(o.s)
<1>1. CASE s.pending = None
  BY <1>1, StopSound DEF AbortForStop
<1>2. CASE s.pending # None
  <2> DEFINE c == s.pending.prevCfg
             p == s.pending.prevPlan
  <2>1. c \in Opt(Configs) /\ p \in Opt(Plans)
    BY <1>2, Parts DEF PendingSession, Opt
  <2>2. PICK back \in StopAndRestore(NotPending(s), c, p) :
          o \in IF back.ok THEN {Done(Discard(back.s))} ELSE StopAndFail(Discard(back.s))
    BY <1>2 DEF AbortForStop
  <2> HIDE DEF c, p
  <2>3. Sound(NotPending(s))
    BY NotPendingSound
  <2>4. Sound(back.s)
    BY <2>1, <2>3, StopAndRestoreSound
  <2>5. Sound(Discard(back.s))
    BY <2>4, DiscardSound
  <2> QED BY <2>2, <2>5, StopAndFailSound, OutcomeOf
<1> QED BY <1>1, <1>2

\* Losing the network changes no child and no file.
LEMMA DisconnectedSound ==
  ASSUME NEW s, Sound(s)
  PROVE  Sound(Disconnected(s))
<1> DEFINE t == Disconnected(s)
<1>1. t \in State /\ t.run = s.run /\ t.files = s.files
  BY Parts DEF State, Disconnected
<1> HIDE DEF t
<1> QED BY <1>1, SameRun DEF t

\* The whole stop_runtime handler.
LEMMA StopGuestRuntimeSound ==
  ASSUME NEW s, Sound(s), NEW t \in StopGuestRuntime(s)
  PROVE  Sound(t)
<1>1. PICK a \in AbortForStop(s) :
        t \in {IF a.ok /\ n.ok THEN [Refused(n.s) EXCEPT !.log.stopped = TRUE]
               ELSE Refused(n.s) : n \in StopNetworkForwarding(a.s)}
  BY DEF StopGuestRuntime
<1>2. PICK n \in StopNetworkForwarding(a.s) :
        t = IF a.ok /\ n.ok THEN [Refused(n.s) EXCEPT !.log.stopped = TRUE]
            ELSE Refused(n.s)
  BY <1>1
<1>3. Sound(a.s)
  BY AbortForStopSound
<1>4. Sound(n.s)
  BY <1>3, DisconnectedSound, OutcomeOf, MayOf DEF StopNetworkForwarding
<1> DEFINE r == Refused(n.s)
           l == [r.log EXCEPT !.stopped = TRUE]
<1>5. Sound(r)
  BY <1>4, RefusedSound
<1>6. t = r \/ t = [r EXCEPT !.log = l]
  BY <1>2
<1> HIDE DEF r
<1>7. l \in History
  BY <1>5, Parts DEF History
<1> HIDE DEF l
<1> QED BY <1>5, <1>6, <1>7, LogSound

\* stage_upgrade changes a slot and no child.
LEMMA StageUpgradeSound ==
  ASSUME NEW s, Sound(s), NEW v \in Versions, NEW b \in Binaries,
         NEW t \in StageUpgrade(s, v, b)
  PROVE  Sound(t)
<1> DEFINE bin == [s.slots.bin EXCEPT ![v] = b]
           sl1 == [s.slots EXCEPT !.bin = bin, !.staged = <<v, b>>]
           sl2 == [s.slots EXCEPT !.bin = bin]
<1>1. bin \in [Versions -> Opt(Binaries)]
  BY Parts DEF Slots, Opt
<1>2. t = [s EXCEPT !.slots = sl1] \/ t = [s EXCEPT !.slots = sl2]
  BY MayOf DEF StageUpgrade
<1> HIDE DEF bin
<1>3. <<v, b>> \in Opt(Versions \X Binaries)
  BY DEF Opt
<1>4. sl1 \in Slots /\ sl2 \in Slots
  BY <1>1, <1>3, Parts DEF Slots
<1> HIDE DEF sl1, sl2
<1> QED BY <1>2, <1>4, SlotsSound

\* The way back of activate_upgrade and rollback.
LEMMA RecoverSound ==
  ASSUME NEW s, Sound(s), NEW t \in Recover(s)
  PROVE  Sound(t)
<1>1. PICK stop \in Stop(s) :
        t \in IF stop.ok THEN After(Restart(stop.s, s.slots.active)) ELSE {stop.s}
  BY DEF Recover
<1>2. Sound(stop.s) /\ s.slots.active \in Opt(Versions)
  BY StopSound, Parts DEF Slots
<1>3. t = stop.s \/ \E o \in Restart(stop.s, s.slots.active) : t = o.s
  BY <1>1 DEF After
<1> QED BY <1>2, <1>3, RestartSound

\* The version pointers, with a write that fails between them.
LEMMA WritePointersSound ==
  ASSUME NEW s, Sound(s), NEW current \in Opt(Versions), NEW v \in Versions,
         NEW o \in WritePointers(s, current, v)
  PROVE  Sound(o.s)
<1> DEFINE sl1 == [s.slots EXCEPT !.previous = current, !.active = v]
           sl2 == [s.slots EXCEPT !.previous = current]
<1>1. o.s = s \/ o.s = [s EXCEPT !.slots = sl1] \/ o.s = [s EXCEPT !.slots = sl2]
  BY OutcomeOf, MayOf DEF WritePointers
<1>2. sl1 \in Slots /\ sl2 \in Slots
  BY Parts DEF Slots, Opt
<1> HIDE DEF sl1, sl2
<1> QED BY <1>1, <1>2, SlotsSound

\* The whole exchange of one version for another.
LEMMA SwitchVersionSound ==
  ASSUME NEW s, Sound(s), NEW v \in Versions, NEW t \in SwitchVersion(s, v)
  PROVE  Sound(t)
<1>1. PICK stop \in Stop(s) :
        t \in IF ~stop.ok THEN {stop.s}
              ELSE UNION {IF ~u.ok THEN Recover(u.s)
                          ELSE UNION {IF w.ok THEN {w.s} ELSE Recover(w.s) :
                                        w \in WritePointers(u.s, s.slots.active, v)} :
                            u \in Start(stop.s, v)}
  BY DEF SwitchVersion
<1>2. Sound(stop.s) /\ s.slots.active \in Opt(Versions)
  BY StopSound, Parts DEF Slots
<1>3. CASE t # stop.s
  <2>1. PICK u \in Start(stop.s, v) :
          t \in IF ~u.ok THEN Recover(u.s)
                ELSE UNION {IF w.ok THEN {w.s} ELSE Recover(w.s) :
                              w \in WritePointers(u.s, s.slots.active, v)}
    BY <1>1, <1>3
  <2>2. Sound(u.s)
    BY <1>2, StartSound
  <2>3. \/ t \in Recover(u.s)
        \/ \E w \in WritePointers(u.s, s.slots.active, v) : t = w.s \/ t \in Recover(w.s)
    BY <2>1
  <2>4. CASE \E w \in WritePointers(u.s, s.slots.active, v) : t = w.s \/ t \in Recover(w.s)
    <3>1. PICK w \in WritePointers(u.s, s.slots.active, v) : t = w.s \/ t \in Recover(w.s)
      BY <2>4
    <3>2. Sound(w.s)
      BY <1>2, <2>2, WritePointersSound
    <3> QED BY <3>1, <3>2, RecoverSound
  <2> QED BY <2>2, <2>3, <2>4, RecoverSound
<1> QED BY <1>2, <1>3

-------------------------------------------------------------------------------
(* The invariant.                                                          *)

\* The agent boots without children, session or readiness file.
LEMMA BootedSound == Sound(Booted)
<1>1. Booted.run \in Runtime
  BY DEF Booted, Runtime, Opt
<1>2. Booted.files \in Files
  BY DEF Booted, Files, Opt
<1>3. Booted.slots \in Slots
  BY ConstantsAssumption DEF Booted, Slots, Opt
<1>4. Booted.log \in History
  BY DEF Booted, History, Pair, Opt
<1>5. Booted.pending \in Opt(PendingSession) /\ Booted.network \in BOOLEAN
  BY DEF Booted, Opt
<1>6. Booted \in State
  BY <1>1, <1>2, <1>3, <1>4, <1>5 DEF Booted, State
<1>7. /\ Booted.run.sb = None /\ ~Booted.run.mitm /\ ~Booted.run.ready
      /\ ~Booted.run.stray /\ ~Booted.run.sbUp /\ ~Booted.run.mitmUp
  BY DEF Booted
<1>8. Owns(Booted) /\ Serves(Booted)
  BY <1>7 DEF Owns, Serves, Current
<1> QED BY <1>6, <1>8 DEF Sound

\* So does the initial state.
LEMMA InitSound == Init => Sound(agent)
BY BootedSound DEF Init

\* Every request handler keeps the invariant.
LEMMA RequestSound ==
  ASSUME Sound(agent), Requests
  PROVE  Sound(agent')
<1>1. CASE Status
  BY <1>1, StatusSound DEF Status
<1>2. CASE SendConfig
  BY <1>2, StageConfigSound DEF SendConfig
<1>3. CASE SendPlan
  BY <1>3, StageModulePlanSound DEF SendPlan
<1>4. CASE Activate
  BY <1>4, ActivateSound DEF Activate
<1>5. CASE StopRuntime
  BY <1>5, StopGuestRuntimeSound DEF StopRuntime
<1>6. CASE SendBinary
  BY <1>6, StageUpgradeSound DEF SendBinary
<1>7. CASE Upgrade
  <2>1. PICK v \in Versions, b \in Binaries : agent' \in ActivateUpgrade(agent, v, b)
    BY <1>7 DEF Upgrade
  <2>2. \/ agent' = Refused(agent)
        \/ \E z \in SwitchVersion(agent, v) : agent' = Refused(z)
    BY <2>1 DEF ActivateUpgrade
  <2> QED BY <2>2, RefusedSound, SwitchVersionSound
<1>8. CASE RollbackVersion
  <2>1. \/ agent' = Refused(agent)
        \/ /\ agent.slots.previous # None
           /\ \E z \in SwitchVersion(agent, agent.slots.previous) : agent' = Refused(z)
    BY <1>8 DEF RollbackVersion, Rollback
  <2>2. agent.slots.previous \in Opt(Versions)
    BY Parts DEF Slots
  <2> QED BY <2>1, <2>2, RefusedSound, SwitchVersionSound DEF Opt
<1> QED BY <1>1, <1>2, <1>3, <1>4, <1>5, <1>6, <1>7, <1>8 DEF Requests

\* Nothing that happens to the children between two requests breaks it.
LEMMA EnvironmentSound ==
  ASSUME Sound(agent), Environment
  PROVE  Sound(agent')
<1>1. CASE ServicesAnswer
  BY <1>1, ApiSound DEF ServicesAnswer
<1>2. CASE ProbeFlaps
  BY <1>2, ApiSound DEF ProbeFlaps
<1>3. CASE SingBoxExits
  <2> DEFINE r == [agent.run EXCEPT !.sbUp = FALSE, !.api = FALSE]
  <2>1. agent.run \in Runtime /\ agent \in State
    BY SoundRun
  <2>2. /\ r \in Runtime /\ ~r.sbUp
        /\ r.stray = agent.run.stray /\ r.sb = agent.run.sb /\ r.fault = agent.run.fault
        /\ r.mitm = agent.run.mitm /\ r.mitmUp = agent.run.mitmUp
        /\ r.ready = agent.run.ready /\ r.cfg = agent.run.cfg /\ r.plan = agent.run.plan
    BY <2>1 DEF Runtime
  <2>3. agent' = [agent EXCEPT !.run = r]
    BY <1>3 DEF SingBoxExits
  <2> HIDE DEF r
  <2> QED BY <2>1, <2>2, <2>3, SoundRun, RunSound
<1>4. CASE MitmExits
  <2> DEFINE r == [agent.run EXCEPT !.mitmUp = FALSE, !.api = FALSE]
  <2>1. agent.run \in Runtime /\ agent \in State
    BY SoundRun
  <2>2. /\ r \in Runtime /\ ~r.mitmUp
        /\ r.stray = agent.run.stray /\ r.sb = agent.run.sb /\ r.fault = agent.run.fault
        /\ r.mitm = agent.run.mitm /\ r.sbUp = agent.run.sbUp
        /\ r.ready = agent.run.ready /\ r.cfg = agent.run.cfg /\ r.plan = agent.run.plan
    BY <2>1 DEF Runtime
  <2>3. agent' = [agent EXCEPT !.run = r]
    BY <1>4 DEF MitmExits
  <2> HIDE DEF r
  <2> QED BY <2>1, <2>2, <2>3, SoundRun, RunSound
<1>5. CASE DeadlinePasses
  <2> DEFINE q == [agent.pending EXCEPT !.late = TRUE]
  <2>1. agent.pending \in PendingSession
    BY <1>5, Parts DEF DeadlinePasses, Opt
  <2>2. q \in Opt(PendingSession)
    BY <2>1 DEF PendingSession, Opt
  <2>3. agent' = [agent EXCEPT !.pending = q]
    BY <1>5 DEF DeadlinePasses
  <2> HIDE DEF q
  <2> QED BY <2>2, <2>3, PendingSound
<1>6. CASE BackoffElapses
  BY <1>6, BackoffSound DEF BackoffElapses
<1> QED BY <1>1, <1>2, <1>3, <1>4, <1>5, <1>6 DEF Environment

\* The inductive invariant.
AgentSound == Sound(agent)

\* In every reachable state, for every set of versions, configurations, plans and
\* faults, the agent owns what runs and a published data plane serves the files.
THEOREM Soundness == Spec => []AgentSound
<1>1. Init => AgentSound
  BY InitSound DEF AgentSound
<1>2. AgentSound /\ [Next]_agent => AgentSound'
  <2> SUFFICES ASSUME AgentSound, [Next]_agent PROVE AgentSound'
    OBVIOUS
  <2>1. CASE Requests
    BY <2>1, RequestSound DEF AgentSound
  <2>2. CASE Environment
    BY <2>2, EnvironmentSound DEF AgentSound
  <2>3. CASE UNCHANGED agent
    BY <2>3 DEF AgentSound
  <2> QED BY <2>1, <2>2, <2>3 DEF Next
<1> QED BY <1>1, <1>2, PTL DEF Spec

\* Every field of the agent has its type, whatever the handlers do.
THEOREM TypeCorrect == Spec => []TypeOK
<1>1. AgentSound => TypeOK
  BY DEF AgentSound, Sound, TypeOK
<1> QED BY <1>1, Soundness, PTL

\* start_version, start_mitm and refresh_mitm never start over a child that could not
\* be reaped, and no handler forgets one: no data-plane process runs without an owner.
THEOREM NoStrayProcesses == Spec => []NoStrayProcess
<1>1. AgentSound => NoStrayProcess
  BY DEF AgentSound, Sound, Owns, NoStrayProcess
<1> QED BY <1>1, Soundness, PTL

\* No handler rewrites the session files under a data plane that is published as ready:
\* the readiness file implies that the owned processes were started from them.
THEOREM ReadyServes == Spec => []ReadyServesFiles
<1>1. AgentSound => ReadyServesFiles
  BY DEF AgentSound, Sound, Serves, Current, ReadyServesFiles
<1> QED BY <1>1, Soundness, PTL
===============================================================================
