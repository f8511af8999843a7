-------------------------- MODULE GuestAgentPromises --------------------------
(***************************************************************************)
(* What the guest agent promises to the host, for every value of the       *)
(* constants: an explicit stop is final, a session changes both files or   *)
(* neither, what it reports as ready is committed, the version that runs   *)
(* is the active one, the rollback slot can be used, and the agent         *)
(* implements SessionStore.                                                *)
(*                                                                         *)
(* As in GuestAgentProofs there is one lemma per operator.  The operators  *)
(* that start and stop children leave everything else alone; the handlers  *)
(* are classified by what they do to the session: it stays, begins, is     *)
(* committed, returns or is torn.  Each promise is then an invariant that  *)
(* every such move keeps.                                                  *)
(***************************************************************************)
EXTENDS GuestAgentProofs

-------------------------------------------------------------------------------
(* Children: what starting and stopping them leaves alone.                 *)

\* Only the children changed.
OnlyRun(s, t) ==
  /\ t.files = s.files /\ t.pending = s.pending /\ t.slots = s.slots
  /\ t.network = s.network /\ t.log = s.log

\* No data plane, and none can be started: the network is gone.
Dark(s) == ~s.network /\ s.run.sb = None /\ ~s.run.mitm /\ ~s.run.ready

\* A sing-box that runs without a fault is the one of version v.
RunsIn(s, v) == s.run.sb # None /\ ~s.run.fault => s.run.sb = v

\* Replacing the handles leaves everything else alone.
LEMMA RunOnly ==
  ASSUME NEW s \in State, NEW r
  PROVE  OnlyRun(s, [s EXCEPT !.run = r]) /\ [s EXCEPT !.run = r].run = r
BY DEF State, OnlyRun

\* What holds of one change to the children holds of two.
LEMMA RunTwice ==
  ASSUME NEW s, NEW t, NEW u, OnlyRun(s, t), OnlyRun(t, u)
  PROVE  OnlyRun(s, u)
BY DEF OnlyRun

\* stop succeeds where nothing is owned, and a stop that succeeds leaves nothing.
LEMMA StopEnds ==
  ASSUME NEW s, Sound(s), NEW o \in Stop(s)
  PROVE  /\ OnlyRun(s, o.s)
         /\ Dark(s) => Dark(o.s)
         /\ o.ok => o.s.run.sb = None /\ ~o.s.run.mitm /\ ~o.s.run.ready
         /\ \A v : RunsIn(o.s, v)
<1>1. /\ Sound(o.s) /\ Quiet(o.s)
      /\ o.s.files = s.files /\ o.s.pending = s.pending /\ o.s.slots = s.slots
      /\ o.s.network = s.network /\ o.s.log = s.log
  BY StopSound
<1>2. PICK m \in Reap(s.run.mitm, s.run.mitmUp), b \in Reap(s.run.sb # None, s.run.sbUp) :
        o = StopOutcome(s, m, b)
  BY DEF Stop
<1>3. s.run \in Runtime /\ s.run.mitm \in BOOLEAN /\ s.run.mitmUp \in BOOLEAN
      /\ s.run.sbUp \in BOOLEAN
  BY SoundRun DEF Runtime
<1>4. (m.kept => s.run.mitm) /\ (b.kept => s.run.sb # None)
  BY <1>3, ReapSound
<1>5. o.ok <=> ~(m.kept \/ b.kept)
  BY <1>2, OutcomeOf DEF StopOutcome
<1>6. ASSUME o.ok PROVE o.s.run.sb = None /\ ~o.s.run.mitm /\ ~o.s.run.ready
  BY <1>1, <1>6, StopOk DEF Quiet
<1>7. ASSUME Dark(s) PROVE Dark(o.s)
  <2>1. o.ok
    BY <1>4, <1>5, <1>7 DEF Dark
  <2> QED BY <1>1, <1>6, <1>7, <2>1 DEF Dark
<1> QED BY <1>1, <1>6, <1>7 DEF OnlyRun, RunsIn, Quiet

\* write_readiness publishes a data plane that answers, or changes nothing: without
\* the network nothing answers.
LEMMA WriteReadinessOnly ==
  ASSUME NEW s, Sound(s), NEW o \in WriteReadiness(s)
  PROVE  /\ OnlyRun(s, o.s)
         /\ o.s.run.sb = s.run.sb /\ o.s.run.mitm = s.run.mitm
         /\ o.s.run.fault = s.run.fault
         /\ o.ok => o.s.run.ready
         /\ Dark(s) => o.s = s /\ ~o.ok
<1>1. PICK up \in Probes(s) :
        o \in IF ~up THEN {Failed(s)}
              ELSE {Done(Published(s))} \cup May("write", Failed(s))
                                        \cup May("write", Failed(Published(s)))
  BY DEF WriteReadiness
<1>2. o = Failed(s) \/ (up /\ (o = Done(Published(s)) \/ o = Failed(Published(s))))
  BY <1>1, MayOf
<1>3. up => s.network
  BY <1>1 DEF Probes, Answering
<1> DEFINE r == [s.run EXCEPT !.ready = TRUE]
<1>4. s \in State /\ s.run \in Runtime
  BY SoundRun
<1>5. /\ r.sb = s.run.sb /\ r.mitm = s.run.mitm /\ r.fault = s.run.fault /\ r.ready
  BY <1>4 DEF Runtime
<1>6. Published(s) = [s EXCEPT !.run = r]
  BY DEF Published
<1> HIDE DEF r
<1>7. OnlyRun(s, Published(s)) /\ Published(s).run = r
  BY <1>4, <1>6, RunOnly
<1>8. CASE o = Failed(s)
  BY <1>8, OutcomeOf DEF OnlyRun
<1>9. CASE up /\ (o = Done(Published(s)) \/ o = Failed(Published(s)))
  BY <1>3, <1>5, <1>7, <1>9, OutcomeOf DEF Dark
<1> QED BY <1>2, <1>8, <1>9

\* remove_readiness changes no other handle.
LEMMA UnpublishedOnly ==
  ASSUME NEW s, Sound(s)
  PROVE  /\ OnlyRun(s, Unpublished(s))
         /\ Unpublished(s).run.sb = s.run.sb /\ Unpublished(s).run.mitm = s.run.mitm
         /\ Unpublished(s).run.fault = s.run.fault /\ ~Unpublished(s).run.ready
<1> DEFINE r == [s.run EXCEPT !.ready = FALSE]
<1>1. Unpublished(s) = [s EXCEPT !.run = r]
  BY DEF Unpublished
<1> HIDE DEF r
<1>2. s \in State
  BY SoundRun
<1>3. OnlyRun(s, Unpublished(s))
  BY <1>1, <1>2, RunOnly
<1> QED BY <1>3, UnpublishedSound

\* Recording a fault changes no other handle.
LEMMA FaultOnly ==
  ASSUME NEW s, Sound(s)
  PROVE  LET t == [s EXCEPT !.run.fault = TRUE] IN
         OnlyRun(s, t) /\ t.run.sb = s.run.sb /\ t.run.fault
<1> DEFINE r == [s.run EXCEPT !.fault = TRUE]
           t == [s EXCEPT !.run.fault = TRUE]
<1>1. s \in State /\ s.run \in Runtime
  BY SoundRun
<1>2. t = [s EXCEPT !.run = r]
  OBVIOUS
<1>3. r.sb = s.run.sb /\ r.fault
  BY <1>1 DEF Runtime
<1> HIDE DEF r, t
<1>4. OnlyRun(s, t) /\ t.run = r
  BY <1>1, <1>2, RunOnly
<1> QED BY <1>3, <1>4 DEF t

\* start_mitm leaves sing-box alone; it succeeds only without a fault, and then the
\* mitmdump the plan needs is owned.
LEMMA StartMitmOnly ==
  ASSUME NEW s, Sound(s), NEW o \in StartMitm(s)
  PROVE  /\ OnlyRun(s, o.s)
         /\ o.s.run.sb = s.run.sb
         /\ o.ok => /\ ~o.s.run.fault
                    /\ NeedsMitm(s.files.plan) => o.s.run.mitm
         /\ s.run.fault => o.s.run.fault
<1> DEFINE r == [s.run EXCEPT !.mitm = TRUE, !.mitmUp = TRUE, !.plan = s.files.plan,
                              !.api = FALSE, !.stray = s.run.stray \/ s.run.mitmUp]
           t == MitmStarted(s)
           f == [t EXCEPT !.run.fault = TRUE]
<1>1. \/ o = Failed(s)
      \/ o = Done(s) /\ (s.run.mitm \/ ~NeedsMitm(s.files.plan)) /\ ~s.run.fault
      \/ ~s.run.fault /\ ~s.run.mitm /\ (o = Done(t) \/ o = Failed(f))
  BY MayOf DEF StartMitm
<1>2. s \in State /\ s.run \in Runtime
  BY SoundRun
<1>3. r.sb = s.run.sb /\ r.fault = s.run.fault /\ r.mitm
  BY <1>2 DEF Runtime
<1>4. t = [s EXCEPT !.run = r]
  BY DEF MitmStarted
<1> HIDE DEF r, t
<1>5. OnlyRun(s, t) /\ t.run = r
  BY <1>2, <1>4, RunOnly
<1>6. CASE o = Failed(s) \/ (o = Done(s) /\ (s.run.mitm \/ ~NeedsMitm(s.files.plan))
                                         /\ ~s.run.fault)
  BY <1>6, OutcomeOf DEF OnlyRun
<1>7. CASE ~s.run.fault /\ ~s.run.mitm /\ o = Done(t)
  BY <1>3, <1>5, <1>7, OutcomeOf
<1>8. CASE ~s.run.fault /\ ~s.run.mitm /\ o = Failed(f)
  <2>1. Sound(t)
    BY <1>8, MitmStartedSound DEF t
  <2>2. OnlyRun(t, f) /\ f.run.sb = t.run.sb /\ f.run.fault
    BY <2>1, FaultOnly
  <2> HIDE DEF f
  <2> QED BY <1>3, <1>5, <1>8, <2>2, RunTwice, OutcomeOf
<1> QED BY <1>1, <1>6, <1>7, <1>8

\* A handler that gives up leaves nothing it may rely on.
LEMMA StopAndFailOnly ==
  ASSUME NEW s, Sound(s), NEW o \in StopAndFail(s)
  PROVE  /\ OnlyRun(s, o.s) /\ ~o.ok
         /\ \A v : RunsIn(o.s, v)
<1>1. PICK stop \in Stop(s) : o = Failed(stop.s)
  BY DEF StopAndFail
<1> QED BY <1>1, StopEnds, OutcomeOf

\* The end of start_version: on success the children are the ones that were started,
\* otherwise they were stopped.
LEMMA PublishOnly ==
  ASSUME NEW s, Sound(s), NEW o \in Publish(s)
  PROVE  /\ OnlyRun(s, o.s)
         /\ o.ok => /\ o.s.run.sb = s.run.sb /\ o.s.run.mitm = s.run.mitm
                    /\ o.s.run.fault = s.run.fault
         /\ ~o.ok => \A v : RunsIn(o.s, v)
<1> DEFINE r == [s.run EXCEPT !.api = TRUE]
           t == [s EXCEPT !.run.api = TRUE]
<1>1. CASE o = Done(Unpublished(s))
  BY <1>1, OutcomeOf, UnpublishedOnly
<1>2. CASE o # Done(Unpublished(s))
  <2>1. PICK w \in WriteReadiness(t) : o \in IF w.ok THEN {w} ELSE StopAndFail(w.s)
    BY <1>2 DEF Publish
  <2>2. s \in State /\ s.run \in Runtime
    BY SoundRun
  <2>3. t = [s EXCEPT !.run = r]
    OBVIOUS
  <2>4. r.sb = s.run.sb /\ r.mitm = s.run.mitm /\ r.fault = s.run.fault
    BY <2>2 DEF Runtime
  <2>5. Sound(t)
    BY ApiSound
  <2> HIDE DEF r, t
  <2>6. OnlyRun(s, t) /\ t.run = r
    BY <2>2, <2>3, RunOnly
  <2>7. /\ Sound(w.s) /\ OnlyRun(t, w.s)
        /\ w.s.run.sb = t.run.sb /\ w.s.run.mitm = t.run.mitm
        /\ w.s.run.fault = t.run.fault
    BY <2>5, WriteReadinessSound, WriteReadinessOnly
  <2>8. OnlyRun(s, w.s)
    BY <2>6, <2>7, RunTwice
  <2>9. CASE w.ok
    BY <2>1, <2>4, <2>6, <2>7, <2>8, <2>9
  <2>10. CASE ~w.ok
    <3>1. /\ OnlyRun(w.s, o.s) /\ ~o.ok
          /\ \A v : RunsIn(o.s, v)
      BY <2>1, <2>7, <2>10, StopAndFailOnly
    <3> QED BY <2>8, <3>1, RunTwice
  <2> QED BY <2>9, <2>10
<1> QED BY <1>1, <1>2

\* start_version changes only the children.  When it succeeds the version asked for
\* runs, without a fault and with the mitmdump the plan needs, so that nothing of the
\* candidate has failed yet; when it fails nothing else runs than before; and without
\* the network it changes nothing.
LEMMA StartOnly ==
  ASSUME NEW s, Sound(s), NEW v \in Versions, NEW o \in Start(s, v)
  PROVE  /\ OnlyRun(s, o.s)
         /\ o.ok => /\ o.s.run.sb = v /\ ~o.s.run.fault
                    /\ NeedsMitm(s.files.plan) => o.s.run.mitm
                    /\ s.slots.bin[v] # None
         /\ Quiet(s) => RunsIn(o.s, v)
         /\ Dark(s) => o.s = s /\ ~o.ok
<1> DEFINE clean == Unpublished(s)
           up == SingBoxStarted(clean, v)
           f == [up EXCEPT !.run.fault = TRUE]
           r == [clean.run EXCEPT !.sb = v, !.sbUp = TRUE, !.cfg = clean.files.cfg,
                                  !.api = FALSE, !.stray = clean.run.stray \/ clean.run.sbUp]
<1>1. \/ o = Failed(s)
      \/ s.network /\ ~Owned(s) /\ o = Failed(clean)
      \/ /\ s.network /\ ~Owned(s) /\ s.slots.bin[v] # None /\ s.files.cfg # None
         /\ \/ o = Failed(f)
            \/ \E m \in StartMitm(up) : o \in IF m.ok THEN Publish(m.s) ELSE StopAndFail(m.s)
  BY MayOf DEF Start
<1>2. /\ OnlyRun(s, clean) /\ Sound(clean) /\ ~clean.run.ready
      /\ clean.run.sb = s.run.sb /\ clean.run.mitm = s.run.mitm
      /\ clean.run.fault = s.run.fault
  BY UnpublishedSound, UnpublishedOnly
<1> HIDE DEF clean
<1>3. CASE o = Failed(s)
  BY <1>3, OutcomeOf DEF OnlyRun, Quiet, RunsIn
<1>4. CASE s.network /\ ~Owned(s) /\ o = Failed(clean)
  BY <1>2, <1>4, OutcomeOf DEF Owned, RunsIn, Dark
<1>5. CASE /\ s.network /\ ~Owned(s) /\ s.slots.bin[v] # None /\ s.files.cfg # None
           /\ \/ o = Failed(f)
              \/ \E m \in StartMitm(up) : o \in IF m.ok THEN Publish(m.s)
                                                        ELSE StopAndFail(m.s)
  <2>1. ~Owned(clean) /\ clean.files.cfg # None
    BY <1>2, <1>5 DEF Owned, OnlyRun
  <2>2. Sound(up)
    BY <1>2, <2>1, SingBoxStartedSound
  <2>3. clean \in State /\ clean.run \in Runtime
    BY <1>2, SoundRun
  <2>4. up = [clean EXCEPT !.run = r]
    BY DEF SingBoxStarted
  <2>5. r.sb = v
    BY <2>3 DEF Runtime
  <2> HIDE DEF r, up
  <2>6. OnlyRun(clean, up) /\ up.run.sb = v
    BY <2>3, <2>4, <2>5, RunOnly
  <2>7. OnlyRun(s, up)
    BY <1>2, <2>6, RunTwice
  <2>8. CASE o = Failed(f)
    <3>1. OnlyRun(up, f) /\ f.run.fault
      BY <2>2, FaultOnly
    <3> HIDE DEF f
    <3>2. OnlyRun(s, f)
      BY <2>7, <3>1, RunTwice
    <3> QED BY <1>5, <2>8, <3>1, <3>2, OutcomeOf DEF RunsIn, Dark
  <2>9. CASE \E m \in StartMitm(up) : o \in IF m.ok THEN Publish(m.s) ELSE StopAndFail(m.s)
    <3>1. PICK m \in StartMitm(up) : o \in IF m.ok THEN Publish(m.s) ELSE StopAndFail(m.s)
      BY <2>9
    <3>2. /\ OnlyRun(up, m.s) /\ m.s.run.sb = v /\ Sound(m.s)
          /\ m.ok => /\ ~m.s.run.fault
                     /\ NeedsMitm(up.files.plan) => m.s.run.mitm
      BY <2>2, <2>6, StartMitmSound, StartMitmOnly
    <3>3. OnlyRun(s, m.s) /\ up.files.plan = s.files.plan
      BY <2>7, <3>2, RunTwice DEF OnlyRun
    <3>4. CASE m.ok
      <4>1. /\ OnlyRun(m.s, o.s)
            /\ o.ok => /\ o.s.run.sb = m.s.run.sb /\ o.s.run.mitm = m.s.run.mitm
                       /\ o.s.run.fault = m.s.run.fault
            /\ ~o.ok => RunsIn(o.s, v)
        BY <3>1, <3>2, <3>4, PublishOnly
      <4>2. o.ok => RunsIn(o.s, v)
        BY <3>2, <4>1 DEF RunsIn
      <4>3. OnlyRun(s, o.s)
        BY <3>3, <4>1, RunTwice
      <4> QED BY <1>5, <3>2, <3>3, <3>4, <4>1, <4>2, <4>3 DEF Dark
    <3>5. CASE ~m.ok
      <4>1. OnlyRun(m.s, o.s) /\ ~o.ok /\ RunsIn(o.s, v)
        BY <3>1, <3>2, <3>5, StopAndFailOnly
      <4>2. OnlyRun(s, o.s)
        BY <3>3, <4>1, RunTwice
      <4> QED BY <1>5, <4>1, <4>2 DEF Dark
    <3> QED BY <3>4, <3>5
  <2> QED BY <1>5, <2>8, <2>9
<1> QED BY <1>1, <1>3, <1>4, <1>5

\* restart_version, from a quiet agent.
LEMMA RestartOnly ==
  ASSUME NEW s, Sound(s), NEW v \in Opt(Versions), NEW o \in Restart(s, v)
  PROVE  /\ OnlyRun(s, o.s)
         /\ Quiet(s) => RunsIn(o.s, v)
         /\ Dark(s) => o.s = s
<1>1. CASE v = None
  BY <1>1, OutcomeOf DEF Restart, OnlyRun, Quiet, RunsIn
<1>2. CASE v # None
  <2>1. v \in Versions
    BY <1>2 DEF Opt
  <2> QED BY <1>2, <2>1, StartOnly DEF Restart
<1> QED BY <1>1, <1>2

\* refresh drops a handle at most, and never makes the data plane answer.
LEMMA RefreshOnly ==
  ASSUME NEW s, Sound(s), NEW t \in Refresh(s)
  PROVE  /\ OnlyRun(s, t)
         /\ \A v : RunsIn(s, v) => RunsIn(t, v)
         /\ Dark(s) => t = s
         /\ Answering(t) => Answering(s)
<1> DEFINE r1 == [s.run EXCEPT !.sb = None, !.cfg = None, !.ready = FALSE]
           r2 == [s.run EXCEPT !.ready = FALSE, !.fault = TRUE]
<1>1. \/ t = s
      \/ s.run.sb # None /\ t = [s EXCEPT !.run = r1]
      \/ s.run.sb # None /\ t = [s EXCEPT !.run = r2]
  BY MayOf DEF Refresh
<1>2. s.run \in Runtime /\ s \in State
  BY SoundRun
<1>3. r1.sb = None /\ r2.fault
  BY <1>2 DEF Runtime
<1> HIDE DEF r1, r2
<1>4. CASE t = s
  BY <1>4 DEF OnlyRun
<1>5. CASE s.run.sb # None /\ t = [s EXCEPT !.run = r1]
  <2>1. OnlyRun(s, t) /\ t.run = r1
    BY <1>2, <1>5, RunOnly
  <2> QED BY <1>3, <1>5, <2>1 DEF RunsIn, Dark, Answering
<1>6. CASE s.run.sb # None /\ t = [s EXCEPT !.run = r2]
  <2>1. OnlyRun(s, t) /\ t.run = r2
    BY <1>2, <1>6, RunOnly
  <2> QED BY <1>3, <1>6, <2>1 DEF RunsIn, Dark, Answering
<1> QED BY <1>1, <1>4, <1>5, <1>6

\* refresh_mitm leaves sing-box alone.
LEMMA RefreshMitmOnly ==
  ASSUME NEW s, Sound(s), NEW t \in RefreshMitm(s)
  PROVE  /\ OnlyRun(s, t)
         /\ \A v : RunsIn(s, v) => RunsIn(t, v)
         /\ Dark(s) => t = s
<1> DEFINE l == [MitmLost(s) EXCEPT !.run.backoff = TRUE]
           r1 == [s.run EXCEPT !.mitm = FALSE, !.plan = None]
           r2 == [s.run EXCEPT !.mitm = FALSE, !.plan = None, !.backoff = TRUE]
           f == [s EXCEPT !.run.fault = TRUE]
<1>1. \/ t = s
      \/ /\ s.run.mitm
         /\ \/ t = f
            \/ t = MitmLost(s)
            \/ ~s.run.mitmUp /\ \E m \in StartMitm(l) : t = m.s
  BY MayOf DEF RefreshMitm
<1>2. s.run \in Runtime /\ s \in State
  BY SoundRun
<1>3. /\ r1.sb = s.run.sb /\ r1.fault = s.run.fault
      /\ r2.sb = s.run.sb /\ r2.fault = s.run.fault
  BY <1>2 DEF Runtime
<1>4. MitmLost(s) = [s EXCEPT !.run = r1]
  BY DEF MitmLost
<1>5. l = [s EXCEPT !.run = r2]
  BY <1>2 DEF MitmLost, State, Runtime
<1> HIDE DEF r1, r2
<1>6. CASE t = s
  BY <1>6 DEF OnlyRun
<1>7. CASE s.run.mitm /\ t = f
  <2>1. OnlyRun(s, f) /\ f.run.fault
    BY FaultOnly
  <2> HIDE DEF f
  <2> QED BY <1>7, <2>1 DEF RunsIn, Dark
<1>8. CASE s.run.mitm /\ t = MitmLost(s)
  <2>1. OnlyRun(s, t) /\ t.run = r1
    BY <1>2, <1>4, <1>8, RunOnly
  <2> QED BY <1>3, <1>8, <2>1 DEF RunsIn, Dark
<1>9. CASE s.run.mitm /\ ~s.run.mitmUp /\ \E m \in StartMitm(l) : t = m.s
  <2>1. PICK m \in StartMitm(l) : t = m.s
    BY <1>9
  <2>2. Sound(l)
    BY <1>9, MitmLostSound, BackoffSound
  <2> HIDE DEF l
  <2>3. OnlyRun(s, l) /\ l.run = r2
    BY <1>2, <1>5, RunOnly
  <2>4. /\ OnlyRun(l, t) /\ t.run.sb = l.run.sb
        /\ l.run.fault => t.run.fault
    BY <2>1, <2>2, StartMitmOnly
  <2>5. OnlyRun(s, t)
    BY <2>3, <2>4, RunTwice
  <2> QED BY <1>3, <1>9, <2>3, <2>4, <2>5 DEF RunsIn, Dark
<1> QED BY <1>1, <1>6, <1>7, <1>8, <1>9

-------------------------------------------------------------------------------
(* Sessions: how a handler moves the pair in force.                        *)

InForce(s) == <<s.files.cfg, s.files.plan>>
Previous(q) == <<q.prevCfg, q.prevPlan>>
Inbox(s) == <<s.files.cfgIn, s.files.planIn, s.files.cfgStaged, s.files.planStaged>>
Emptied == <<None, None, None, None>>

\* What no move of a session touches: the version slots, and the uploads unless all of
\* them are dropped.
Aside(s, t) == t.slots = s.slots /\ Inbox(t) \in {Inbox(s), Emptied}

\* Only stop_runtime takes the network away, and with it the right to start anything.
Silent(s, t) == t.network = s.network /\ t.log.stopped = s.log.stopped

Ledger(s, t) == t.log.torn = s.log.torn /\ t.log.committed = s.log.committed

\* The five things that can happen to a session.
Stays(s, t) == InForce(t) = InForce(s) /\ t.pending = s.pending /\ Ledger(s, t)
Begins(s, t) ==
  /\ s.pending = None /\ t.pending \in PendingSession
  /\ Previous(t.pending) = InForce(s)
  /\ t.pending.version = s.slots.active
  /\ InForce(t) = <<s.files.cfgIn, s.files.planIn>>
  /\ <<t.pending.cfg, t.pending.plan>> = <<s.files.cfgStaged, s.files.planStaged>>
  /\ s.files.cfgIn \in Configs /\ s.files.planIn \in Plans
  /\ Ledger(s, t)
Commits(s, t) ==
  /\ t.pending = None /\ ~t.log.torn /\ t.log.committed = InForce(t)
  /\ s.pending # None => InForce(t) = InForce(s)
Returns(s, t) ==
  /\ s.pending # None /\ t.pending = None
  /\ InForce(t) = Previous(s.pending)
  /\ Ledger(s, t)
Tears(s, t) == "write" \in Faults /\ t.pending = None /\ t.log.torn

Ends(s, t) == Commits(s, t) \/ Returns(s, t) \/ Tears(s, t)
Move(s, t) == Aside(s, t) /\ (Stays(s, t) \/ Begins(s, t) \/ Ends(s, t))

\* Two states that agree on everything a session is made of.
Kin(s, t) ==
  t.files = s.files /\ t.pending = s.pending /\ t.slots = s.slots /\ Ledger(s, t)

\* The pair (c, p) is put back, or half of it in a restore that failed.
Restored(s, t, c, p) ==
  /\ t.pending = s.pending /\ t.slots = s.slots
  /\ \/ InForce(t) = <<c, p>> /\ Ledger(s, t)
     \/ "write" \in Faults /\ t.log.torn

\* A change to the children is no move of a session.
LEMMA OnlyRunKin ==
  ASSUME NEW s, NEW t, OnlyRun(s, t)
  PROVE  Kin(s, t) /\ Silent(s, t)
BY DEF OnlyRun, Kin, Ledger, Silent

\* A move between two states is one between their kin.
LEMMA KinMove ==
  ASSUME NEW s, NEW x, NEW y, NEW z, Kin(s, x), Kin(y, z)
  PROVE  /\ Aside(x, y) => Aside(s, z)
         /\ Stays(x, y) => Stays(s, z)
         /\ Begins(x, y) => Begins(s, z)
         /\ Commits(x, y) => Commits(s, z)
         /\ Returns(x, y) => Returns(s, z)
         /\ Tears(x, y) => Tears(s, z)
         /\ Ends(x, y) => Ends(s, z)
         /\ Move(x, y) => Move(s, z)
<1>1. /\ Aside(x, y) => Aside(s, z)
      /\ Stays(x, y) => Stays(s, z)
  BY DEF Kin, Aside, Stays, Ledger, InForce, Inbox
<1>2. Begins(x, y) => Begins(s, z)
  BY DEF Kin, Begins, Ledger, InForce
<1>3. /\ Commits(x, y) => Commits(s, z)
      /\ Returns(x, y) => Returns(s, z)
      /\ Tears(x, y) => Tears(s, z)
  BY DEF Kin, Commits, Returns, Tears, Ledger, InForce
<1> QED BY <1>1, <1>2, <1>3 DEF Ends, Move

\* A session that is not touched stays.
LEMMA KinStays ==
  ASSUME NEW s, NEW t, Kin(s, t)
  PROVE  Aside(s, t) /\ Stays(s, t) /\ Move(s, t)
BY DEF Kin, Aside, Stays, Move, InForce, Inbox

\* restore_config and restore_file write the two files in force and nothing else.
LEMMA PutBackOnly ==
  ASSUME NEW s, Sound(s), NEW c, NEW p
  PROVE  LET t == PutBack(s, c, p) IN
         /\ Restored(s, t, c, p) /\ Inbox(t) = Inbox(s) /\ Silent(s, t)
         /\ t.run = s.run /\ t.log = s.log
<1> DEFINE f == [s.files EXCEPT !.cfg = c, !.plan = p]
           t == PutBack(s, c, p)
<1>1. s \in State /\ s.files \in Files
  BY Parts
<1>2. /\ f.cfg = c /\ f.plan = p
      /\ f.cfgIn = s.files.cfgIn /\ f.planIn = s.files.planIn
      /\ f.cfgStaged = s.files.cfgStaged /\ f.planStaged = s.files.planStaged
  BY <1>1 DEF Files
<1>3. t = [s EXCEPT !.files = f]
  BY DEF PutBack
<1> HIDE DEF f
<1>4. /\ t.files = f /\ t.run = s.run /\ t.pending = s.pending /\ t.slots = s.slots
      /\ t.network = s.network /\ t.log = s.log
  BY <1>1, <1>3 DEF State
<1> HIDE DEF t
<1> QED BY <1>2, <1>4 DEF Restored, InForce, Inbox, Ledger, Silent, t

\* A restore that failed half way is on record.
LEMMA TornOnly ==
  ASSUME NEW s, Sound(s), Quiet(s), "write" \in Faults,
         NEW c \in Opt(Configs), NEW p \in Opt(Plans), NEW d, NEW q
  PROVE  LET t == Torn(s, c, p) IN
         Restored(s, t, d, q) /\ Inbox(t) = Inbox(s) /\ Silent(s, t) /\ t.run = s.run
<1> DEFINE x == PutBack(s, c, p)
           l == [x.log EXCEPT !.torn = TRUE]
           t == Torn(s, c, p)
<1>1. Sound(x)
  BY PutBackSound
<1>2. /\ x.pending = s.pending /\ x.slots = s.slots /\ Inbox(x) = Inbox(s)
      /\ x.run = s.run /\ Silent(s, x)
  BY PutBackOnly DEF Restored
<1>3. t = [x EXCEPT !.log = l]
  BY DEF Torn
<1> HIDE DEF x, t
<1>4. x \in State /\ x.log \in History
  BY <1>1, Parts
<1>5. l.torn /\ l.stopped = x.log.stopped
  BY <1>4 DEF History
<1> HIDE DEF l
<1>6. /\ t.files = x.files /\ t.run = x.run /\ t.pending = x.pending
      /\ t.slots = x.slots /\ t.network = x.network /\ t.log = l
  BY <1>3, <1>4 DEF State
<1> QED BY <1>2, <1>5, <1>6 DEF Restored, Inbox, Silent, t

\* Every outcome of the restore.
LEMMA RestoreOnly ==
  ASSUME NEW s, Sound(s), Quiet(s), NEW c \in Opt(Configs), NEW p \in Opt(Plans),
         NEW o \in Restore(s, c, p)
  PROVE  /\ Restored(s, o.s, c, p) /\ Inbox(o.s) = Inbox(s) /\ Silent(s, o.s)
         /\ o.s.run = s.run
<1>1. s.files.cfg \in Opt(Configs) /\ s.files.plan \in Opt(Plans)
  BY Parts DEF Files
<1>2. \/ o.s = PutBack(s, c, p)
      \/ /\ "write" \in Faults
         /\ \/ o.s = Torn(s, c, s.files.plan) \/ o.s = Torn(s, s.files.cfg, p)
            \/ o.s = Torn(s, s.files.cfg, s.files.plan)
  BY OutcomeOf DEF Restore, May
<1>3. CASE o.s = PutBack(s, c, p)
  BY <1>3, PutBackOnly
<1>4. CASE "write" \in Faults /\ o.s = Torn(s, c, s.files.plan)
  BY <1>1, <1>4, TornOnly
<1>5. CASE "write" \in Faults /\ o.s = Torn(s, s.files.cfg, p)
  BY <1>1, <1>5, TornOnly
<1>6. CASE "write" \in Faults /\ o.s = Torn(s, s.files.cfg, s.files.plan)
  BY <1>1, <1>6, TornOnly
<1> QED BY <1>2, <1>3, <1>4, <1>5, <1>6

\* The way back: a quiet agent, and the old pair in force unless the restore failed.
LEMMA StopAndRestoreOnly ==
  ASSUME NEW s, Sound(s), NEW c \in Opt(Configs), NEW p \in Opt(Plans),
         NEW o \in StopAndRestore(s, c, p)
  PROVE  /\ Restored(s, o.s, c, p) /\ Inbox(o.s) = Inbox(s) /\ Silent(s, o.s)
         /\ Dark(s) => Dark(o.s)
         /\ o.ok => o.s.run.sb = None /\ ~o.s.run.mitm /\ ~o.s.run.ready
<1>1. PICK stop \in Stop(s) :
        \E r \in Restore(stop.s, c, p) : o = IF stop.ok THEN r ELSE Failed(r.s)
  BY DEF StopAndRestore
<1>2. PICK r \in Restore(stop.s, c, p) : o = IF stop.ok THEN r ELSE Failed(r.s)
  BY <1>1
<1>3. /\ Sound(stop.s) /\ Quiet(stop.s) /\ OnlyRun(s, stop.s)
      /\ Dark(s) => Dark(stop.s)
      /\ stop.ok => stop.s.run.sb = None /\ ~stop.s.run.mitm /\ ~stop.s.run.ready
  BY StopSound, StopEnds
<1>4. /\ Restored(stop.s, r.s, c, p) /\ Inbox(r.s) = Inbox(stop.s) /\ Silent(stop.s, r.s)
      /\ r.s.run = stop.s.run
  BY <1>3, RestoreOnly
<1>5. o.s = r.s /\ (o.ok => stop.ok)
  BY <1>2, OutcomeOf
<1>6. Restored(s, r.s, c, p)
  BY <1>3, <1>4 DEF Restored, OnlyRun, Ledger
<1>7. Inbox(r.s) = Inbox(s) /\ Silent(s, r.s)
  BY <1>3, <1>4 DEF Inbox, Silent, OnlyRun
<1>8. Dark(s) => Dark(r.s)
  BY <1>3, <1>4 DEF Dark, Silent
<1> QED BY <1>3, <1>4, <1>5, <1>6, <1>7, <1>8

\* remove_session_artifacts empties the inbox.
LEMMA DiscardOnly ==
  ASSUME NEW s, Sound(s)
  PROVE  LET t == Discard(s) IN
         /\ InForce(t) = InForce(s) /\ Inbox(t) = Emptied
         /\ t.run = s.run /\ t.pending = s.pending /\ t.slots = s.slots
         /\ t.log = s.log /\ Silent(s, t)
<1> DEFINE f == [s.files EXCEPT !.cfgIn = None, !.cfgStaged = None,
                                !.planIn = None, !.planStaged = None]
           t == Discard(s)
<1>1. s \in State /\ s.files \in Files
  BY Parts
<1>2. /\ f.cfg = s.files.cfg /\ f.plan = s.files.plan
      /\ f.cfgIn = None /\ f.planIn = None /\ f.cfgStaged = None /\ f.planStaged = None
  BY <1>1 DEF Files
<1>3. t = [s EXCEPT !.files = f]
  BY DEF Discard
<1> HIDE DEF f
<1>4. /\ t.files = f /\ t.run = s.run /\ t.pending = s.pending /\ t.slots = s.slots
      /\ t.network = s.network /\ t.log = s.log
  BY <1>1, <1>3 DEF State
<1> HIDE DEF t
<1> QED BY <1>2, <1>4 DEF InForce, Inbox, Emptied, Silent, t

\* The pending session is taken out of its slot.
LEMMA NotPendingOnly ==
  ASSUME NEW s, Sound(s)
  PROVE  LET t == NotPending(s) IN
         /\ t.pending = None /\ t.files = s.files /\ t.run = s.run /\ t.slots = s.slots
         /\ t.log = s.log /\ t.network = s.network
<1>1. s \in State
  BY Parts
<1> QED BY <1>1 DEF State, NotPending

\* The way back of a pending session ends in its return, or is on record as torn.
LEMMA ReturnsOrTears ==
  ASSUME NEW s, Sound(s), s.pending # None, NEW t,
         Restored(NotPending(s), t, s.pending.prevCfg, s.pending.prevPlan)
  PROVE  Returns(s, t) \/ Tears(s, t)
<1>1. NotPending(s).pending = None /\ NotPending(s).log = s.log
  BY NotPendingOnly
<1> QED BY <1>1 DEF Restored, Returns, Tears, Previous, Ledger

\* rollback_pending_session: the session returns or is torn, and what is restarted is
\* the version that ran before it.
LEMMA RollbackMoves ==
  ASSUME NEW s, Sound(s), s.pending # None, NEW t \in RollbackPending(s, s.pending)
  PROVE  /\ Aside(s, t) /\ Silent(s, t) /\ (Returns(s, t) \/ Tears(s, t))
         /\ RunsIn(t, s.pending.version)
<1> DEFINE n == NotPending(s)
           c == s.pending.prevCfg
           p == s.pending.prevPlan
           v == s.pending.version
<1>1. c \in Opt(Configs) /\ p \in Opt(Plans) /\ v \in Opt(Versions)
  BY Parts DEF PendingSession, Opt
<1>2. PICK back \in StopAndRestore(n, c, p) :
        t \in IF ~back.ok THEN After(Stop(Discard(back.s)))
              ELSE IF c = None THEN {Discard(back.s)}
              ELSE UNION {IF re.ok THEN {re.s} ELSE After(Stop(re.s)) :
                            re \in Restart(Discard(back.s), v)}
  BY DEF RollbackPending
<1>3. /\ Sound(n) /\ n.files = s.files /\ n.slots = s.slots
      /\ n.log = s.log /\ n.network = s.network
  BY NotPendingSound, NotPendingOnly
<1> HIDE DEF n, c, p, v
<1>4. /\ Sound(back.s) /\ Quiet(back.s)
      /\ Restored(n, back.s, c, p) /\ Inbox(back.s) = Inbox(n) /\ Silent(n, back.s)
  BY <1>1, <1>3, StopAndRestoreSound, StopAndRestoreOnly
<1> DEFINE d == Discard(back.s)
<1>5. /\ Sound(d) /\ Quiet(d) /\ InForce(d) = InForce(back.s) /\ Inbox(d) = Emptied
      /\ d.pending = back.s.pending /\ d.slots = back.s.slots /\ d.log = back.s.log
      /\ Silent(back.s, d)
  BY <1>4, DiscardSound, DiscardOnly
<1> HIDE DEF d
<1>6. \/ t \in After(Stop(d))
      \/ t = d
      \/ \E re \in Restart(d, v) : t = re.s \/ t \in After(Stop(re.s))
  BY <1>2 DEF d
<1>7. OnlyRun(d, t) /\ RunsIn(t, v)
  <2>1. CASE t \in After(Stop(d))
    BY <1>5, <2>1, StopEnds DEF After
  <2>2. CASE t = d
    BY <1>5, <2>2 DEF OnlyRun, RunsIn, Quiet
  <2>3. CASE \E re \in Restart(d, v) : t = re.s \/ t \in After(Stop(re.s))
    <3>1. PICK re \in Restart(d, v) : t = re.s \/ t \in After(Stop(re.s))
      BY <2>3
    <3>2. Sound(re.s) /\ OnlyRun(d, re.s) /\ RunsIn(re.s, v)
      BY <1>1, <1>5, RestartSound, RestartOnly
    <3>3. CASE t \in After(Stop(re.s))
      <4>1. PICK o \in Stop(re.s) : t = o.s
        BY <3>3 DEF After
      <4>2. OnlyRun(re.s, t) /\ RunsIn(t, v)
        BY <3>2, <4>1, StopEnds
      <4> QED BY <3>2, <4>2, RunTwice
    <3> QED BY <3>1, <3>2, <3>3
  <2> QED BY <1>6, <2>1, <2>2, <2>3
<1>8. Restored(n, t, c, p)
  BY <1>4, <1>5, <1>7 DEF Restored, OnlyRun, Ledger, InForce
<1>9. Inbox(t) = Emptied /\ t.slots = s.slots
  BY <1>3, <1>5, <1>7, <1>8 DEF OnlyRun, Inbox, Restored
<1>10. Silent(s, t)
  BY <1>3, <1>4, <1>5, <1>7 DEF Silent, OnlyRun
<1>11. Returns(s, t) \/ Tears(s, t)
  BY <1>8, ReturnsOrTears DEF n, c, p
<1> QED BY <1>7, <1>9, <1>10, <1>11 DEF Aside, v

\* The pending session becomes the committed one, with the files as they are.
LEMMA CommitMoves ==
  ASSUME NEW s, Sound(s)
  PROVE  LET t == Commit(s) IN
         /\ Aside(s, t) /\ Silent(s, t) /\ Commits(s, t) /\ t.run = s.run
<1> DEFINE n == NotPending(s)
           d == Discard(n)
           pair == <<s.files.cfg, s.files.plan>>
           l == [d.log EXCEPT !.torn = FALSE, !.committed = pair]
           t == Commit(s)
<1>1. /\ Sound(n) /\ n.pending = None /\ n.files = s.files /\ n.run = s.run
      /\ n.slots = s.slots /\ n.log = s.log /\ n.network = s.network
  BY NotPendingSound, NotPendingOnly
<1> HIDE DEF n
<1>2. /\ Sound(d) /\ InForce(d) = InForce(n) /\ Inbox(d) = Emptied /\ d.run = n.run
      /\ d.pending = None /\ d.slots = n.slots /\ d.log = n.log /\ Silent(n, d)
  BY <1>1, DiscardSound, DiscardOnly
<1>3. t = [d EXCEPT !.log = l]
  BY DEF Commit, n
<1> HIDE DEF d, t
<1>4. d \in State /\ d.log \in History
  BY <1>2, Parts
<1>5. ~l.torn /\ l.committed = pair /\ l.stopped = d.log.stopped
  BY <1>4 DEF History
<1> HIDE DEF l
<1>6. /\ t.files = d.files /\ t.run = d.run /\ t.pending = d.pending
      /\ t.slots = d.slots /\ t.network = d.network /\ t.log = l
  BY <1>3, <1>4 DEF State
<1>7. InForce(t) = InForce(s) /\ Inbox(t) = Emptied
  BY <1>1, <1>2, <1>6 DEF InForce, Inbox
<1>8. Aside(s, t) /\ Commits(s, t)
  BY <1>1, <1>2, <1>5, <1>6, <1>7 DEF Aside, Commits, InForce
<1>9. Silent(s, t)
  BY <1>1, <1>2, <1>5, <1>6 DEF Silent
<1> QED BY <1>1, <1>2, <1>6, <1>8, <1>9 DEF t

\* progress_pending_session: a session waits, or ends.  A candidate of which nothing
\* failed is not given up, and one that answers does not wait for another request.
LEMMA ProgressMoves ==
  ASSUME NEW s, Sound(s), NEW t \in Progress(s)
  PROVE  /\ Aside(s, t) /\ Silent(s, t)
         /\ Stays(s, t) \/ (s.pending # None /\ Ends(s, t))
         /\ s.pending = None => t = s
         /\ s.pending # None /\ ~GivenUp(s)
              => Stays(s, t) \/ (FilesMatch(s) /\ Commits(s, t))
         /\ s.pending # None /\ RunsIn(s, s.pending.version) => RunsIn(t, s.pending.version)
         /\ s.pending # None /\ FilesMatch(s) /\ Faults \cap {"write", "flap"} = {}
              => t.pending = None \/ (t = s /\ ~Answering(s))
<1>1. CASE s.pending = None
  <2>1. t = s
    BY <1>1 DEF Progress
  <2> QED BY <1>1, <2>1 DEF Aside, Silent, Stays, Ledger
<1>2. CASE s.pending # None
  <2>1. PICK up \in Probes(s) :
          t \in IF up /\ FilesMatch(s)
                THEN {IF w.ok THEN Commit(w.s) ELSE w.s : w \in WriteReadiness(s)}
                ELSE IF GivenUp(s) THEN RollbackPending(s, s.pending) ELSE {s}
    BY <1>2 DEF Progress
  <2>2. "flap" \notin Faults => (up <=> Answering(s))
    BY <2>1 DEF Probes
  <2>3. CASE up /\ FilesMatch(s)
    <3>1. PICK w \in WriteReadiness(s) : t = IF w.ok THEN Commit(w.s) ELSE w.s
      BY <2>1, <2>3
    <3>2. /\ Sound(w.s) /\ OnlyRun(s, w.s)
          /\ w.s.run.sb = s.run.sb /\ w.s.run.fault = s.run.fault
      BY WriteReadinessSound, WriteReadinessOnly
    <3>3. Kin(s, w.s) /\ Silent(s, w.s)
      BY <3>2, OnlyRunKin
    <3>4. CASE w.ok
      <4>1. t = Commit(w.s)
        BY <3>1, <3>4
      <4>2. Aside(w.s, t) /\ Silent(w.s, t) /\ Commits(w.s, t) /\ t.run = w.s.run
        BY <3>2, <4>1, CommitMoves
      <4>3. Kin(t, t)
        BY DEF Kin, Ledger
      <4>4. Aside(s, t) /\ Commits(s, t)
        BY <3>3, <4>2, <4>3, KinMove
      <4> QED BY <1>2, <2>3, <3>2, <3>3, <4>2, <4>4 DEF Ends, Silent, RunsIn, Commits
    <3>5. CASE ~w.ok
      <4>1. t = w.s
        BY <3>1, <3>5
      <4>2. "write" \in Faults \/ "flap" \in Faults
        <5>1. SUFFICES ASSUME "write" \notin Faults, "flap" \notin Faults PROVE FALSE
          OBVIOUS
        <5>2. Probes(s) = {TRUE}
          BY <2>2, <2>3, <5>1 DEF Probes
        <5>3. WriteReadiness(s) = {Done(Published(s))}
          BY <5>1, <5>2 DEF WriteReadiness, May
        <5> QED BY <3>5, <5>3, OutcomeOf
      <4> QED BY <1>2, <3>2, <3>3, <4>1, <4>2, KinStays DEF RunsIn
    <3> QED BY <3>4, <3>5
  <2>4. CASE ~(up /\ FilesMatch(s)) /\ GivenUp(s)
    <3>1. t \in RollbackPending(s, s.pending)
      BY <2>1, <2>4
    <3>2. /\ Aside(s, t) /\ Silent(s, t) /\ (Returns(s, t) \/ Tears(s, t))
          /\ RunsIn(t, s.pending.version)
      BY <1>2, <3>1, RollbackMoves
    <3> QED BY <1>2, <2>4, <3>2 DEF Ends, Returns, Tears
  <2>5. CASE ~(up /\ FilesMatch(s)) /\ ~GivenUp(s)
    <3>1. t = s
      BY <2>1, <2>5
    <3>2. Aside(s, t) /\ Silent(s, t) /\ Stays(s, t)
      BY <3>1 DEF Aside, Silent, Stays, Ledger
    <3> QED BY <1>2, <2>2, <2>5, <3>1, <3>2
  <2> QED BY <2>3, <2>4, <2>5
<1> QED BY <1>1, <1>2

-------------------------------------------------------------------------------
(* The handlers, and what they answer.                                     *)

\* An answer changes no session, no child and no version.
LEMMA TellOnly ==
  ASSUME NEW s, Sound(s), NEW pair
  PROVE  LET t == Tell(s, pair) IN
         /\ Kin(s, t) /\ Silent(s, t) /\ t.run = s.run /\ t.log.told = pair
<1> DEFINE l == [s.log EXCEPT !.told = pair]
           t == Tell(s, pair)
<1>1. s \in State /\ s.log \in History
  BY Parts
<1>2. /\ l.torn = s.log.torn /\ l.committed = s.log.committed
      /\ l.stopped = s.log.stopped /\ l.told = pair
  BY <1>1 DEF History
<1>3. t = [s EXCEPT !.log = l]
  BY DEF Tell
<1> HIDE DEF l, t
<1>4. /\ t.files = s.files /\ t.run = s.run /\ t.pending = s.pending
      /\ t.slots = s.slots /\ t.network = s.network /\ t.log = l
  BY <1>1, <1>3 DEF State
<1> QED BY <1>2, <1>4 DEF Kin, Ledger, Silent, t

\* What an answer tells is nothing, or the pair now in force.
Honest(t) == t.log.told \in {None, InForce(t)}

\* A refusal of a move is that move, and tells nothing.
LEMMA RefusedMoves ==
  ASSUME NEW s, NEW x, Sound(x)
  PROVE  LET t == Refused(x) IN
         /\ Kin(x, t) /\ Silent(x, t) /\ t.run = x.run /\ t.log.told = None /\ Honest(t)
         /\ Move(s, x) => Move(s, t)
         /\ Aside(s, x) => Aside(s, t)
         /\ Stays(s, x) => Stays(s, t)
<1> DEFINE t == Refused(x)
<1>1. Kin(x, t) /\ Silent(x, t) /\ t.run = x.run /\ t.log.told = None
  BY TellOnly DEF Refused
<1>2. Kin(s, s)
  BY DEF Kin, Ledger
<1> HIDE DEF t
<1> QED BY <1>1, <1>2, KinMove DEF Honest, t

\* The report of status: ready only when the probes answer.
LEMMA ReportMoves ==
  ASSUME NEW s, Sound(s), NEW t \in Report(s)
  PROVE  /\ Kin(s, t) /\ Silent(s, t) /\ Honest(t)
         /\ \A v : RunsIn(s, v) => RunsIn(t, v)
         /\ Dark(s) => Dark(t)
         /\ t.log.told # None => Answering(s)
<1>1. \/ t = Refused(s)
      \/ /\ Answering(s)
         /\ \E w \in (IF s.run.ready THEN {Done(s)} ELSE WriteReadiness(s)) :
              t = Tell(w.s, InForce(s)) \/ t = Refused(w.s)
  BY DEF Report, Probes, InForce
<1>2. CASE t = Refused(s)
  <2>1. Kin(s, t) /\ Silent(s, t) /\ t.run = s.run /\ t.log.told = None /\ Honest(t)
    BY <1>2, RefusedMoves
  <2> QED BY <2>1 DEF RunsIn, Dark, Silent
<1>3. CASE /\ Answering(s)
           /\ \E w \in (IF s.run.ready THEN {Done(s)} ELSE WriteReadiness(s)) :
                t = Tell(w.s, InForce(s)) \/ t = Refused(w.s)
  <2>1. PICK w \in (IF s.run.ready THEN {Done(s)} ELSE WriteReadiness(s)) :
          t = Tell(w.s, InForce(s)) \/ t = Refused(w.s)
    BY <1>3
  <2>2. OnlyRun(s, s)
    BY DEF OnlyRun
  <2>3. /\ Sound(w.s) /\ OnlyRun(s, w.s)
        /\ w.s.run.sb = s.run.sb /\ w.s.run.fault = s.run.fault
    BY <2>2, OutcomeOf, WriteReadinessSound, WriteReadinessOnly
  <2>4. Kin(w.s, t) /\ Silent(w.s, t) /\ t.run = w.s.run /\ t.log.told \in {None, InForce(s)}
    BY <2>1, <2>3, TellOnly, RefusedMoves
  <2>5. Kin(s, t) /\ Silent(s, t)
    BY <2>3, <2>4 DEF OnlyRun, Kin, Ledger, Silent
  <2>6. Honest(t)
    BY <2>4, <2>5 DEF Honest, Kin, InForce
  <2>7. ~Dark(s)
    BY <1>3 DEF Answering, Dark
  <2> QED BY <1>3, <2>3, <2>4, <2>5, <2>6, <2>7 DEF RunsIn
<1> QED BY <1>1, <1>2, <1>3

\* status: a session may end on the way, and the report is of what is in force then.
\* Without a probe or a write that fails, a pair that is told is no longer on trial.
LEMMA StatusMoves ==
  ASSUME NEW s, Sound(s), NEW t \in StatusResponse(s)
  PROVE  /\ Move(s, t) /\ ~Begins(s, t) /\ Silent(s, t) /\ Honest(t)
         /\ s.pending = None => Stays(s, t)
         /\ Dark(s) /\ s.pending = None => Dark(t)
         /\ \A v : RunsIn(s, v) /\ (s.pending # None => s.pending.version = v)
                     => RunsIn(t, v)
         /\ Faults \cap {"write", "flap"} = {} /\ (s.pending # None => FilesMatch(s))
              => (t.log.told # None => t.pending = None)
<1>1. PICK w \in Refresh(s) :
        t \in UNION {UNION {UNION {Report(z) : z \in Refresh(y)} : y \in Progress(x)} :
                       x \in RefreshMitm(w)}
  BY DEF StatusResponse
<1>2. PICK x \in RefreshMitm(w) :
        t \in UNION {UNION {Report(z) : z \in Refresh(y)} : y \in Progress(x)}
  BY <1>1
<1>3. PICK y \in Progress(x) : t \in UNION {Report(z) : z \in Refresh(y)}
  BY <1>2
<1>4. PICK z \in Refresh(y) : t \in Report(z)
  BY <1>3
<1>5. /\ Sound(w) /\ OnlyRun(s, w) /\ (Dark(s) => w = s)
      /\ \A v : RunsIn(s, v) => RunsIn(w, v)
  BY RefreshSound, RefreshOnly
<1>6. /\ Sound(x) /\ OnlyRun(w, x) /\ (Dark(w) => x = w)
      /\ \A v : RunsIn(w, v) => RunsIn(x, v)
  BY <1>5, RefreshMitmSound, RefreshMitmOnly
<1>7. /\ Sound(y) /\ Aside(x, y) /\ Silent(x, y)
      /\ Stays(x, y) \/ (x.pending # None /\ Ends(x, y))
      /\ x.pending = None => y = x
      /\ x.pending # None /\ RunsIn(x, x.pending.version) => RunsIn(y, x.pending.version)
      /\ x.pending # None /\ FilesMatch(x) /\ Faults \cap {"write", "flap"} = {}
           => y.pending = None \/ (y = x /\ ~Answering(x))
  BY <1>6, ProgressSound, ProgressMoves
<1>8. /\ Sound(z) /\ OnlyRun(y, z) /\ (Dark(y) => z = y)
      /\ \A v : RunsIn(y, v) => RunsIn(z, v)
      /\ Answering(z) => Answering(y)
  BY <1>4, <1>7, RefreshSound, RefreshOnly
<1>9. /\ Kin(z, t) /\ Silent(z, t) /\ Honest(t)
      /\ \A v : RunsIn(z, v) => RunsIn(t, v)
      /\ Dark(z) => Dark(t)
      /\ t.log.told # None => Answering(z)
  BY <1>4, <1>8, ReportMoves
<1>10. OnlyRun(s, x) /\ Kin(s, x) /\ Silent(s, x)
  BY <1>5, <1>6, RunTwice, OnlyRunKin
<1>11. Kin(y, t) /\ Silent(y, t)
  BY <1>8, <1>9 DEF OnlyRun, Kin, Ledger, Silent
<1>12. /\ Aside(s, t)
       /\ Stays(s, t) \/ (s.pending # None /\ Ends(s, t))
  BY <1>7, <1>10, <1>11, KinMove DEF Kin
<1>13. Move(s, t) /\ ~Begins(s, t)
  <2>1. Stays(s, t) /\ s.pending = None => t.pending = None
    BY DEF Stays
  <2> QED BY <1>12, <2>1, AbsenceAssumption DEF Move, Begins
<1>14. s.pending = None => Stays(s, t)
  BY <1>12
<1>15. Silent(s, t)
  BY <1>7, <1>10, <1>11 DEF Silent
<1>16. Dark(s) /\ s.pending = None => Dark(t)
  BY <1>5, <1>6, <1>7, <1>8, <1>9
<1>17. ASSUME NEW v, RunsIn(s, v), s.pending # None => s.pending.version = v
       PROVE  RunsIn(t, v)
  <2>1. RunsIn(x, v) /\ x.pending = s.pending
    BY <1>5, <1>6, <1>10, <1>17 DEF OnlyRun
  <2>2. RunsIn(y, v)
    BY <1>7, <1>17, <2>1
  <2> QED BY <1>8, <1>9, <2>2
<1>18. ASSUME Faults \cap {"write", "flap"} = {}, s.pending # None => FilesMatch(s),
              t.log.told # None
       PROVE  t.pending = None
  <2>1. x.pending = s.pending /\ x.files = s.files /\ t.pending = y.pending
    BY <1>10, <1>11 DEF OnlyRun, Kin
  <2>2. Answering(y)
    BY <1>8, <1>9, <1>18
  <2>3. CASE s.pending = None
    BY <1>7, <2>1, <2>3
  <2>4. CASE s.pending # None
    <3>1. FilesMatch(x)
      BY <1>18, <2>1, <2>4 DEF FilesMatch
    <3> QED BY <1>7, <1>18, <2>1, <2>2, <2>4, <3>1
  <2> QED BY <2>3, <2>4
<1> QED BY <1>9, <1>13, <1>14, <1>15, <1>16, <1>17, <1>18

\* The candidate: both files are written, then it is started from them.  When that
\* succeeds nothing of it has failed.
LEMMA StartCandidateMoves ==
  ASSUME NEW s, Sound(s), Quiet(s), s.files.cfgIn \in Configs, s.files.planIn \in Plans,
         s.slots.active \in Versions, NEW o \in StartCandidate(s)
  PROVE  /\ o.s.pending = s.pending /\ o.s.slots = s.slots /\ o.s.log = s.log
         /\ o.s.network = s.network /\ Inbox(o.s) = Inbox(s)
         /\ o.ok => /\ InForce(o.s) = <<s.files.cfgIn, s.files.planIn>>
                    /\ ~ChildFailed(o.s) /\ o.s.run.sb = s.slots.active
         /\ Dark(s) => Dark(o.s) /\ ~o.ok
<1> DEFINE f1 == [s.files EXCEPT !.cfg = s.files.cfgIn]
           t1 == [s EXCEPT !.files.cfg = s.files.cfgIn]
<1>1. PICK w \in Store(s, t1) :
        o \in IF ~w.ok THEN {w}
              ELSE UNION {IF ~x.ok THEN {x} ELSE Start(x.s, s.slots.active) :
                            x \in Store(w.s, [w.s EXCEPT !.files.plan = s.files.planIn])}
  BY DEF StartCandidate
<1>2. /\ s \in State /\ s.files \in Files
      /\ s.files.cfgIn \in Opt(Configs) /\ s.files.planIn \in Opt(Plans)
  BY Parts DEF Opt
<1>3. f1 \in Files /\ f1.cfg = s.files.cfgIn /\ f1.plan = s.files.plan
      /\ f1.cfgIn = s.files.cfgIn /\ f1.planIn = s.files.planIn
      /\ f1.cfgStaged = s.files.cfgStaged /\ f1.planStaged = s.files.planStaged
  BY <1>2 DEF Files
<1>4. t1 = [s EXCEPT !.files = f1]
  OBVIOUS
<1> HIDE DEF f1
<1>5. Sound(t1) /\ Quiet(t1)
  BY <1>3, <1>4, FilesSound
<1>6. /\ t1.files = f1 /\ t1.run = s.run /\ t1.pending = s.pending /\ t1.slots = s.slots
      /\ t1.log = s.log /\ t1.network = s.network
  BY <1>2, <1>4 DEF State
<1> HIDE DEF t1
<1>7. \/ ~w.ok /\ w.s = s /\ o = w
      \/ w.ok /\ w.s = t1
  BY <1>1, OutcomeOf, MayOf DEF Store
<1>8. CASE ~w.ok /\ w.s = s /\ o = w
  BY <1>8
<1>9. CASE w.ok /\ w.s = t1
  <2> DEFINE f2 == [f1 EXCEPT !.plan = s.files.planIn]
             t2 == [t1 EXCEPT !.files.plan = s.files.planIn]
  <2>1. f2 \in Files /\ f2.cfg = s.files.cfgIn /\ f2.plan = s.files.planIn
        /\ f2.cfgIn = s.files.cfgIn /\ f2.planIn = s.files.planIn
        /\ f2.cfgStaged = s.files.cfgStaged /\ f2.planStaged = s.files.planStaged
    BY <1>2, <1>3 DEF Files
  <2>2. t2 = [t1 EXCEPT !.files = f2]
    BY <1>6
  <2>3. t1 \in State
    BY <1>5, Parts
  <2> HIDE DEF f2
  <2>4. Sound(t2) /\ Quiet(t2)
    BY <1>5, <2>1, <2>2, FilesSound
  <2>5. /\ t2.files = f2 /\ t2.run = s.run /\ t2.pending = s.pending
        /\ t2.slots = s.slots /\ t2.log = s.log /\ t2.network = s.network
    BY <1>6, <2>2, <2>3 DEF State
  <2>6. PICK x \in Store(t1, t2) : o \in IF ~x.ok THEN {x} ELSE Start(x.s, s.slots.active)
    BY <1>1, <1>9
  <2> HIDE DEF t2
  <2>7. \/ ~x.ok /\ x.s = t1 /\ o = x
        \/ x.s = t2 /\ o \in Start(t2, s.slots.active)
    BY <2>6, OutcomeOf, MayOf DEF Store
  <2>8. CASE ~x.ok /\ x.s = t1 /\ o = x
    BY <1>3, <1>6, <2>8 DEF Inbox, Dark
  <2>9. CASE x.s = t2 /\ o \in Start(t2, s.slots.active)
    <3>1. /\ OnlyRun(t2, o.s)
          /\ o.ok => /\ o.s.run.sb = s.slots.active /\ ~o.s.run.fault
                     /\ NeedsMitm(t2.files.plan) => o.s.run.mitm
          /\ Dark(t2) => o.s = t2 /\ ~o.ok
      BY <2>4, <2>9, StartOnly
    <3>2. Inbox(o.s) = Inbox(s) /\ InForce(o.s) = <<s.files.cfgIn, s.files.planIn>>
      BY <2>1, <2>5, <3>1 DEF Inbox, InForce, OnlyRun
    <3>3. Dark(s) => Dark(t2)
      BY <2>5 DEF Dark
    <3>4. s.slots.active # None
      BY ConstantsAssumption
    <3>5. o.ok => ~ChildFailed(o.s)
      BY <3>1, <3>4 DEF ChildFailed, OnlyRun
    <3> QED BY <2>5, <3>1, <3>2, <3>3, <3>5 DEF OnlyRun
  <2> QED BY <2>7, <2>8, <2>9
<1> QED BY <1>7, <1>8, <1>9

\* The way back of activate_session: the old pair and the old version, or nothing.
LEMMA UndoMoves ==
  ASSUME NEW s, Sound(s), NEW old, Sound(old), NEW t \in Undo(s, old)
  PROVE  /\ Restored(s, t, old.files.cfg, old.files.plan) /\ Inbox(t) = Inbox(s)
         /\ Silent(s, t)
         /\ RunsIn(t, old.slots.active)
         /\ Dark(s) => Dark(t)
<1> DEFINE c == old.files.cfg
           p == old.files.plan
           v == old.slots.active
<1>1. c \in Opt(Configs) /\ p \in Opt(Plans) /\ v \in Opt(Versions)
  BY Parts DEF Files, Slots
<1>2. PICK back \in StopAndRestore(s, c, p) :
        t \in IF ~back.ok THEN {back.s}
              ELSE UNION {UNION {IF re.ok /\ up /\ re.s.run.ready THEN {re.s}
                                 ELSE After(Stop(re.s)) : up \in Probes(re.s)} :
                            re \in Restart(back.s, v)}
  BY DEF Undo
<1> HIDE DEF c, p, v
<1>3. /\ Sound(back.s) /\ Quiet(back.s)
      /\ Restored(s, back.s, c, p) /\ Inbox(back.s) = Inbox(s) /\ Silent(s, back.s)
      /\ Dark(s) => Dark(back.s)
  BY <1>1, StopAndRestoreSound, StopAndRestoreOnly
<1>4. \/ t = back.s
      \/ \E re \in Restart(back.s, v) : t = re.s \/ t \in After(Stop(re.s))
  BY <1>2
<1>5. OnlyRun(back.s, t) /\ RunsIn(t, v) /\ (Dark(back.s) => Dark(t))
  <2>1. CASE t = back.s
    BY <1>3, <2>1 DEF OnlyRun, RunsIn, Quiet
  <2>2. CASE \E re \in Restart(back.s, v) : t = re.s \/ t \in After(Stop(re.s))
    <3>1. PICK re \in Restart(back.s, v) : t = re.s \/ t \in After(Stop(re.s))
      BY <2>2
    <3>2. /\ Sound(re.s) /\ OnlyRun(back.s, re.s) /\ RunsIn(re.s, v)
          /\ Dark(back.s) => re.s = back.s
      BY <1>1, <1>3, RestartSound, RestartOnly
    <3>3. CASE t \in After(Stop(re.s))
      <4>1. PICK o \in Stop(re.s) : t = o.s
        BY <3>3 DEF After
      <4>2. OnlyRun(re.s, t) /\ RunsIn(t, v) /\ (Dark(re.s) => Dark(t))
        BY <3>2, <4>1, StopEnds
      <4> QED BY <3>2, <4>2, RunTwice
    <3> QED BY <3>1, <3>2, <3>3
  <2> QED BY <1>4, <2>1, <2>2
<1>6. Restored(s, t, c, p)
  BY <1>3, <1>5 DEF Restored, OnlyRun, Ledger, InForce
<1>7. Inbox(t) = Inbox(s) /\ Silent(s, t)
  BY <1>3, <1>5 DEF OnlyRun, Inbox, Silent
<1> QED BY <1>3, <1>5, <1>6, <1>7 DEF c, p, v

\* A candidate that started is put on trial; nothing else changes.
LEMMA BeginOnly ==
  ASSUME NEW s, Sound(s), NEW old, Sound(old), old.slots.active \in Versions,
         NEW c \in Configs, NEW p \in Plans
  PROVE  LET t == Begin(s, old, c, p) IN
         /\ t.files = s.files /\ t.run = s.run /\ t.slots = s.slots /\ t.log = s.log
         /\ t.network = s.network
         /\ t.pending \in PendingSession /\ t.pending # None
         /\ Previous(t.pending) = InForce(old) /\ t.pending.version = old.slots.active
         /\ t.pending.cfg = c /\ t.pending.plan = p /\ ~t.pending.late
<1> DEFINE q == [cfg |-> c, plan |-> p, prevCfg |-> old.files.cfg,
                 prevPlan |-> old.files.plan, version |-> old.slots.active,
                 late |-> FALSE]
           t == Begin(s, old, c, p)
<1>1. q \in PendingSession
  BY Parts DEF PendingSession, Files
<1>2. /\ Previous(q) = InForce(old) /\ q.version = old.slots.active
      /\ q.cfg = c /\ q.plan = p /\ ~q.late
  BY DEF Previous, InForce
<1>3. t = [s EXCEPT !.pending = q]
  BY DEF Begin
<1> HIDE DEF q
<1>4. /\ t.files = s.files /\ t.run = s.run /\ t.slots = s.slots /\ t.log = s.log
      /\ t.network = s.network /\ t.pending = q
  BY <1>3, Parts DEF State
<1> HIDE DEF t
<1> QED BY <1>1, <1>2, <1>4, AbsenceAssumption DEF t

\* activate_session, while no session is on trial: a new one begins, or is committed at
\* once, or the old pair is in force again with the version that ran it.  A pair it
\* reports as ready is in force for good.
LEMMA ActivateMoves ==
  ASSUME NEW s, Sound(s), s.pending = None, NEW c \in Configs, NEW p \in Plans,
         NEW t \in ActivateSession(s, c, p)
  PROVE  /\ Move(s, t) /\ Silent(s, t) /\ Honest(t)
         /\ RunsIn(s, s.slots.active) => RunsIn(t, s.slots.active)
         /\ t.log.told # None => t.pending = None
         /\ t.log.told \in {None, <<c, p>>}
         /\ InForce(t) = InForce(s) \/ InForce(t) \in Configs \X Plans \/ "write" \in Faults
         /\ Dark(s) => Dark(t) /\ t.pending = None
<1>1. \/ s.files.cfg = c /\ s.files.plan = p /\ t = Tell(s, <<c, p>>)
      \/ t = Refused(s)
      \/ Activatable(s, c, p) /\ t \in SwitchSession(s, c, p)
  BY MayOf DEF ActivateSession
<1>2. CASE \/ s.files.cfg = c /\ s.files.plan = p /\ t = Tell(s, <<c, p>>)
           \/ t = Refused(s)
  <2>1. Kin(s, t) /\ Silent(s, t) /\ t.run = s.run /\ t.log.told \in {None, InForce(s)}
    BY <1>2, TellOnly, RefusedMoves DEF InForce
  <2>2. /\ Move(s, t) /\ t.pending = None /\ Honest(t) /\ InForce(t) = InForce(s)
        /\ t.log.told \in {None, <<c, p>>}
    BY <1>2, <2>1, KinStays, RefusedMoves DEF Kin, Honest, InForce
  <2> QED BY <2>1, <2>2 DEF RunsIn, Dark, Silent
<1>3. CASE Activatable(s, c, p) /\ t \in SwitchSession(s, c, p)
  <2>1. /\ s.files.cfgIn \in Configs /\ s.files.planIn \in Plans
        /\ s.files.cfgStaged = c /\ s.files.planStaged = p
        /\ s.slots.active \in Versions
    BY <1>3, Parts DEF Activatable, Slots, Opt
  <2>2. PICK stop \in Stop(s) :
          t \in IF ~stop.ok THEN {Refused(stop.s)}
                ELSE UNION {IF u.ok
                            THEN UNION {Answer(z, c, p) :
                                          z \in Progress(Begin(u.s, s, c, p))}
                            ELSE {Refused(z) : z \in Undo(u.s, s)} :
                              u \in StartCandidate(stop.s)}
    BY <1>3 DEF SwitchSession
  <2>3. /\ Sound(stop.s) /\ Quiet(stop.s) /\ OnlyRun(s, stop.s)
        /\ Dark(s) => Dark(stop.s)
        /\ RunsIn(stop.s, s.slots.active)
    BY StopSound, StopEnds
  <2>4. Kin(s, stop.s) /\ Silent(s, stop.s)
    BY <2>3, OnlyRunKin
  <2>5. CASE t = Refused(stop.s)
    <3>1. /\ Kin(stop.s, t) /\ Silent(stop.s, t) /\ t.run = stop.s.run /\ Honest(t)
          /\ t.log.told = None
          /\ Move(s, t)
      BY <2>3, <2>4, <2>5, KinStays, RefusedMoves
    <3>2. InForce(t) = InForce(s)
      BY <2>4, <3>1 DEF Kin, InForce
    <3> QED BY <2>3, <2>4, <3>1, <3>2 DEF Silent, Kin, RunsIn, Dark
  <2>6. CASE t # Refused(stop.s)
    <3>1. PICK u \in StartCandidate(stop.s) :
            t \in IF u.ok
                  THEN UNION {Answer(z, c, p) : z \in Progress(Begin(u.s, s, c, p))}
                  ELSE {Refused(z) : z \in Undo(u.s, s)}
      BY <2>2, <2>6
    <3>2. /\ stop.s.files = s.files /\ stop.s.slots = s.slots /\ stop.s.log = s.log
          /\ stop.s.pending = None /\ stop.s.network = s.network
      BY <2>3 DEF OnlyRun
    <3>3. /\ Sound(u.s)
          /\ u.s.pending = None /\ u.s.slots = s.slots /\ u.s.log = s.log
          /\ u.s.network = s.network /\ Inbox(u.s) = Inbox(stop.s)
          /\ u.ok => /\ InForce(u.s) = <<s.files.cfgIn, s.files.planIn>>
                     /\ ~ChildFailed(u.s) /\ u.s.run.sb = s.slots.active
          /\ Dark(stop.s) => Dark(u.s) /\ ~u.ok
      BY <2>1, <2>3, <3>2, StartCandidateSound, StartCandidateMoves
    <3>4. Inbox(u.s) = Inbox(s)
      BY <3>2, <3>3 DEF Inbox
    <3>5. CASE u.ok
      <4> DEFINE b == Begin(u.s, s, c, p)
      <4>1. PICK z \in Progress(b) : t \in Answer(z, c, p)
        BY <3>1, <3>5
      <4>2. /\ Sound(b)
            /\ b.files = u.s.files /\ b.run = u.s.run /\ b.slots = s.slots /\ b.log = s.log
            /\ b.network = s.network
            /\ b.pending \in PendingSession /\ b.pending # None
            /\ Previous(b.pending) = InForce(s) /\ b.pending.version = s.slots.active
            /\ b.pending.cfg = c /\ b.pending.plan = p /\ ~b.pending.late
        <5>1. Sound(b)
          BY <2>1, <3>3, BeginSound
        <5> QED BY <2>1, <3>3, <5>1, BeginOnly
      <4> HIDE DEF b
      <4>3. InForce(b) = <<s.files.cfgIn, s.files.planIn>> /\ Inbox(b) = Inbox(s)
        BY <3>3, <3>4, <3>5, <4>2 DEF InForce, Inbox
      <4>4. ~GivenUp(b) /\ RunsIn(b, b.pending.version)
        BY <3>3, <3>5, <4>2 DEF GivenUp, ChildFailed, RunsIn
      <4>5. /\ Sound(z) /\ Aside(b, z) /\ Silent(b, z)
            /\ Stays(b, z) \/ (FilesMatch(b) /\ Commits(b, z))
            /\ RunsIn(z, s.slots.active)
        BY <4>1, <4>2, <4>4, ProgressSound, ProgressMoves
      <4>6. Aside(s, z) /\ Silent(s, z)
        BY <4>2, <4>3, <4>5 DEF Aside, Silent
      <4>7. ~Dark(s)
        BY <2>3, <3>3, <3>5
      <4>8. t = Refused(z) \/ (z.pending = None /\ t = Tell(z, <<c, p>>))
        BY <4>1 DEF Answer
      <4>9. CASE Stays(b, z)
        <5>1. z.pending = b.pending /\ InForce(z) = InForce(b) /\ Ledger(s, z)
          BY <4>2, <4>9 DEF Stays, Ledger
        <5>2. t = Refused(z)
          BY <4>2, <4>8, <5>1
        <5>3. Begins(s, z)
          BY <2>1, <4>2, <4>3, <5>1 DEF Begins
        <5>4. Move(s, z)
          BY <4>6, <5>3 DEF Move
        <5>5. /\ Move(s, t) /\ Silent(z, t) /\ Honest(t) /\ t.run = z.run
              /\ t.log.told = None /\ InForce(t) = InForce(z)
          BY <4>5, <5>2, <5>4, RefusedMoves DEF Kin, InForce
        <5>6. InForce(t) \in Configs \X Plans
          BY <2>1, <4>3, <5>1, <5>5
        <5> QED BY <4>5, <4>6, <4>7, <5>5, <5>6 DEF Silent, RunsIn
      <4>10. CASE FilesMatch(b) /\ Commits(b, z)
        <5>1. /\ z.pending = None /\ ~z.log.torn /\ z.log.committed = InForce(z)
              /\ InForce(z) = InForce(b)
          BY <4>2, <4>10 DEF Commits
        <5>2. InForce(b) = <<c, p>>
          BY <4>2, <4>10 DEF FilesMatch, InForce
        <5>3. Move(s, z)
          BY <4>6, <5>1 DEF Move, Ends, Commits
        <5>4. /\ Kin(z, t) /\ Silent(z, t) /\ t.run = z.run
              /\ t.log.told \in {None, <<c, p>>}
          BY <4>5, <4>8, TellOnly, RefusedMoves
        <5>5. Kin(s, s)
          BY DEF Kin, Ledger
        <5>6. Move(s, t) /\ t.pending = None /\ Honest(t)
          BY <5>1, <5>2, <5>3, <5>4, <5>5, KinMove DEF Honest, Kin, InForce
        <5>7. InForce(t) = <<c, p>>
          BY <5>1, <5>2, <5>4 DEF Kin, InForce
        <5> QED BY <4>5, <4>6, <4>7, <5>4, <5>6, <5>7 DEF Silent, RunsIn
      <4> QED BY <4>5, <4>9, <4>10
    <3>6. CASE ~u.ok
      <4>1. PICK z \in Undo(u.s, s) : t = Refused(z)
        BY <3>1, <3>6
      <4>2. /\ Sound(z) /\ Restored(u.s, z, s.files.cfg, s.files.plan)
            /\ Inbox(z) = Inbox(s) /\ Silent(u.s, z)
            /\ RunsIn(z, s.slots.active)
            /\ Dark(u.s) => Dark(z)
        BY <3>3, <3>4, UndoSound, UndoMoves
      <4>3. Stays(s, z) \/ Tears(s, z)
        BY <3>3, <4>2 DEF Restored, Stays, Tears, Ledger, InForce
      <4>4. Move(s, z) /\ Silent(s, z) /\ z.pending = None
        BY <3>3, <4>2, <4>3 DEF Move, Aside, Ends, Restored, Silent
      <4>5. /\ Move(s, t) /\ Kin(z, t) /\ Silent(z, t) /\ Honest(t) /\ t.run = z.run
            /\ t.log.told = None
        BY <4>1, <4>2, <4>4, RefusedMoves
      <4>6. InForce(t) = InForce(s) \/ "write" \in Faults
        BY <4>3, <4>5 DEF Stays, Tears, Kin, InForce
      <4> QED BY <2>3, <3>3, <4>2, <4>4, <4>5, <4>6 DEF Silent, RunsIn, Dark, Kin
    <3> QED BY <3>5, <3>6
  <2> QED BY <2>5, <2>6
<1> QED BY <1>1, <1>2, <1>3

\* abort_pending_session_for_stop: nothing is restarted.
LEMMA AbortMoves ==
  ASSUME NEW s, Sound(s), NEW o \in AbortForStop(s)
  PROVE  /\ Aside(s, o.s) /\ Silent(s, o.s) /\ o.s.pending = None
         /\ Stays(s, o.s) \/ Returns(s, o.s) \/ Tears(s, o.s)
         /\ o.ok => o.s.run.sb = None /\ ~o.s.run.mitm /\ ~o.s.run.ready
         /\ Dark(s) => Dark(o.s)
         /\ \A v : RunsIn(o.s, v)
<1>1. CASE s.pending = None
  <2>1. /\ OnlyRun(s, o.s) /\ (Dark(s) => Dark(o.s))
        /\ o.ok => o.s.run.sb = None /\ ~o.s.run.mitm /\ ~o.s.run.ready
        /\ \A v : RunsIn(o.s, v)
    BY <1>1, StopEnds DEF AbortForStop
  <2> QED BY <1>1, <2>1, OnlyRunKin, KinStays DEF Kin
<1>2. CASE s.pending # None
  <2> DEFINE n == NotPending(s)
             c == s.pending.prevCfg
             p == s.pending.prevPlan
  <2>1. c \in Opt(Configs) /\ p \in Opt(Plans)
    BY <1>2, Parts DEF PendingSession, Opt
  <2>2. PICK back \in StopAndRestore(n, c, p) :
          o \in IF back.ok THEN {Done(Discard(back.s))} ELSE StopAndFail(Discard(back.s))
    BY <1>2 DEF AbortForStop
  <2>3. /\ Sound(n) /\ n.files = s.files /\ n.slots = s.slots /\ n.run = s.run
        /\ n.log = s.log /\ n.network = s.network /\ n.pending = None
    BY NotPendingSound, NotPendingOnly
  <2> HIDE DEF n, c, p
  <2>4. /\ Sound(back.s) /\ Quiet(back.s) /\ Restored(n, back.s, c, p) /\ Silent(n, back.s)
        /\ Dark(n) => Dark(back.s)
        /\ back.ok => back.s.run.sb = None /\ ~back.s.run.mitm /\ ~back.s.run.ready
    BY <2>1, <2>3, StopAndRestoreSound, StopAndRestoreOnly
  <2> DEFINE d == Discard(back.s)
  <2>5. /\ Sound(d) /\ InForce(d) = InForce(back.s) /\ Inbox(d) = Emptied /\ d.run = back.s.run
        /\ d.pending = back.s.pending /\ d.slots = back.s.slots /\ d.log = back.s.log
        /\ Silent(back.s, d)
    BY <2>4, DiscardSound, DiscardOnly
  <2> HIDE DEF d
  <2>6. \/ back.ok /\ o = Done(d)
        \/ \E stop \in Stop(d) : o = Failed(stop.s)
    BY <2>2 DEF d, StopAndFail
  <2>7. /\ OnlyRun(d, o.s) /\ (Dark(d) => Dark(o.s))
        /\ o.ok => back.ok /\ o.s = d
        /\ \A v : RunsIn(o.s, v)
    <3>1. CASE back.ok /\ o = Done(d)
      BY <2>4, <2>5, <3>1, OutcomeOf DEF OnlyRun, RunsIn
    <3>2. CASE \E stop \in Stop(d) : o = Failed(stop.s)
      BY <2>5, <3>2, StopEnds, OutcomeOf
    <3> QED BY <2>6, <3>1, <3>2
  <2>8. Restored(n, o.s, c, p)
    BY <2>4, <2>5, <2>7 DEF Restored, OnlyRun, Ledger, InForce
  <2>9. Returns(s, o.s) \/ Tears(s, o.s)
    BY <1>2, <2>8, ReturnsOrTears DEF n, c, p
  <2>10. Aside(s, o.s) /\ Silent(s, o.s)
    BY <2>3, <2>4, <2>5, <2>7, <2>8 DEF Aside, Silent, OnlyRun, Inbox, Restored
  <2>11. Dark(s) => Dark(o.s)
    BY <2>3, <2>4, <2>5, <2>7 DEF Dark, Silent
  <2> QED BY <2>4, <2>5, <2>7, <2>9, <2>10, <2>11 DEF Returns, Tears
<1> QED BY <1>1, <1>2

\* stop_runtime: no session is left on trial, nothing is restarted, and when it is
\* answered ok there is no data plane and no network to start one on.
LEMMA StopRuntimeMoves ==
  ASSUME NEW s, Sound(s), NEW t \in StopGuestRuntime(s)
  PROVE  /\ Move(s, t) /\ Honest(t) /\ t.log.told = None /\ t.pending = None
         /\ \A v : RunsIn(t, v)
         /\ t.log.stopped => s.log.stopped \/ Dark(t)
         /\ Dark(s) => Dark(t)
<1>1. PICK a \in AbortForStop(s) :
        t \in {IF a.ok /\ n.ok THEN [Refused(n.s) EXCEPT !.log.stopped = TRUE]
               ELSE Refused(n.s) : n \in StopNetworkForwarding(a.s)}
  BY DEF StopGuestRuntime
<1>2. PICK n \in StopNetworkForwarding(a.s) :
        t = IF a.ok /\ n.ok THEN [Refused(n.s) EXCEPT !.log.stopped = TRUE]
            ELSE Refused(n.s)
  BY <1>1
<1>3. /\ Sound(a.s) /\ Aside(s, a.s) /\ Silent(s, a.s) /\ a.s.pending = None
      /\ Stays(s, a.s) \/ Returns(s, a.s) \/ Tears(s, a.s)
      /\ a.ok => a.s.run.sb = None /\ ~a.s.run.mitm /\ ~a.s.run.ready
      /\ Dark(s) => Dark(a.s)
      /\ \A v : RunsIn(a.s, v)
  BY AbortForStopSound, AbortMoves
<1> DEFINE x == Disconnected(a.s)
<1>4. /\ Sound(x) /\ ~x.network
      /\ x.files = a.s.files /\ x.pending = a.s.pending /\ x.slots = a.s.slots
      /\ x.log = a.s.log /\ x.run = a.s.run
  BY <1>3, DisconnectedSound, Parts DEF State, Disconnected
<1> HIDE DEF x
<1>5. (n.ok /\ n.s = x) \/ (~n.ok /\ (n.s = x \/ n.s = a.s))
  BY <1>2, OutcomeOf, MayOf DEF StopNetworkForwarding, x
<1>6. /\ Sound(n.s) /\ Kin(a.s, n.s) /\ n.s.run = a.s.run
      /\ n.s.log.stopped = a.s.log.stopped
      /\ n.ok => ~n.s.network
      /\ Dark(a.s) => Dark(n.s)
  BY <1>3, <1>4, <1>5 DEF Kin, Ledger, Dark
<1> DEFINE r == Refused(n.s)
           l == [r.log EXCEPT !.stopped = TRUE]
<1>7. /\ Sound(r) /\ Kin(n.s, r) /\ Silent(n.s, r) /\ r.run = n.s.run
      /\ r.log.told = None
  BY <1>6, RefusedSound, RefusedMoves
<1>8. t = r \/ (a.ok /\ n.ok /\ t = [r EXCEPT !.log = l])
  BY <1>2
<1> HIDE DEF r
<1>9. r \in State /\ r.log \in History
  BY <1>7, Parts
<1>10. l.torn = r.log.torn /\ l.committed = r.log.committed /\ l.told = r.log.told
  BY <1>9 DEF History
<1> HIDE DEF l
<1>11. /\ Kin(r, t) /\ t.run = r.run /\ t.network = r.network /\ t.log.told = None
       /\ t.log.stopped => r.log.stopped \/ (a.ok /\ n.ok)
  <2>1. CASE t = r
    BY <1>7, <2>1 DEF Kin, Ledger
  <2>2. CASE a.ok /\ n.ok /\ t = [r EXCEPT !.log = l]
    <3>1. /\ t.files = r.files /\ t.run = r.run /\ t.pending = r.pending
          /\ t.slots = r.slots /\ t.network = r.network /\ t.log = l
      BY <1>9, <2>2 DEF State
    <3> QED BY <1>7, <1>10, <2>2, <3>1 DEF Kin, Ledger
  <2> QED BY <1>8, <2>1, <2>2
<1>12. Kin(a.s, t) /\ Kin(s, s) /\ t.run = a.s.run /\ t.network = n.s.network
  BY <1>6, <1>7, <1>11 DEF Kin, Ledger, Silent
<1>13. Move(s, t) /\ t.pending = None
  BY <1>3, <1>12, KinMove DEF Move, Ends, Kin
<1>14. t.log.stopped => s.log.stopped \/ Dark(t)
  BY <1>3, <1>6, <1>7, <1>11, <1>12 DEF Silent, Dark
<1>15. (\A v : RunsIn(t, v)) /\ (Dark(s) => Dark(t))
  BY <1>3, <1>6, <1>12 DEF RunsIn, Dark
<1> QED BY <1>11, <1>13, <1>14, <1>15 DEF Honest

\* An upload that is on record by its digest is the one in the inbox.
StagedIsWhole(s) ==
  /\ s.files.cfgIn \in Configs => s.files.cfgIn = s.files.cfgStaged
  /\ s.files.planIn \in Plans => s.files.planIn = s.files.planStaged

\* The uploads: only the inbox changes, and without a write that fails the digest is
\* the one of the upload.
LEMMA StagingOnly ==
  ASSUME NEW s, Sound(s), NEW t,
         (\E c \in Configs : t \in StageConfig(s, c))
           \/ (\E p \in Plans : t \in StageModulePlan(s, p))
  PROVE  /\ InForce(t) = InForce(s) /\ t.pending = s.pending /\ t.slots = s.slots
         /\ t.log = s.log /\ t.network = s.network /\ t.run = s.run
         /\ "write" \notin Faults /\ StagedIsWhole(s) => StagedIsWhole(t)
<1>1. s \in State /\ s.files \in Files
  BY Parts
<1>2. ASSUME NEW f, t = [s EXCEPT !.files = f], f.cfg = s.files.cfg, f.plan = s.files.plan
      PROVE  /\ InForce(t) = InForce(s) /\ t.pending = s.pending /\ t.slots = s.slots
             /\ t.log = s.log /\ t.network = s.network /\ t.run = s.run
             /\ t.files = f
  BY <1>1, <1>2 DEF State, InForce
<1>3. CASE \E c \in Configs : t \in StageConfig(s, c)
  <2>1. PICK c \in Configs : t \in StageConfig(s, c)
    BY <1>3
  <2> DEFINE f1 == [s.files EXCEPT !.cfgIn = c, !.cfgStaged = c]
             f2 == [s.files EXCEPT !.cfgIn = c]
             f3 == [s.files EXCEPT !.cfgIn = Partial]
             f4 == [s.files EXCEPT !.cfgIn = None]
  <2>2. \/ t = [s EXCEPT !.files = f1]
        \/ "write" \in Faults /\ t = [s EXCEPT !.files = f2]
        \/ t = [s EXCEPT !.files = f3]
        \/ t = [s EXCEPT !.files = f4]
    BY <2>1 DEF StageConfig, May
  <2>3. /\ f1.cfg = s.files.cfg /\ f1.plan = s.files.plan
        /\ f1.cfgIn = f1.cfgStaged
        /\ f1.planIn = s.files.planIn /\ f1.planStaged = s.files.planStaged
        /\ f2.cfg = s.files.cfg /\ f2.plan = s.files.plan
    BY <1>1 DEF Files
  <2>4. /\ f3.cfg = s.files.cfg /\ f3.plan = s.files.plan /\ f3.cfgIn \notin Configs
        /\ f3.planIn = s.files.planIn /\ f3.planStaged = s.files.planStaged
        /\ f4.cfg = s.files.cfg /\ f4.plan = s.files.plan /\ f4.cfgIn \notin Configs
        /\ f4.planIn = s.files.planIn /\ f4.planStaged = s.files.planStaged
    BY <1>1, ConstantsAssumption DEF Files
  <2> HIDE DEF f1, f2, f3, f4
  <2>5. CASE t = [s EXCEPT !.files = f1]
    <3>1. t.files = f1
      BY <1>2, <2>3, <2>5
    <3>2. StagedIsWhole(s) => StagedIsWhole(t)
      BY <2>3, <3>1 DEF StagedIsWhole
    <3> QED BY <1>2, <2>3, <2>5, <3>2
  <2>6. CASE "write" \in Faults /\ t = [s EXCEPT !.files = f2]
    BY <1>2, <2>3, <2>6
  <2>7. CASE t = [s EXCEPT !.files = f3]
    <3>1. StagedIsWhole(s) => StagedIsWhole(t)
      BY <1>2, <2>4, <2>7 DEF StagedIsWhole
    <3> QED BY <1>2, <2>4, <2>7, <3>1
  <2>8. CASE t = [s EXCEPT !.files = f4]
    <3>1. StagedIsWhole(s) => StagedIsWhole(t)
      BY <1>2, <2>4, <2>8 DEF StagedIsWhole
    <3> QED BY <1>2, <2>4, <2>8, <3>1
  <2> QED BY <2>2, <2>5, <2>6, <2>7, <2>8
<1>4. CASE \E p \in Plans : t \in StageModulePlan(s, p)
  <2>1. PICK p \in Plans : t \in StageModulePlan(s, p)
    BY <1>4
  <2> DEFINE f1 == [s.files EXCEPT !.planIn = p, !.planStaged = p]
             f2 == [s.files EXCEPT !.planIn = p]
             f3 == [s.files EXCEPT !.planIn = Partial]
             f4 == [s.files EXCEPT !.planIn = None]
  <2>2. \/ t = [s EXCEPT !.files = f1]
        \/ "write" \in Faults /\ t = [s EXCEPT !.files = f2]
        \/ t = [s EXCEPT !.files = f3]
        \/ t = [s EXCEPT !.files = f4]
    BY <2>1 DEF StageModulePlan, May
  <2>3. /\ f1.cfg = s.files.cfg /\ f1.plan = s.files.plan
        /\ f1.planIn = f1.planStaged
        /\ f1.cfgIn = s.files.cfgIn /\ f1.cfgStaged = s.files.cfgStaged
        /\ f2.cfg = s.files.cfg /\ f2.plan = s.files.plan
    BY <1>1 DEF Files
  <2>4. /\ f3.cfg = s.files.cfg /\ f3.plan = s.files.plan /\ f3.planIn \notin Plans
        /\ f3.cfgIn = s.files.cfgIn /\ f3.cfgStaged = s.files.cfgStaged
        /\ f4.cfg = s.files.cfg /\ f4.plan = s.files.plan /\ f4.planIn \notin Plans
        /\ f4.cfgIn = s.files.cfgIn /\ f4.cfgStaged = s.files.cfgStaged
    BY <1>1, ConstantsAssumption DEF Files
  <2> HIDE DEF f1, f2, f3, f4
  <2>5. CASE t = [s EXCEPT !.files = f1]
    <3>1. t.files = f1
      BY <1>2, <2>3, <2>5
    <3>2. StagedIsWhole(s) => StagedIsWhole(t)
      BY <2>3, <3>1 DEF StagedIsWhole
    <3> QED BY <1>2, <2>3, <2>5, <3>2
  <2>6. CASE "write" \in Faults /\ t = [s EXCEPT !.files = f2]
    BY <1>2, <2>3, <2>6
  <2>7. CASE t = [s EXCEPT !.files = f3]
    <3>1. StagedIsWhole(s) => StagedIsWhole(t)
      BY <1>2, <2>4, <2>7 DEF StagedIsWhole
    <3> QED BY <1>2, <2>4, <2>7, <3>1
  <2>8. CASE t = [s EXCEPT !.files = f4]
    <3>1. StagedIsWhole(s) => StagedIsWhole(t)
      BY <1>2, <2>4, <2>8 DEF StagedIsWhole
    <3> QED BY <1>2, <2>4, <2>8, <3>1
  <2> QED BY <2>2, <2>5, <2>6, <2>7, <2>8
<1> QED BY <1>3, <1>4

\* stage_upgrade fills a slot; no pointer moves.
LEMMA StageUpgradeOnly ==
  ASSUME NEW s, Sound(s), NEW v \in Versions, NEW b \in Binaries, NEW t \in StageUpgrade(s, v, b)
  PROVE  /\ t.files = s.files /\ t.pending = s.pending /\ t.run = s.run /\ t.log = s.log
         /\ t.network = s.network
         /\ t.slots.active = s.slots.active /\ t.slots.previous = s.slots.previous
         /\ \A w \in Versions : t.slots.bin[w] \in {b, s.slots.bin[w]}
<1> DEFINE bin == [s.slots.bin EXCEPT ![v] = b]
           sl1 == [s.slots EXCEPT !.bin = bin, !.staged = <<v, b>>]
           sl2 == [s.slots EXCEPT !.bin = bin]
<1>1. t = [s EXCEPT !.slots = sl1] \/ t = [s EXCEPT !.slots = sl2]
  BY MayOf DEF StageUpgrade
<1>2. s \in State /\ s.slots \in Slots
  BY Parts
<1> HIDE DEF bin
<1>3. /\ sl1.bin = bin /\ sl1.active = s.slots.active /\ sl1.previous = s.slots.previous
      /\ sl2.bin = bin /\ sl2.active = s.slots.active /\ sl2.previous = s.slots.previous
  BY <1>2 DEF Slots
<1>4. \A w \in Versions : bin[w] \in {b, s.slots.bin[w]}
  BY <1>2 DEF Slots, bin
<1> HIDE DEF sl1, sl2
<1> QED BY <1>1, <1>2, <1>3, <1>4 DEF State

\* The way back of activate_upgrade and rollback restarts the active version.
LEMMA RecoverOnly ==
  ASSUME NEW s, Sound(s), NEW t \in Recover(s)
  PROVE  OnlyRun(s, t) /\ RunsIn(t, s.slots.active) /\ (Dark(s) => Dark(t))
<1>1. PICK stop \in Stop(s) :
        t \in IF stop.ok THEN After(Restart(stop.s, s.slots.active)) ELSE {stop.s}
  BY DEF Recover
<1>2. /\ Sound(stop.s) /\ Quiet(stop.s) /\ OnlyRun(s, stop.s)
      /\ Dark(s) => Dark(stop.s)
      /\ RunsIn(stop.s, s.slots.active)
      /\ s.slots.active \in Opt(Versions)
  BY StopSound, StopEnds, Parts DEF Slots
<1>3. CASE t = stop.s
  BY <1>2, <1>3
<1>4. CASE \E o \in Restart(stop.s, s.slots.active) : t = o.s
  <2>1. /\ OnlyRun(stop.s, t) /\ RunsIn(t, s.slots.active)
        /\ Dark(stop.s) => t = stop.s
    BY <1>2, <1>4, RestartOnly
  <2> QED BY <1>2, <2>1, RunTwice
<1> QED BY <1>1, <1>3, <1>4 DEF After

\* The pointers are written both, or not the active one.
LEMMA WritePointersOnly ==
  ASSUME NEW s, Sound(s), NEW current, NEW v, NEW o \in WritePointers(s, current, v)
  PROVE  /\ o.s.files = s.files /\ o.s.pending = s.pending /\ o.s.run = s.run
         /\ o.s.log = s.log /\ o.s.network = s.network
         /\ o.s.slots.bin = s.slots.bin
         /\ o.ok => o.s.slots.active = v /\ o.s.slots.previous = current
         /\ ~o.ok => /\ "write" \in Faults
                     /\ o.s.slots.active = s.slots.active
<1> DEFINE sl1 == [s.slots EXCEPT !.previous = current, !.active = v]
           sl2 == [s.slots EXCEPT !.previous = current]
<1>1. \/ o = Done([s EXCEPT !.slots = sl1])
      \/ "write" \in Faults /\ (o = Failed(s) \/ o = Failed([s EXCEPT !.slots = sl2]))
  BY DEF WritePointers, May
<1>2. s \in State /\ s.slots \in Slots
  BY Parts
<1>3. /\ sl1.bin = s.slots.bin /\ sl1.active = v /\ sl1.previous = current
      /\ sl2.bin = s.slots.bin /\ sl2.active = s.slots.active
  BY <1>2 DEF Slots
<1> HIDE DEF sl1, sl2
<1> QED BY <1>1, <1>2, <1>3, OutcomeOf DEF State

\* The exchange of one version for another: afterwards the version that runs is the
\* active one, the new or the old.
LEMMA SwitchVersionOnly ==
  ASSUME NEW s, Sound(s), NEW v \in Versions, NEW t \in SwitchVersion(s, v)
  PROVE  /\ t.files = s.files /\ t.pending = s.pending /\ t.log = s.log
         /\ t.network = s.network /\ t.slots.bin = s.slots.bin
         /\ RunsIn(t, t.slots.active)
         /\ Dark(s) => Dark(t)
         /\ \/ t.slots = s.slots
            \/ /\ s.slots.bin[v] # None
               /\ t.slots.active = v /\ t.slots.previous = s.slots.active
            \/ "write" \in Faults /\ t.slots.active = s.slots.active
<1>1. PICK stop \in Stop(s) :
        t \in IF ~stop.ok THEN {stop.s}
              ELSE UNION {IF ~u.ok THEN Recover(u.s)
                          ELSE UNION {IF w.ok THEN {w.s} ELSE Recover(w.s) :
                                        w \in WritePointers(u.s, s.slots.active, v)} :
                            u \in Start(stop.s, v)}
  BY DEF SwitchVersion
<1>2. /\ Sound(stop.s) /\ Quiet(stop.s) /\ OnlyRun(s, stop.s)
      /\ Dark(s) => Dark(stop.s)
      /\ RunsIn(stop.s, s.slots.active)
      /\ s.slots.active \in Opt(Versions)
  BY StopSound, StopEnds, Parts DEF Slots
<1>3. CASE t = stop.s
  BY <1>2, <1>3 DEF OnlyRun
<1>4. CASE t # stop.s
  <2>1. PICK u \in Start(stop.s, v) :
          t \in IF ~u.ok THEN Recover(u.s)
                ELSE UNION {IF w.ok THEN {w.s} ELSE Recover(w.s) :
                              w \in WritePointers(u.s, s.slots.active, v)}
    BY <1>1, <1>4
  <2>2. /\ Sound(u.s) /\ OnlyRun(stop.s, u.s)
        /\ u.ok => u.s.run.sb = v /\ stop.s.slots.bin[v] # None
        /\ Dark(stop.s) => u.s = stop.s /\ ~u.ok
    BY <1>2, StartSound, StartOnly
  <2>3. OnlyRun(s, u.s)
    BY <1>2, <2>2, RunTwice
  <2>4. CASE ~u.ok
    <3>1. OnlyRun(u.s, t) /\ RunsIn(t, u.s.slots.active) /\ (Dark(u.s) => Dark(t))
      BY <2>1, <2>2, <2>4, RecoverOnly
    <3> QED BY <1>2, <2>2, <2>3, <3>1 DEF OnlyRun
  <2>5. CASE u.ok
    <3>1. PICK w \in WritePointers(u.s, s.slots.active, v) :
            t \in IF w.ok THEN {w.s} ELSE Recover(w.s)
      BY <2>1, <2>5
    <3>2. /\ Sound(w.s) /\ w.s.files = u.s.files /\ w.s.pending = u.s.pending
          /\ w.s.run = u.s.run /\ w.s.log = u.s.log /\ w.s.network = u.s.network
          /\ w.s.slots.bin = u.s.slots.bin
          /\ w.ok => w.s.slots.active = v /\ w.s.slots.previous = s.slots.active
          /\ ~w.ok => /\ "write" \in Faults
                      /\ w.s.slots.active = u.s.slots.active
      BY <1>2, <2>2, WritePointersSound, WritePointersOnly
    <3>3. ~Dark(s) /\ s.slots.bin[v] # None
      BY <1>2, <2>2, <2>5 DEF OnlyRun
    <3>4. CASE w.ok
      BY <2>2, <2>3, <2>5, <3>1, <3>2, <3>3, <3>4 DEF OnlyRun, RunsIn
    <3>5. CASE ~w.ok
      <4>1. OnlyRun(w.s, t) /\ RunsIn(t, w.s.slots.active)
        BY <3>1, <3>2, <3>5, RecoverOnly
      <4> QED BY <2>3, <3>2, <3>3, <3>5, <4>1 DEF OnlyRun
    <3> QED BY <3>4, <3>5
  <2> QED BY <2>4, <2>5
<1> QED BY <1>3, <1>4

\* What a request to change the version leaves alone: it moves no session and tells
\* nothing.
VersionRequest(s, t) ==
  /\ t.files = s.files /\ t.pending = s.pending /\ Ledger(s, t) /\ Silent(s, t)
  /\ t.log.told = None
  /\ t.slots.bin = s.slots.bin
  /\ RunsIn(s, s.slots.active) => RunsIn(t, t.slots.active)
  /\ Dark(s) => Dark(t)

\* A request to run version v, once its checks are passed.
LEMMA VersionMoves ==
  ASSUME NEW s, Sound(s), NEW v \in Versions, NEW z \in SwitchVersion(s, v)
  PROVE  LET t == Refused(z) IN
         /\ VersionRequest(s, t)
         /\ \/ t.slots = s.slots
            \/ /\ s.slots.bin[v] # None
               /\ t.slots.active = v /\ t.slots.previous = s.slots.active
            \/ "write" \in Faults /\ t.slots.active = s.slots.active
<1> DEFINE t == Refused(z)
<1>1. /\ Sound(z)
      /\ z.files = s.files /\ z.pending = s.pending /\ z.log = s.log
      /\ z.network = s.network /\ z.slots.bin = s.slots.bin
      /\ RunsIn(z, z.slots.active)
      /\ Dark(s) => Dark(z)
      /\ \/ z.slots = s.slots
         \/ /\ s.slots.bin[v] # None
            /\ z.slots.active = v /\ z.slots.previous = s.slots.active
         \/ "write" \in Faults /\ z.slots.active = s.slots.active
  BY SwitchVersionSound, SwitchVersionOnly
<1>2. Kin(z, t) /\ Silent(z, t) /\ t.run = z.run /\ t.log.told = None
  BY <1>1, RefusedMoves
<1> HIDE DEF t
<1>3. RunsIn(t, t.slots.active) /\ (Dark(s) => Dark(t))
  BY <1>1, <1>2 DEF Kin, RunsIn, Dark, Silent
<1> QED BY <1>1, <1>2, <1>3 DEF VersionRequest, Kin, Ledger, Silent, t

\* A request to change the version that is refused at once.
LEMMA VersionRefused ==
  ASSUME NEW s, Sound(s)
  PROVE  VersionRequest(s, Refused(s)) /\ Refused(s).slots = s.slots
<1> DEFINE t == Refused(s)
<1>1. Kin(s, t) /\ Silent(s, t) /\ t.run = s.run /\ t.log.told = None
  BY RefusedMoves
<1> HIDE DEF t
<1> QED BY <1>1 DEF VersionRequest, Kin, RunsIn, Dark, Silent, t

\* activate_upgrade and rollback, with their checks.
LEMMA VersionRequests ==
  ASSUME NEW s, Sound(s), NEW t,
         \/ \E v \in Versions, b \in Binaries : t \in ActivateUpgrade(s, v, b)
         \/ t \in Rollback(s)
  PROVE  VersionRequest(s, t)
<1>1. \/ t = Refused(s)
      \/ \E v \in Versions : \E z \in SwitchVersion(s, v) : t = Refused(z)
  <2>1. CASE \E v \in Versions, b \in Binaries : t \in ActivateUpgrade(s, v, b)
    BY <2>1 DEF ActivateUpgrade
  <2>2. CASE t \in Rollback(s)
    <3>1. \/ t = Refused(s)
          \/ /\ s.slots.previous # None
             /\ \E z \in SwitchVersion(s, s.slots.previous) : t = Refused(z)
      BY <2>2 DEF Rollback
    <3>2. s.slots.previous \in Opt(Versions)
      BY Parts DEF Slots
    <3> QED BY <3>1, <3>2 DEF Opt
  <2> QED BY <2>1, <2>2
<1> QED BY <1>1, VersionMoves, VersionRefused

-------------------------------------------------------------------------------
(* What happens to the children between two requests.                      *)

\* The environment changes the children, or the deadline of the pending session passes.
LEMMA EnvironmentOnly ==
  ASSUME Sound(agent), Environment
  PROVE  /\ agent'.files = agent.files /\ agent'.slots = agent.slots
         /\ agent'.log = agent.log /\ agent'.network = agent.network
         /\ agent'.run.sb = agent.run.sb /\ agent'.run.mitm = agent.run.mitm
         /\ agent'.run.fault = agent.run.fault /\ agent'.run.ready = agent.run.ready
         /\ \/ agent'.pending = agent.pending
            \/ /\ agent.pending # None
               /\ agent'.pending = [agent.pending EXCEPT !.late = TRUE]
<1>1. agent \in State /\ agent.run \in Runtime
  BY SoundRun
<1>2. ASSUME NEW r, agent' = [agent EXCEPT !.run = r],
             r.sb = agent.run.sb, r.mitm = agent.run.mitm, r.fault = agent.run.fault,
             r.ready = agent.run.ready
      PROVE  /\ agent'.files = agent.files /\ agent'.slots = agent.slots
             /\ agent'.log = agent.log /\ agent'.network = agent.network
             /\ agent'.run.sb = agent.run.sb /\ agent'.run.mitm = agent.run.mitm
             /\ agent'.run.fault = agent.run.fault /\ agent'.run.ready = agent.run.ready
             /\ agent'.pending = agent.pending
  BY <1>1, <1>2 DEF State
<1>3. CASE ServicesAnswer
  <2> DEFINE r == [agent.run EXCEPT !.api = TRUE]
  <2>1. agent' = [agent EXCEPT !.run = r]
    BY <1>3 DEF ServicesAnswer
  <2>2. /\ r.sb = agent.run.sb /\ r.mitm = agent.run.mitm /\ r.fault = agent.run.fault
        /\ r.ready = agent.run.ready
    BY <1>1 DEF Runtime
  <2> HIDE DEF r
  <2> QED BY <1>2, <2>1, <2>2
<1>4. CASE ProbeFlaps
  <2> DEFINE r == [agent.run EXCEPT !.api = FALSE]
  <2>1. agent' = [agent EXCEPT !.run = r]
    BY <1>4 DEF ProbeFlaps
  <2>2. /\ r.sb = agent.run.sb /\ r.mitm = agent.run.mitm /\ r.fault = agent.run.fault
        /\ r.ready = agent.run.ready
    BY <1>1 DEF Runtime
  <2> HIDE DEF r
  <2> QED BY <1>2, <2>1, <2>2
<1>5. CASE SingBoxExits
  <2> DEFINE r == [agent.run EXCEPT !.sbUp = FALSE, !.api = FALSE]
  <2>1. agent' = [agent EXCEPT !.run = r]
    BY <1>5 DEF SingBoxExits
  <2>2. /\ r.sb = agent.run.sb /\ r.mitm = agent.run.mitm /\ r.fault = agent.run.fault
        /\ r.ready = agent.run.ready
    BY <1>1 DEF Runtime
  <2> HIDE DEF r
  <2> QED BY <1>2, <2>1, <2>2
<1>6. CASE MitmExits
  <2> DEFINE r == [agent.run EXCEPT !.mitmUp = FALSE, !.api = FALSE]
  <2>1. agent' = [agent EXCEPT !.run = r]
    BY <1>6 DEF MitmExits
  <2>2. /\ r.sb = agent.run.sb /\ r.mitm = agent.run.mitm /\ r.fault = agent.run.fault
        /\ r.ready = agent.run.ready
    BY <1>1 DEF Runtime
  <2> HIDE DEF r
  <2> QED BY <1>2, <2>1, <2>2
<1>7. CASE DeadlinePasses
  <2> DEFINE q == [agent.pending EXCEPT !.late = TRUE]
  <2>1. agent.pending # None /\ agent' = [agent EXCEPT !.pending = q]
    BY <1>7 DEF DeadlinePasses
  <2> HIDE DEF q
  <2> QED BY <1>1, <2>1 DEF State, q
<1>8. CASE BackoffElapses
  <2> DEFINE r == [agent.run EXCEPT !.backoff = FALSE]
  <2>1. agent' = [agent EXCEPT !.run = r]
    BY <1>8 DEF BackoffElapses
  <2>2. /\ r.sb = agent.run.sb /\ r.mitm = agent.run.mitm /\ r.fault = agent.run.fault
        /\ r.ready = agent.run.ready
    BY <1>1 DEF Runtime
  <2> HIDE DEF r
  <2> QED BY <1>2, <2>1, <2>2
<1> QED BY <1>3, <1>4, <1>5, <1>6, <1>7, <1>8 DEF Environment

-------------------------------------------------------------------------------
(* The promises, of one state, and the steps that keep them.               *)

\* An explicit stop that was answered ok left no data plane, no session on trial and no
\* network to start anything on.
Finished(s) == s.log.stopped => Dark(s) /\ s.pending = None

\* The committed pair is in force, or it is the way back.
Atomic(s) ==
  ~s.log.torn => IF s.pending = None THEN InForce(s) = s.log.committed
                 ELSE Previous(s.pending) = s.log.committed

\* What runs is the active version, and a session on trial goes back to it.
Steady(s) ==
  /\ RunsIn(s, s.slots.active)
  /\ s.pending # None => s.pending.version = s.slots.active

\* Both pointers name versions that are there, and they differ.
Usable(s) ==
  /\ s.slots.active # None /\ s.slots.bin[s.slots.active] # None
  /\ s.slots.previous # None => /\ s.slots.previous # s.slots.active
                                /\ s.slots.bin[s.slots.previous] # None

\* Where every write succeeds: no restore was torn, what is staged is what was sent, a
\* session on trial has the files it asked for, and a pair that was told is in force
\* for good.
Certain(s) ==
  /\ ~s.log.torn
  /\ StagedIsWhole(s)
  /\ s.pending # None => FilesMatch(s)
  /\ s.log.told # None => s.pending = None /\ s.log.told = InForce(s)

\* activate_session changes neither the network, nor the record of an explicit stop, nor
\* a version slot, whether or not another session is on trial.
LEMMA ActivateLeaves ==
  ASSUME NEW s, Sound(s), NEW c \in Configs, NEW p \in Plans,
         NEW t \in ActivateSession(s, c, p)
  PROVE  Silent(s, t) /\ t.slots = s.slots
<1>1. \/ t = Tell(s, <<c, p>>)
      \/ t = Refused(s)
      \/ Activatable(s, c, p) /\ t \in SwitchSession(s, c, p)
  BY MayOf DEF ActivateSession
<1>2. CASE t = Tell(s, <<c, p>>) \/ t = Refused(s)
  BY <1>2, TellOnly, RefusedMoves DEF Kin
<1>3. CASE Activatable(s, c, p) /\ t \in SwitchSession(s, c, p)
  <2>1. /\ s.files.cfgIn \in Configs /\ s.files.planIn \in Plans
        /\ s.slots.active \in Versions
    BY <1>3, Parts DEF Activatable, Slots, Opt
  <2>2. PICK stop \in Stop(s) :
          t \in IF ~stop.ok THEN {Refused(stop.s)}
                ELSE UNION {IF u.ok
                            THEN UNION {Answer(z, c, p) :
                                          z \in Progress(Begin(u.s, s, c, p))}
                            ELSE {Refused(z) : z \in Undo(u.s, s)} :
                              u \in StartCandidate(stop.s)}
    BY <1>3 DEF SwitchSession
  <2>3. /\ Sound(stop.s) /\ Quiet(stop.s) /\ OnlyRun(s, stop.s)
    BY StopSound, StopEnds
  <2>4. Silent(s, stop.s) /\ stop.s.slots = s.slots
    BY <2>3, OnlyRunKin DEF OnlyRun
  <2>5. CASE t = Refused(stop.s)
    <3>1. Silent(stop.s, t) /\ t.slots = stop.s.slots
      BY <2>3, <2>5, RefusedMoves DEF Kin
    <3> QED BY <2>4, <3>1 DEF Silent
  <2>6. CASE t # Refused(stop.s)
    <3>1. PICK u \in StartCandidate(stop.s) :
            t \in IF u.ok
                  THEN UNION {Answer(z, c, p) : z \in Progress(Begin(u.s, s, c, p))}
                  ELSE {Refused(z) : z \in Undo(u.s, s)}
      BY <2>2, <2>6
    <3>2. stop.s.files = s.files /\ stop.s.slots = s.slots
      BY <2>3 DEF OnlyRun
    <3>3. /\ Sound(u.s) /\ u.s.log = stop.s.log /\ u.s.network = stop.s.network
          /\ u.s.slots = s.slots
      BY <2>1, <2>3, <3>2, StartCandidateSound, StartCandidateMoves
    <3>4. \E z : /\ Sound(z) /\ Silent(u.s, z) /\ z.slots = s.slots
                 /\ t = Refused(z) \/ t = Tell(z, <<c, p>>)
      <4>1. CASE u.ok
        <5> DEFINE b == Begin(u.s, s, c, p)
        <5>1. PICK z \in Progress(b) : t \in Answer(z, c, p)
          BY <3>1, <4>1
        <5>2. Sound(b)
          BY <2>1, <3>3, BeginSound
        <5>3. b.log = u.s.log /\ b.network = u.s.network /\ b.slots = u.s.slots
          BY <2>1, <3>3, BeginOnly
        <5> HIDE DEF b
        <5>4. Sound(z) /\ Silent(u.s, z) /\ z.slots = s.slots
          BY <3>3, <5>1, <5>2, <5>3, ProgressSound, ProgressMoves DEF Silent, Aside
        <5> QED BY <5>1, <5>4 DEF Answer
      <4>2. CASE ~u.ok
        <5>1. PICK z \in Undo(u.s, s) : t = Refused(z)
          BY <3>1, <4>2
        <5> QED BY <3>3, <5>1, UndoSound, UndoMoves DEF Restored
      <4> QED BY <4>1, <4>2
    <3>5. PICK z : /\ Sound(z) /\ Silent(u.s, z) /\ z.slots = s.slots
                   /\ t = Refused(z) \/ t = Tell(z, <<c, p>>)
      BY <3>4
    <3>6. Silent(z, t) /\ t.slots = z.slots
      BY <3>5, TellOnly, RefusedMoves DEF Kin
    <3> QED BY <2>4, <3>3, <3>5, <3>6 DEF Silent
  <2> QED BY <2>5, <2>6
<1> QED BY <1>1, <1>2, <1>3

\* After an explicit stop no request and no timer brings anything back.
LEMMA FinishedStep ==
  ASSUME Sound(agent), Finished(agent), [Next]_agent
  PROVE  Finished(agent')
<1>1. CASE Status
  BY <1>1, StatusMoves DEF Status, Finished, Silent, Stays
<1>2. CASE SendConfig \/ SendPlan
  <2>1. agent'.pending = agent.pending /\ agent'.log = agent.log
        /\ agent'.network = agent.network /\ agent'.run = agent.run
    BY <1>2, StagingOnly DEF SendConfig, SendPlan
  <2> QED BY <2>1 DEF Finished, Dark
<1>3. CASE Activate
  BY <1>3, ActivateLeaves, ActivateMoves DEF Activate, Finished, Silent
<1>4. CASE StopRuntime
  BY <1>4, StopRuntimeMoves DEF StopRuntime, Finished
<1>5. CASE SendBinary
  <2>1. agent'.pending = agent.pending /\ agent'.log = agent.log
        /\ agent'.network = agent.network /\ agent'.run = agent.run
    <3>1. PICK v \in Versions, b \in Binaries : agent' \in StageUpgrade(agent, v, b)
      BY <1>5 DEF SendBinary
    <3> QED BY <3>1, StageUpgradeOnly
  <2> QED BY <2>1 DEF Finished, Dark
<1>6. CASE Upgrade \/ RollbackVersion
  <2>1. VersionRequest(agent, agent')
    BY <1>6, VersionRequests DEF Upgrade, RollbackVersion
  <2> QED BY <2>1 DEF VersionRequest, Finished, Silent
<1>7. CASE Environment
  BY <1>7, EnvironmentOnly DEF Finished, Dark
<1>8. CASE UNCHANGED agent
  BY <1>8 DEF Finished, Dark
<1> QED BY <1>1, <1>2, <1>3, <1>4, <1>5, <1>6, <1>7, <1>8 DEF Next, Requests

\* Every request is a move of the session, or leaves it and what was told alone.
LEMMA RequestMoves ==
  ASSUME ~Overlap, Sound(agent), [Next]_agent
  PROVE  \/ Move(agent, agent') /\ Honest(agent')
         \/ /\ InForce(agent') = InForce(agent) /\ Ledger(agent, agent')
            /\ agent'.log.told \in {agent.log.told, None}
            /\ \/ agent'.pending = agent.pending
               \/ /\ agent.pending # None
                  /\ agent'.pending = [agent.pending EXCEPT !.late = TRUE]
<1>1. CASE Status
  BY <1>1, StatusMoves DEF Status
<1>2. CASE SendConfig \/ SendPlan
  BY <1>2, StagingOnly DEF SendConfig, SendPlan, Ledger
<1>3. CASE Activate
  BY <1>3, ActivateMoves DEF Activate, Idle
<1>4. CASE StopRuntime
  BY <1>4, StopRuntimeMoves DEF StopRuntime
<1>5. CASE SendBinary
  <2>1. PICK v \in Versions, b \in Binaries : agent' \in StageUpgrade(agent, v, b)
    BY <1>5 DEF SendBinary
  <2> QED BY <2>1, StageUpgradeOnly DEF Ledger, InForce
<1>6. CASE Upgrade \/ RollbackVersion
  <2>1. VersionRequest(agent, agent')
    BY <1>6, VersionRequests DEF Upgrade, RollbackVersion
  <2> QED BY <2>1 DEF VersionRequest, InForce
<1>7. CASE Environment
  BY <1>7, EnvironmentOnly DEF Ledger, InForce
<1>8. CASE UNCHANGED agent
  BY <1>8 DEF Ledger, InForce
<1> QED BY <1>1, <1>2, <1>3, <1>4, <1>5, <1>6, <1>7, <1>8 DEF Next, Requests

\* The deadline changes neither the session on trial nor its way back.
LEMMA LateOnly ==
  ASSUME NEW q \in PendingSession
  PROVE  LET u == [q EXCEPT !.late = TRUE] IN
         /\ u \in PendingSession /\ u # None
         /\ Previous(u) = Previous(q) /\ u.version = q.version
         /\ u.cfg = q.cfg /\ u.plan = q.plan
<1> DEFINE u == [q EXCEPT !.late = TRUE]
<1>1. /\ u \in PendingSession
      /\ u.prevCfg = q.prevCfg /\ u.prevPlan = q.prevPlan /\ u.version = q.version
      /\ u.cfg = q.cfg /\ u.plan = q.plan
  BY DEF PendingSession
<1> HIDE DEF u
<1> QED BY <1>1, AbsenceAssumption DEF Previous, u

\* A move of the session keeps the committed pair in force or within reach.
LEMMA MoveAtomic ==
  ASSUME NEW s, NEW t, Atomic(s), Move(s, t)
  PROVE  Atomic(t)
<1>1. CASE Stays(s, t)
  BY <1>1 DEF Atomic, Stays, Ledger
<1>2. CASE Begins(s, t)
  <2>1. t.pending # None
    BY <1>2, AbsenceAssumption DEF Begins
  <2> QED BY <1>2, <2>1 DEF Atomic, Begins, Ledger
<1>3. CASE Commits(s, t)
  BY <1>3 DEF Atomic, Commits
<1>4. CASE Returns(s, t)
  BY <1>4 DEF Atomic, Returns, Ledger
<1>5. CASE Tears(s, t)
  BY <1>5 DEF Atomic, Tears
<1> QED BY <1>1, <1>2, <1>3, <1>4, <1>5 DEF Move, Ends

\* Both files change, or neither.
LEMMA AtomicStep ==
  ASSUME ~Overlap, Sound(agent), Atomic(agent), [Next]_agent
  PROVE  Atomic(agent')
<1>1. CASE Move(agent, agent')
  BY <1>1, MoveAtomic
<1>2. CASE /\ InForce(agent') = InForce(agent) /\ Ledger(agent, agent')
           /\ agent'.pending = agent.pending
  BY <1>2 DEF Atomic, Ledger
<1>3. CASE /\ InForce(agent') = InForce(agent) /\ Ledger(agent, agent')
           /\ agent.pending # None
           /\ agent'.pending = [agent.pending EXCEPT !.late = TRUE]
  <2>1. agent.pending \in PendingSession
    BY <1>3, Parts DEF Opt
  <2>2. agent'.pending # None /\ Previous(agent'.pending) = Previous(agent.pending)
    BY <1>3, <2>1, LateOnly
  <2> QED BY <1>3, <2>2 DEF Atomic, Ledger
<1> QED BY <1>1, <1>2, <1>3, RequestMoves

\* What runs is the active version, after every step.
LEMMA SteadyStep ==
  ASSUME ~Overlap, Sound(agent), Steady(agent), [Next]_agent
  PROVE  Steady(agent')
<1>1. ASSUME Aside(agent, agent'),
             Stays(agent, agent') \/ Begins(agent, agent') \/ Ends(agent, agent')
      PROVE  /\ agent'.slots = agent.slots
             /\ agent'.pending # None => agent'.pending.version = agent'.slots.active
  <2>1. Ends(agent, agent') => agent'.pending = None
    BY DEF Ends, Commits, Returns, Tears
  <2> QED BY <1>1, <2>1 DEF Steady, Aside, Stays, Begins
<1>2. CASE Status
  <2>1. /\ Move(agent, agent')
        /\ RunsIn(agent', agent.slots.active)
    BY <1>2, StatusMoves DEF Status, Steady
  <2> QED BY <1>1, <2>1 DEF Steady, Move
<1>3. CASE SendConfig \/ SendPlan
  <2>1. agent'.pending = agent.pending /\ agent'.slots = agent.slots
        /\ agent'.run = agent.run
    BY <1>3, StagingOnly DEF SendConfig, SendPlan
  <2> QED BY <2>1 DEF Steady, RunsIn
<1>4. CASE Activate
  <2>1. /\ Move(agent, agent')
        /\ RunsIn(agent', agent.slots.active)
    BY <1>4, ActivateMoves DEF Activate, Idle, Steady
  <2> QED BY <1>1, <2>1 DEF Steady, Move
<1>5. CASE StopRuntime
  <2>1. agent'.pending = None /\ \A v : RunsIn(agent', v)
    BY <1>5, StopRuntimeMoves DEF StopRuntime
  <2> QED BY <2>1 DEF Steady
<1>6. CASE SendBinary
  <2>1. agent'.pending = agent.pending /\ agent'.slots.active = agent.slots.active
        /\ agent'.run = agent.run
    <3>1. PICK v \in Versions, b \in Binaries : agent' \in StageUpgrade(agent, v, b)
      BY <1>6 DEF SendBinary
    <3> QED BY <3>1, StageUpgradeOnly
  <2> QED BY <2>1 DEF Steady, RunsIn
<1>7. CASE Upgrade \/ RollbackVersion
  <2>1. VersionRequest(agent, agent') /\ agent.pending = None
    BY <1>7, VersionRequests DEF Upgrade, RollbackVersion, Idle
  <2> QED BY <2>1 DEF VersionRequest, Steady
<1>8. CASE Environment
  <2>1. /\ agent'.slots = agent.slots
        /\ agent'.run.sb = agent.run.sb /\ agent'.run.fault = agent.run.fault
        /\ \/ agent'.pending = agent.pending
           \/ /\ agent.pending # None
              /\ agent'.pending = [agent.pending EXCEPT !.late = TRUE]
    BY <1>8, EnvironmentOnly
  <2>2. agent.pending # None => agent.pending \in PendingSession
    BY Parts DEF Opt
  <2>3. agent'.pending # None => agent.pending # None
                                 /\ agent'.pending.version = agent.pending.version
    BY <2>1, <2>2, LateOnly
  <2> QED BY <2>1, <2>3 DEF Steady, RunsIn
<1>9. CASE UNCHANGED agent
  BY <1>9 DEF Steady, RunsIn
<1> QED BY <1>2, <1>3, <1>4, <1>5, <1>6, <1>7, <1>8, <1>9 DEF Next, Requests

\* The slots the pointers name hold a binary, and they differ.
LEMMA UsableStep ==
  ASSUME ~ReuseVersions, "write" \notin Faults, Sound(agent), Usable(agent), [Next]_agent
  PROVE  Usable(agent')
<1>1. CASE agent'.slots = agent.slots
  BY <1>1 DEF Usable
<1>2. ASSUME NEW v \in Versions, v # agent.slots.active,
             NEW z \in SwitchVersion(agent, v), agent' = Refused(z)
      PROVE  Usable(agent')
  <2>1. /\ agent'.slots.bin = agent.slots.bin
        /\ \/ agent'.slots = agent.slots
           \/ /\ agent.slots.bin[v] # None
              /\ agent'.slots.active = v /\ agent'.slots.previous = agent.slots.active
    BY <1>2, VersionMoves DEF VersionRequest
  <2>2. v # None
    BY ConstantsAssumption
  <2> QED BY <1>1, <1>2, <2>1, <2>2 DEF Usable
<1>3. CASE Status
  BY <1>1, <1>3, StatusMoves DEF Status, Move, Aside
<1>4. CASE SendConfig \/ SendPlan
  BY <1>1, <1>4, StagingOnly DEF SendConfig, SendPlan
<1>5. CASE Activate
  BY <1>1, <1>5, ActivateLeaves DEF Activate
<1>6. CASE StopRuntime
  BY <1>1, <1>6, StopRuntimeMoves DEF StopRuntime, Move, Aside
<1>7. CASE SendBinary
  <2>1. PICK v \in Versions, b \in Binaries : agent' \in StageUpgrade(agent, v, b)
    BY <1>7 DEF SendBinary
  <2>2. /\ agent'.slots.active = agent.slots.active
        /\ agent'.slots.previous = agent.slots.previous
        /\ \A w \in Versions : agent'.slots.bin[w] \in {b, agent.slots.bin[w]}
    BY <2>1, StageUpgradeOnly
  <2>3. b # None
    BY ConstantsAssumption
  <2>4. /\ agent.slots.active \in Opt(Versions) /\ agent.slots.previous \in Opt(Versions)
    BY Parts DEF Slots
  <2>5. ASSUME NEW w \in Versions, agent.slots.bin[w] # None
        PROVE  agent'.slots.bin[w] # None
    BY <2>2, <2>3, <2>5
  <2> QED BY <2>2, <2>4, <2>5 DEF Usable, Opt
<1>8. CASE Upgrade
  <2>1. PICK v \in Versions, b \in Binaries :
          v # agent.slots.active /\ agent' \in ActivateUpgrade(agent, v, b)
    BY <1>8 DEF Upgrade
  <2>2. \/ agent' = Refused(agent)
        \/ \E z \in SwitchVersion(agent, v) : agent' = Refused(z)
    BY <2>1 DEF ActivateUpgrade
  <2> QED BY <1>1, <1>2, <2>1, <2>2, VersionRefused
<1>9. CASE RollbackVersion
  <2>1. \/ agent' = Refused(agent)
        \/ /\ agent.slots.previous # None
           /\ \E z \in SwitchVersion(agent, agent.slots.previous) : agent' = Refused(z)
    BY <1>9 DEF RollbackVersion, Rollback
  <2>2. agent.slots.previous # None => /\ agent.slots.previous \in Versions
                                       /\ agent.slots.previous # agent.slots.active
    BY Parts DEF Slots, Opt, Usable
  <2> QED BY <1>1, <1>2, <2>1, <2>2, VersionRefused
<1>10. CASE Environment
  BY <1>1, <1>10, EnvironmentOnly
<1>11. CASE UNCHANGED agent
  BY <1>1, <1>11
<1> QED BY <1>3, <1>4, <1>5, <1>6, <1>7, <1>8, <1>9, <1>10, <1>11 DEF Next, Requests

\* A move keeps certainty, when every write succeeds.
LEMMA MoveCertain ==
  ASSUME NEW s, NEW t, "write" \notin Faults, Certain(s), Move(s, t), Honest(t),
         t.log.told # None => t.pending = None
  PROVE  Certain(t)
<1>1. t.log.told # None => t.pending = None /\ t.log.told = InForce(t)
  BY DEF Honest
<1>2. StagedIsWhole(t)
  <2>1. CASE Inbox(t) = Inbox(s)
    BY <2>1 DEF Inbox, StagedIsWhole, Certain
  <2>2. CASE Inbox(t) = Emptied
    BY <2>2, ConstantsAssumption DEF Inbox, Emptied, StagedIsWhole
  <2> QED BY <2>1, <2>2 DEF Move, Aside
<1>3. ~t.log.torn
  BY DEF Certain, Move, Ends, Stays, Begins, Commits, Returns, Tears, Ledger
<1>4. t.pending # None => FilesMatch(t)
  <2>1. CASE Stays(s, t)
    BY <2>1 DEF Stays, Certain, FilesMatch, InForce
  <2>2. CASE Begins(s, t)
    BY <2>2 DEF Begins, Certain, StagedIsWhole, FilesMatch, InForce
  <2>3. CASE Ends(s, t)
    BY <2>3 DEF Ends, Commits, Returns, Tears
  <2> QED BY <2>1, <2>2, <2>3 DEF Move
<1> QED BY <1>1, <1>2, <1>3, <1>4 DEF Certain

\* What is told as ready is in force for good, after every step.
LEMMA CertainStep ==
  ASSUME ~Overlap, Faults \cap {"write", "flap"} = {},
         Sound(agent), Certain(agent), [Next]_agent
  PROVE  Certain(agent')
<1>1. "write" \notin Faults
  OBVIOUS
<1>2. CASE Status
  <2>1. agent.pending # None => FilesMatch(agent)
    BY DEF Certain
  <2>2. /\ Move(agent, agent') /\ Honest(agent')
        /\ agent'.log.told # None => agent'.pending = None
    BY <1>2, <2>1, StatusMoves DEF Status
  <2> QED BY <1>1, <2>2, MoveCertain
<1>3. CASE SendConfig \/ SendPlan
  <2>1. /\ InForce(agent') = InForce(agent) /\ agent'.pending = agent.pending
        /\ agent'.log = agent.log /\ StagedIsWhole(agent')
    BY <1>1, <1>3, StagingOnly DEF SendConfig, SendPlan, Certain
  <2> QED BY <2>1 DEF Certain, InForce, FilesMatch
<1>4. CASE Activate
  <2>1. /\ Move(agent, agent') /\ Honest(agent')
        /\ agent'.log.told # None => agent'.pending = None
    BY <1>4, ActivateMoves DEF Activate, Idle
  <2> QED BY <1>1, <2>1, MoveCertain
<1>5. CASE StopRuntime
  <2>1. Move(agent, agent') /\ Honest(agent') /\ agent'.pending = None
    BY <1>5, StopRuntimeMoves DEF StopRuntime
  <2> QED BY <1>1, <2>1, MoveCertain
<1>6. CASE SendBinary
  <2>1. PICK v \in Versions, b \in Binaries : agent' \in StageUpgrade(agent, v, b)
    BY <1>6 DEF SendBinary
  <2>2. /\ agent'.files = agent.files /\ agent'.pending = agent.pending
        /\ agent'.log = agent.log
    BY <2>1, StageUpgradeOnly
  <2> QED BY <2>2 DEF Certain, StagedIsWhole, FilesMatch, InForce
<1>7. CASE Upgrade \/ RollbackVersion
  <2>1. VersionRequest(agent, agent')
    BY <1>7, VersionRequests DEF Upgrade, RollbackVersion
  <2> QED BY <2>1 DEF VersionRequest, Ledger, Certain, StagedIsWhole, FilesMatch
<1>8. CASE Environment
  <2>1. /\ agent'.files = agent.files /\ agent'.log = agent.log
        /\ \/ agent'.pending = agent.pending
           \/ /\ agent.pending # None
              /\ agent'.pending = [agent.pending EXCEPT !.late = TRUE]
    BY <1>8, EnvironmentOnly
  <2>2. agent.pending # None => agent.pending \in PendingSession
    BY Parts DEF Opt
  <2>3. agent'.pending # None => /\ agent.pending # None
                                 /\ agent'.pending.cfg = agent.pending.cfg
                                 /\ agent'.pending.plan = agent.pending.plan
    BY <2>1, <2>2, LateOnly
  <2>4. agent.pending = None => agent'.pending = None
    BY <2>1
  <2> QED BY <2>1, <2>3, <2>4 DEF Certain, StagedIsWhole, FilesMatch, InForce
<1>9. CASE UNCHANGED agent
  BY <1>9 DEF Certain, StagedIsWhole, FilesMatch, InForce
<1> QED BY <1>2, <1>3, <1>4, <1>5, <1>6, <1>7, <1>8, <1>9 DEF Next, Requests

\* The state in which the agent boots.
LEMMA BootedHolds ==
  /\ Finished(Booted) /\ Atomic(Booted) /\ Steady(Booted) /\ Usable(Booted)
  /\ Certain(Booted)
<1>1. /\ ~Booted.log.stopped /\ Booted.pending = None /\ Booted.run.sb = None
      /\ Booted.log.committed = InForce(Booted) /\ ~Booted.log.torn /\ Booted.log.told = None
  BY DEF Booted, InForce
<1>2. Booted.slots.active = BootVersion /\ Booted.slots.previous = None
      /\ Booted.slots.bin[BootVersion] = BootBinary
  BY ConstantsAssumption DEF Booted
<1>3. Booted.files.cfgIn = None /\ Booted.files.planIn = None
  BY DEF Booted
<1>4. StagedIsWhole(Booted)
  BY <1>3, ConstantsAssumption DEF StagedIsWhole
<1>5. Usable(Booted)
  BY <1>2, ConstantsAssumption DEF Usable
<1> QED BY <1>1, <1>4, <1>5 DEF Finished, Atomic, Steady, RunsIn, Certain

\* What SessionStore sees of a session on trial.
WayBack(s) == IF s.pending = None THEN None ELSE Previous(s.pending)

\* A step of the agent is a step of SessionStore, or changes nothing it sees.
LEMMA SessionStep ==
  ASSUME ~Overlap, Sound(agent), Sound(agent'), [Next]_agent
  PROVE  [Sessions!Next]_(Sessions!vars)
<1> DEFINE force == InForce(agent)
           forced == InForce(agent')
<1>1. /\ forced \in Pair /\ force \in Pair
      /\ agent.log.torn \in BOOLEAN /\ agent'.log.torn \in BOOLEAN
  BY Parts DEF InForce, Pair, Files, History
<1>2. /\ agent.pending # None => agent.pending \in PendingSession
      /\ agent'.pending # None => agent'.pending \in PendingSession
  BY Parts DEF Opt
<1>3. ASSUME NEW q \in PendingSession PROVE Previous(q) # None
  <2>1. Previous(q) \in Pair
    BY DEF Previous, Pair, PendingSession
  <2> QED BY <2>1, AbsenceAssumption
<1>4. /\ Sessions!vars = <<force, WayBack(agent), agent.log.torn, agent.log.told>>
      /\ Sessions!vars' = <<forced, WayBack(agent'), agent'.log.torn, agent'.log.told>>
  BY DEF Sessions!vars, InForce, WayBack, Previous
<1>5. CASE Move(agent, agent') /\ Honest(agent')
  <2>1. agent'.log.told \in {None, forced}
    BY <1>5 DEF Honest
  <2>2. Sessions!Report
    BY <2>1 DEF Sessions!Report, InForce
  <2>3. CASE Stays(agent, agent')
    <3>1. /\ forced = force /\ WayBack(agent') = WayBack(agent)
          /\ agent'.log.torn = agent.log.torn
      BY <2>3 DEF Stays, Ledger, WayBack
    <3>2. Sessions!Answer
      BY <2>2, <3>1 DEF Sessions!Answer, InForce, WayBack, Previous
    <3> QED BY <3>2 DEF Sessions!Next
  <2>4. CASE Begins(agent, agent')
    <3>1. /\ WayBack(agent) = None /\ WayBack(agent') = force
          /\ agent'.log.torn = agent.log.torn
      BY <2>4, AbsenceAssumption DEF Begins, Ledger, WayBack
    <3>2. Sessions!Begin
      BY <1>1, <2>2, <3>1 DEF Sessions!Begin, InForce, WayBack, Previous
    <3> QED BY <3>2 DEF Sessions!Next
  <2>5. CASE Commits(agent, agent')
    <3>1. WayBack(agent') = None /\ agent'.log.torn = FALSE
      BY <1>1, <2>5 DEF Commits, WayBack
    <3>2. CASE agent.pending = None
      <4>1. WayBack(agent) = None
        BY <3>2 DEF WayBack
      <4>2. Sessions!Switch
        BY <1>1, <2>2, <3>1, <4>1 DEF Sessions!Switch, InForce, WayBack, Previous
      <4> QED BY <4>2 DEF Sessions!Next
    <3>3. CASE agent.pending # None
      <4>1. WayBack(agent) # None /\ forced = force
        BY <1>2, <1>3, <2>5, <3>3 DEF Commits, WayBack
      <4>2. Sessions!Commit
        BY <1>1, <2>2, <3>1, <4>1 DEF Sessions!Commit, InForce, WayBack, Previous
      <4> QED BY <4>2 DEF Sessions!Next
    <3> QED BY <3>2, <3>3
  <2>6. CASE Returns(agent, agent')
    <3>1. /\ WayBack(agent) # None /\ WayBack(agent') = None /\ forced = WayBack(agent)
          /\ agent'.log.torn = agent.log.torn
      BY <1>2, <1>3, <2>6 DEF Returns, Ledger, WayBack
    <3>2. Sessions!Abandon
      BY <1>1, <2>2, <3>1 DEF Sessions!Abandon, InForce, WayBack, Previous
    <3> QED BY <3>2 DEF Sessions!Next
  <2>7. CASE Tears(agent, agent')
    <3>1. WayBack(agent') = None /\ agent'.log.torn = TRUE
      BY <1>1, <2>7 DEF Tears, WayBack
    <3>2. Sessions!Tear
      BY <1>1, <2>2, <3>1 DEF Sessions!Tear, InForce, WayBack, Previous
    <3> QED BY <3>2 DEF Sessions!Next
  <2> QED BY <1>5, <2>3, <2>4, <2>5, <2>6, <2>7 DEF Move, Ends
<1>6. CASE /\ forced = force /\ Ledger(agent, agent')
           /\ agent'.log.told \in {agent.log.told, None}
           /\ \/ agent'.pending = agent.pending
              \/ /\ agent.pending # None
                 /\ agent'.pending = [agent.pending EXCEPT !.late = TRUE]
  <2>1. WayBack(agent') = WayBack(agent)
    BY <1>2, <1>6, LateOnly DEF WayBack
  <2>2. agent'.log.torn = agent.log.torn
    BY <1>6 DEF Ledger
  <2>3. CASE agent'.log.told = agent.log.told
    BY <1>4, <1>6, <2>1, <2>2, <2>3
  <2>4. CASE agent'.log.told = None
    <3>1. Sessions!Report
      BY <2>4 DEF Sessions!Report
    <3>2. Sessions!Answer
      BY <1>6, <2>1, <2>2, <3>1 DEF Sessions!Answer, InForce, WayBack, Previous
    <3> QED BY <3>2 DEF Sessions!Next
  <2> QED BY <1>6, <2>3, <2>4
<1> QED BY <1>5, <1>6, RequestMoves

-------------------------------------------------------------------------------
(* The theorems.                                                           *)

\* After a stop_runtime that was answered ok, no request, retry, rollback or timer of
\* this boot starts a data plane again or leaves a session on trial: whatever fails and
\* however the requests overlap.
THEOREM StopIsFinal == Spec => []ExplicitStopIsFinal
<1> DEFINE I == Finished(agent)
<1>1. Init => I
  BY BootedHolds DEF Init
<1>2. AgentSound /\ I /\ [Next]_agent => I'
  BY FinishedStep DEF AgentSound
<1>3. I => ExplicitStopIsFinal
  BY DEF Finished, Dark, ExplicitStopIsFinal
<1> QED BY <1>1, <1>2, <1>3, Soundness, PTL DEF Spec

\* When one client changes sessions at a time, a session replaces both files or
\* neither, and the last pair that became ready is in force or can be put back, unless
\* the restore itself failed.
THEOREM SessionsAreAtomic == ~Overlap => (Spec => []SessionAtomic)
<1> SUFFICES ASSUME ~Overlap PROVE Spec => []SessionAtomic
  OBVIOUS
<1> DEFINE I == Atomic(agent)
<1>1. Init => I
  BY BootedHolds DEF Init
<1>2. AgentSound /\ I /\ [Next]_agent => I'
  BY AtomicStep DEF AgentSound
<1>3. I => SessionAtomic
  BY DEF Atomic, InForce, Previous, SessionAtomic
<1> QED BY <1>1, <1>2, <1>3, Soundness, PTL DEF Spec

\* The agent implements the session store the host relies on: no handler leaves half a
\* session in force, drops the way back early, or reports a pair that is not in force.
THEOREM AgentImplementsSessions == ~Overlap => (Spec => Implements)
<1> SUFFICES ASSUME ~Overlap PROVE Spec => Implements
  OBVIOUS
<1>1. Init => Sessions!Init
  BY DEF Init, Booted, Sessions!Init, Pair, Opt
<1>2. AgentSound /\ AgentSound' /\ [Next]_agent => [Sessions!Next]_(Sessions!vars)
  BY SessionStep DEF AgentSound
<1> QED BY <1>1, <1>2, Soundness, PTL DEF Spec, Implements, Sessions!Spec

\* The sing-box that runs is the version the active pointer names, after every upgrade
\* and every rollback of a version or a session, unless a child could not be stopped.
THEOREM ActiveVersionRuns == ~Overlap => (Spec => []RunsActiveVersion)
<1> SUFFICES ASSUME ~Overlap PROVE Spec => []RunsActiveVersion
  OBVIOUS
<1> DEFINE I == Steady(agent)
<1>1. Init => I
  BY BootedHolds DEF Init
<1>2. AgentSound /\ I /\ [Next]_agent => I'
  BY SteadyStep DEF AgentSound
<1>3. I => RunsActiveVersion
  BY DEF Steady, RunsIn, RunsActiveVersion
<1> QED BY <1>1, <1>2, <1>3, Soundness, PTL DEF Spec

\* A rollback has somewhere to go: when labels are not reused and the pointers can be
\* written, the previous pointer names another version, and its slot holds a binary.
THEOREM RollbackHasASlot ==
  ~ReuseVersions /\ "write" \notin Faults => (Spec => []RollbackSlotUsable)
<1> SUFFICES ASSUME ~ReuseVersions, "write" \notin Faults
             PROVE  Spec => []RollbackSlotUsable
  OBVIOUS
<1> DEFINE I == Usable(agent)
<1>1. Init => I
  BY BootedHolds DEF Init
<1>2. AgentSound /\ I /\ [Next]_agent => I'
  BY UsableStep DEF AgentSound
<1>3. I => RollbackSlotUsable
  BY DEF Usable, RollbackSlotUsable
<1> QED BY <1>1, <1>2, <1>3, Soundness, PTL DEF Spec

\* A pair that status or activate_session reported as ready is committed: no rollback
\* of it is left to come, where the probes do not waver and every write succeeds.
THEOREM ReadyIsCommitted ==
  ~Overlap /\ Faults \cap {"write", "flap"} = {} => (Spec => []ReadyReplyIsCommitted)
<1> SUFFICES ASSUME ~Overlap, Faults \cap {"write", "flap"} = {}
             PROVE  Spec => []ReadyReplyIsCommitted
  OBVIOUS
<1> DEFINE I == Certain(agent)
           J == Atomic(agent)
<1>1. Init => I /\ J
  BY BootedHolds DEF Init
<1>2. AgentSound /\ I /\ [Next]_agent => I'
  BY CertainStep DEF AgentSound
<1>3. AgentSound /\ J /\ [Next]_agent => J'
  BY AtomicStep DEF AgentSound
<1>4. I /\ J => ReadyReplyIsCommitted
  BY DEF Certain, Atomic, ReadyReplyIsCommitted
<1> QED BY <1>1, <1>2, <1>3, <1>4, Soundness, PTL DEF Spec
===============================================================================
