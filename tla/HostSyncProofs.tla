----------------------------- MODULE HostSyncProofs -----------------------------
(***************************************************************************)
(* What the host is told is so, for every value of the constants: a start  *)
(* reported as successful is committed, an activation never meets another  *)
(* session, the version that runs is the active one although upgrades and  *)
(* sessions overlap, and an upgrade reports what happened and undoes at    *)
(* most itself.                                                            *)
(*                                                                         *)
(* The argument is about the backlog.  Until the one activation of a boot  *)
(* is served the agent is blank: nothing else can start a data plane or a  *)
(* session.  Once it is served none is left, and what was committed stays. *)
(* The same holds of the one request that switches the version, and the    *)
(* status that looks into it queues behind it.                             *)
(***************************************************************************)
EXTENDS HostSync, GuestAgentPromises, SequenceTheorems

-------------------------------------------------------------------------------
(* The agent before its first session.                                     *)

\* No session was ever activated in this boot.
Blank(s) ==
  s.pending = None /\ s.files.cfg = None /\ s.run.sb = None /\ s.log.told = None

\* A stop leaves no sing-box where there was none, whether or not it succeeds.
LEMMA StopNone ==
  ASSUME NEW s, Sound(s), s.run.sb = None, NEW o \in Stop(s)
  PROVE  /\ Sound(o.s) /\ OnlyRun(s, o.s) /\ o.s.run.sb = None
<1>1. PICK m \in Reap(s.run.mitm, s.run.mitmUp), b \in Reap(s.run.sb # None, s.run.sbUp) :
        o = StopOutcome(s, m, b)
  BY DEF Stop
<1>2. s \in State /\ Owns(s)
  BY DEF Sound
<1>3. s.run \in Runtime /\ s.run.sbUp \in BOOLEAN
  BY SoundRun DEF Runtime
<1>4. ~b.kept
  BY <1>3, ReapSound
<1>5. /\ Stopped(s, m, b) \in State /\ Owns(Stopped(s, m, b))
      /\ Stopped(s, m, b).run.sb = None
  BY <1>1, <1>2, <1>4, StoppedSound
<1>6. o.s.run.sb = None
  <2> DEFINE t == Stopped(s, m, b)
             rx == [t.run EXCEPT !.fault = TRUE]
             ry == [t.run EXCEPT !.fault = FALSE, !.backoff = FALSE]
  <2>1. t \in State /\ t.run \in Runtime /\ t.run.sb = None
    BY <1>5 DEF State
  <2>2. o = Failed([t EXCEPT !.run = rx]) \/ o = Done([t EXCEPT !.run = ry])
    BY <1>1 DEF StopOutcome
  <2>3. rx.sb = None /\ ry.sb = None
    BY <2>1 DEF Runtime
  <2> HIDE DEF t, rx, ry
  <2>4. o.s = [t EXCEPT !.run = rx] \/ o.s = [t EXCEPT !.run = ry]
    BY <2>2 DEF Done, Failed
  <2> QED BY <2>1, <2>3, <2>4 DEF State
<1> QED BY <1>6, StopSound, StopEnds

\* Without a configuration nothing is started.
LEMMA StartNone ==
  ASSUME NEW s, Sound(s), s.files.cfg = None, s.run.sb = None,
         NEW v \in Opt(Versions), NEW o \in Restart(s, v)
  PROVE  /\ Sound(o.s) /\ OnlyRun(s, o.s) /\ o.s.run.sb = None
         /\ v # None => ~o.ok
<1>1. \/ v = None /\ o = Done(s)
      \/ o = Failed(s) \/ o = Failed(Unpublished(s))
  BY DEF Restart, Start
<1>2. OnlyRun(s, s)
  BY DEF OnlyRun
<1>3. /\ Sound(Unpublished(s)) /\ OnlyRun(s, Unpublished(s))
      /\ Unpublished(s).run.sb = None
  BY UnpublishedSound, UnpublishedOnly
<1> QED BY <1>1, <1>2, <1>3, OutcomeOf

\* So an upgrade or a rollback of the version cannot start a blank agent.
LEMMA RecoverNone ==
  ASSUME NEW s, Sound(s), s.files.cfg = None, s.run.sb = None, NEW t \in Recover(s)
  PROVE  OnlyRun(s, t) /\ t.run.sb = None
<1>1. PICK stop \in Stop(s) :
        t \in IF stop.ok THEN After(Restart(stop.s, s.slots.active)) ELSE {stop.s}
  BY DEF Recover
<1>2. Sound(stop.s) /\ OnlyRun(s, stop.s) /\ stop.s.run.sb = None
  BY StopNone
<1>3. stop.s.files.cfg = None /\ s.slots.active \in Opt(Versions)
  BY <1>2, Parts DEF OnlyRun, Slots
<1>4. CASE t = stop.s
  BY <1>2, <1>4
<1>5. CASE \E o \in Restart(stop.s, s.slots.active) : t = o.s
  <2>1. OnlyRun(stop.s, t) /\ t.run.sb = None
    BY <1>2, <1>3, <1>5, StartNone
  <2> QED BY <1>2, <2>1, RunTwice
<1> QED BY <1>1, <1>4, <1>5 DEF After

\* The exchange of versions, on a blank agent.
LEMMA SwitchNone ==
  ASSUME NEW s, Sound(s), s.files.cfg = None, s.run.sb = None,
         NEW v \in Versions, NEW t \in SwitchVersion(s, v)
  PROVE  OnlyRun(s, t) /\ t.run.sb = None
<1>1. PICK stop \in Stop(s) :
        t \in IF ~stop.ok THEN {stop.s}
              ELSE UNION {IF ~u.ok THEN Recover(u.s)
                          ELSE UNION {IF w.ok THEN {w.s} ELSE Recover(w.s) :
                                        w \in WritePointers(u.s, s.slots.active, v)} :
                            u \in Start(stop.s, v)}
  BY DEF SwitchVersion
<1>2. Sound(stop.s) /\ OnlyRun(s, stop.s) /\ stop.s.run.sb = None
  BY StopNone
<1>3. CASE t = stop.s
  BY <1>2, <1>3
<1>4. CASE t # stop.s
  <2>1. PICK u \in Start(stop.s, v) :
          t \in IF ~u.ok THEN Recover(u.s)
                ELSE UNION {IF w.ok THEN {w.s} ELSE Recover(w.s) :
                              w \in WritePointers(u.s, s.slots.active, v)}
    BY <1>1, <1>4
  <2>2. v # None /\ v \in Opt(Versions)
    BY ConstantsAssumption DEF Opt
  <2>3. u \in Restart(stop.s, v) /\ stop.s.files.cfg = None
    BY <1>2, <2>1, <2>2 DEF Restart, OnlyRun
  <2>4. Sound(u.s) /\ OnlyRun(stop.s, u.s) /\ u.s.run.sb = None /\ ~u.ok
    BY <1>2, <2>2, <2>3, StartNone
  <2>5. OnlyRun(s, u.s) /\ u.s.files.cfg = None
    BY <1>2, <2>3, <2>4, RunTwice DEF OnlyRun
  <2>6. OnlyRun(u.s, t) /\ t.run.sb = None
    BY <2>1, <2>4, <2>5, RecoverNone
  <2> QED BY <2>5, <2>6, RunTwice
<1> QED BY <1>3, <1>4

\* No status starts a session or a data plane, or tells of one.
LEMMA StatusBlank ==
  ASSUME NEW s, Sound(s), Blank(s), NEW t \in StatusResponse(s)
  PROVE  Blank(t)
<1>1. Refresh(s) = {s}
  BY DEF Refresh, Blank
<1>2. PICK x \in RefreshMitm(s) :
        t \in UNION {UNION {Report(z) : z \in Refresh(y)} : y \in Progress(x)}
  BY <1>1 DEF StatusResponse
<1>3. Sound(x) /\ OnlyRun(s, x)
  BY RefreshMitmSound, RefreshMitmOnly
<1>4. x.run.sb = None
  <2> DEFINE l == [MitmLost(s) EXCEPT !.run.backoff = TRUE]
             f == [s EXCEPT !.run.fault = TRUE]
  <2>1. s.run \in Runtime /\ s \in State /\ s.run.sb = None
    BY SoundRun DEF Blank
  <2>2. x = s \/ x = f \/ x = MitmLost(s)
    BY <2>1, MayOf DEF RefreshMitm, Restartable
  <2>3. f.run.sb = None
    BY <2>1 DEF State, Runtime
  <2>4. MitmLost(s).run.sb = None
    BY <2>1 DEF MitmLost, State, Runtime
  <2> QED BY <2>1, <2>2, <2>3, <2>4
<1>5. x.pending = None /\ x.files.cfg = None
  BY <1>3 DEF Blank, OnlyRun
<1>6. t \in Report(x)
  BY <1>2, <1>4, <1>5 DEF Progress, Refresh
<1>7. t = Refused(x)
  BY <1>4, <1>6 DEF Report, Probes, Answering
<1> QED BY <1>3, <1>4, <1>5, <1>7, RefusedMoves DEF Blank, Kin

\* A stop request without a session on trial changes no file and commits nothing.
LEMMA StopRuntimeKeeps ==
  ASSUME NEW s, Sound(s), s.pending = None, NEW t \in StopGuestRuntime(s)
  PROVE  /\ t.files = s.files /\ t.pending = None /\ Ledger(s, t) /\ t.log.told = None
         /\ s.run.sb = None => t.run.sb = None
<1>1. PICK a \in Stop(s) :
        t \in {IF a.ok /\ n.ok THEN [Refused(n.s) EXCEPT !.log.stopped = TRUE]
               ELSE Refused(n.s) : n \in StopNetworkForwarding(a.s)}
  BY DEF StopGuestRuntime, AbortForStop
<1>2. PICK n \in StopNetworkForwarding(a.s) :
        t = IF a.ok /\ n.ok THEN [Refused(n.s) EXCEPT !.log.stopped = TRUE]
            ELSE Refused(n.s)
  BY <1>1
<1>3. Sound(a.s) /\ OnlyRun(s, a.s) /\ (s.run.sb = None => a.s.run.sb = None)
  BY StopSound, StopEnds, StopNone
<1> DEFINE x == Disconnected(a.s)
<1>4. /\ Sound(x) /\ x.files = a.s.files /\ x.pending = a.s.pending
      /\ x.log = a.s.log /\ x.run = a.s.run
  BY <1>3, DisconnectedSound, Parts DEF State, Disconnected
<1> HIDE DEF x
<1>5. n.s = x \/ n.s = a.s
  BY <1>2, OutcomeOf, MayOf DEF StopNetworkForwarding, x
<1>6. /\ Sound(n.s) /\ n.s.files = s.files /\ n.s.pending = None /\ n.s.log = s.log
      /\ s.run.sb = None => n.s.run.sb = None
  BY <1>3, <1>4, <1>5 DEF OnlyRun
<1> DEFINE r == Refused(n.s)
           l == [r.log EXCEPT !.stopped = TRUE]
<1>7. Sound(r) /\ Kin(n.s, r) /\ r.run = n.s.run /\ r.log.told = None
  BY <1>6, RefusedSound, RefusedMoves
<1>8. t = r \/ t = [r EXCEPT !.log = l]
  BY <1>2
<1> HIDE DEF r
<1>9. r \in State /\ r.log \in History
  BY <1>7, Parts
<1>10. l.torn = r.log.torn /\ l.committed = r.log.committed /\ l.told = r.log.told
  BY <1>9 DEF History
<1> HIDE DEF l
<1>11. /\ t.files = r.files /\ t.run = r.run /\ t.pending = r.pending
       /\ t.log \in {r.log, l}
  BY <1>8, <1>9 DEF State
<1> QED BY <1>6, <1>7, <1>10, <1>11 DEF Kin, Ledger

-------------------------------------------------------------------------------
(* The first session of a boot has nothing to restart.                     *)

\* A session on trial replaced no configuration.
First(s) == s.pending # None => s.pending.prevCfg = None

\* Its rollback leaves nothing that runs and is relied on.
LEMMA RollbackFirst ==
  ASSUME NEW s, Sound(s), s.pending # None, s.pending.prevCfg = None,
         NEW t \in RollbackPending(s, s.pending), NEW v
  PROVE  RunsIn(t, v)
<1> DEFINE n == NotPending(s)
           p == s.pending.prevPlan
<1>1. None \in Opt(Configs) /\ p \in Opt(Plans)
  BY Parts DEF PendingSession, Opt
<1>2. PICK back \in StopAndRestore(n, None, p) :
        t \in IF ~back.ok THEN After(Stop(Discard(back.s))) ELSE {Discard(back.s)}
  BY DEF RollbackPending
<1>3. Sound(n)
  BY NotPendingSound
<1> HIDE DEF n, p
<1>4. Sound(back.s) /\ (back.ok => back.s.run.sb = None)
  BY <1>1, <1>3, StopAndRestoreSound, StopAndRestoreOnly
<1> DEFINE d == Discard(back.s)
<1>5. Sound(d) /\ d.run = back.s.run
  BY <1>4, DiscardSound, DiscardOnly
<1> HIDE DEF d
<1>6. CASE ~back.ok
  <2>1. PICK o \in Stop(d) : t = o.s
    BY <1>2, <1>6 DEF After, d
  <2> QED BY <1>5, <2>1, StopEnds
<1>7. CASE back.ok
  BY <1>2, <1>4, <1>5, <1>7 DEF d, RunsIn
<1> QED BY <1>6, <1>7

\* A status keeps the version that runs, whatever version became active meanwhile.
LEMMA StatusFirst ==
  ASSUME NEW s, Sound(s), First(s), NEW v, RunsIn(s, v), NEW t \in StatusResponse(s)
  PROVE  RunsIn(t, v)
<1>1. PICK w \in Refresh(s) :
        t \in UNION {UNION {UNION {Report(z) : z \in Refresh(y)} : y \in Progress(x)} :
                       x \in RefreshMitm(w)}
  BY DEF StatusResponse
<1>2. PICK x \in RefreshMitm(w) :
        t \in UNION {UNION {Report(z) : z \in Refresh(y)} : y \in Progress(x)}
  BY <1>1
<1>3. PICK y \in Progress(x) : t \in UNION {Report(z) : z \in Refresh(y)}
  BY <1>2
<1>4. PICK z \in Refresh(y) : t \in Report(z)
  BY <1>3
<1>5. Sound(w) /\ OnlyRun(s, w) /\ RunsIn(w, v)
  BY RefreshSound, RefreshOnly
<1>6. Sound(x) /\ OnlyRun(w, x) /\ RunsIn(x, v)
  BY <1>5, RefreshMitmSound, RefreshMitmOnly
<1>7. First(x)
  BY <1>5, <1>6 DEF First, OnlyRun
<1>8. Sound(y) /\ RunsIn(y, v)
  <2>1. Sound(y)
    BY <1>6, ProgressSound
  <2>2. CASE x.pending = None
    BY <1>6, <2>1, <2>2 DEF Progress
  <2>3. CASE x.pending # None /\ y \in RollbackPending(x, x.pending)
    BY <1>6, <1>7, <2>1, <2>3, RollbackFirst DEF First
  <2>4. CASE x.pending # None /\ y = x
    BY <1>6, <2>4
  <2>5. CASE x.pending # None
             /\ \E o \in WriteReadiness(x) : y = IF o.ok THEN Commit(o.s) ELSE o.s
    <3>1. PICK o \in WriteReadiness(x) : y = IF o.ok THEN Commit(o.s) ELSE o.s
      BY <2>5
    <3>2. Sound(o.s) /\ o.s.run.sb = x.run.sb /\ o.s.run.fault = x.run.fault
      BY <1>6, WriteReadinessSound, WriteReadinessOnly
    <3>3. y.run = o.s.run
      BY <3>1, <3>2, CommitMoves
    <3> QED BY <1>6, <2>1, <3>2, <3>3 DEF RunsIn
  <2> QED BY <2>2, <2>3, <2>4, <2>5 DEF Progress
<1>9. Sound(z) /\ RunsIn(z, v)
  BY <1>4, <1>8, RefreshSound, RefreshOnly
<1> QED BY <1>4, <1>9, ReportMoves

-------------------------------------------------------------------------------
(* The backlog.                                                            *)

Queue == Seq(Connection)

\* What waits in the backlog q: a request op, one at most, an a only in front of a b.
Has(q, op) == \E i \in DOMAIN q : q[i].op = op
Once(q, op) == \A i, j \in DOMAIN q : q[i].op = op /\ q[j].op = op => i = j
Before(q, a, b) == \A i, j \in DOMAIN q : q[i].op = a /\ q[j].op = b => i < j

\* The client reads one connection at most: the one on which it has asked for what it
\* waits for now.
Awaited(q, ops, client) ==
  \A i \in DOMAIN q : q[i].live /\ q[i].op \in ops =>
    /\ client.asked /\ client.reply = None /\ q[i].op = client.at
    /\ \A j \in DOMAIN q : q[j].live /\ q[j].op \in ops => i = j

\* A queue and its positions.
LEMMA Positions ==
  ASSUME NEW q \in Queue
  PROVE  /\ Len(q) \in Nat /\ DOMAIN q = 1..Len(q)
         /\ \A i \in DOMAIN q : q[i] \in Connection
BY LenProperties, ElementOfSeq DEF Queue

\* The oldest connection is served: the others move up by one.
LEMMA TailQueue ==
  ASSUME NEW q \in Queue, q # <<>>
  PROVE  /\ Tail(q) \in Queue /\ Len(Tail(q)) = Len(q) - 1 /\ Len(q) \in Nat \ {0}
         /\ 1 \in DOMAIN q /\ Head(q) = q[1] /\ Head(q) \in Connection
         /\ \A i \in DOMAIN Tail(q) : i \in Nat /\ i + 1 \in DOMAIN q /\ Tail(q)[i] = q[i + 1]
         /\ \A i \in DOMAIN q : i = 1 \/ (i - 1 \in DOMAIN Tail(q) /\ q[i] = Tail(q)[i - 1])
<1>1. Len(q) \in Nat \ {0}
  BY EmptySeq DEF Queue
<1>2. /\ Head(q) \in Connection /\ Tail(q) \in Seq(Connection)
      /\ Len(Tail(q)) = Len(q) - 1
      /\ \A i \in 1..Len(Tail(q)) : Tail(q)[i] = q[i + 1]
  BY HeadTailProperties DEF Queue
<1>3. DOMAIN q = 1..Len(q) /\ DOMAIN Tail(q) = 1..Len(q) - 1
  BY <1>2, Positions DEF Queue
<1>4. Head(q) = q[1]
  BY DEF Head
<1> QED BY <1>1, <1>2, <1>3, <1>4 DEF Queue

\* What that means for the requests that wait.
LEMMA TailKeeps ==
  ASSUME NEW q \in Queue, q # <<>>, NEW op
  PROVE  /\ Has(Tail(q), op) => Has(q, op)
         /\ Has(q, op) => Head(q).op = op \/ Has(Tail(q), op)
         /\ Once(q, op) => Once(Tail(q), op) /\ (Head(q).op = op => ~Has(Tail(q), op))
         /\ \A b : Before(q, op, b) => /\ Before(Tail(q), op, b)
                                       /\ Head(q).op = b => ~Has(q, op)
<1>1. /\ \A i \in DOMAIN Tail(q) : i \in Nat /\ i + 1 \in DOMAIN q /\ Tail(q)[i] = q[i + 1]
      /\ \A i \in DOMAIN q : i = 1 \/ (i - 1 \in DOMAIN Tail(q) /\ q[i] = Tail(q)[i - 1])
      /\ 1 \in DOMAIN q /\ Head(q) = q[1]
      /\ \A i \in DOMAIN Tail(q) : i >= 1
      /\ \A i \in DOMAIN q : i \in Nat /\ i >= 1
  <2>1. Tail(q) \in Queue /\ DOMAIN Tail(q) = 1..Len(Tail(q)) /\ DOMAIN q = 1..Len(q)
        /\ Len(q) \in Nat /\ Len(Tail(q)) \in Nat
    BY TailQueue, Positions
  <2> QED BY <2>1, TailQueue
<1>2. Has(Tail(q), op) => Has(q, op)
  BY <1>1 DEF Has
<1>3. Has(q, op) => Head(q).op = op \/ Has(Tail(q), op)
  BY <1>1 DEF Has
<1>4. ASSUME Once(q, op) PROVE Once(Tail(q), op) /\ (Head(q).op = op => ~Has(Tail(q), op))
  BY <1>1, <1>4 DEF Once, Has
<1>5. ASSUME NEW b, Before(q, op, b)
      PROVE  Before(Tail(q), op, b) /\ (Head(q).op = b => ~Has(q, op))
  BY <1>1, <1>5 DEF Before, Has
<1> QED BY <1>2, <1>3, <1>4, <1>5

\* Only the oldest connection can be answered, and then the client reads no other.
LEMMA TailAwaited ==
  ASSUME NEW q \in Queue, q # <<>>, NEW ops, NEW client, Awaited(q, ops, client)
  PROVE  /\ Awaited(Tail(q), ops, client)
         /\ Head(q).live /\ Head(q).op \in ops =>
              /\ client.asked /\ Head(q).op = client.at /\ client.reply = None
              /\ \A c : Awaited(Tail(q), ops, c)
<1>1. /\ \A i \in DOMAIN Tail(q) : i \in Nat /\ i + 1 \in DOMAIN q /\ Tail(q)[i] = q[i + 1]
      /\ 1 \in DOMAIN q /\ Head(q) = q[1]
      /\ \A i \in DOMAIN Tail(q) : i >= 1
  <2>1. Tail(q) \in Queue /\ DOMAIN Tail(q) = 1..Len(Tail(q)) /\ Len(Tail(q)) \in Nat
    BY TailQueue, Positions
  <2> QED BY <2>1, TailQueue
<1>2. Awaited(Tail(q), ops, client)
  BY <1>1 DEF Awaited
<1>3. ASSUME Head(q).live, Head(q).op \in ops
      PROVE  /\ client.asked /\ Head(q).op = client.at /\ client.reply = None
             /\ \A c : Awaited(Tail(q), ops, c)
  <2>1. \A i \in DOMAIN Tail(q) : ~(Tail(q)[i].live /\ Tail(q)[i].op \in ops)
    BY <1>1, <1>3 DEF Awaited
  <2> QED BY <1>1, <1>3, <2>1 DEF Awaited
<1> QED BY <1>2, <1>3

\* A connection is made: it is the last.
LEMMA AppendQueue ==
  ASSUME NEW q \in Queue, NEW x \in Connection
  PROVE  /\ Append(q, x) \in Queue /\ Len(Append(q, x)) = Len(q) + 1
         /\ DOMAIN Append(q, x) = DOMAIN q \cup {Len(q) + 1}
         /\ \A i \in DOMAIN q : i \in Nat /\ i < Len(q) + 1 /\ Append(q, x)[i] = q[i]
         /\ Append(q, x)[Len(q) + 1] = x
<1>1. /\ Append(q, x) \in Seq(Connection) /\ Len(Append(q, x)) = Len(q) + 1
      /\ \A i \in 1..Len(q) : Append(q, x)[i] = q[i]
      /\ Append(q, x)[Len(q) + 1] = x
  BY AppendProperties DEF Queue
<1>2. DOMAIN q = 1..Len(q) /\ Len(q) \in Nat
  BY Positions
<1>3. DOMAIN Append(q, x) = 1..Len(q) + 1
  BY <1>1, Positions DEF Queue
<1> QED BY <1>1, <1>2, <1>3 DEF Queue

\* ... and what waits after that.
LEMMA AppendKeeps ==
  ASSUME NEW q \in Queue, NEW x \in Connection, NEW op
  PROVE  /\ Has(Append(q, x), op) <=> Has(q, op) \/ x.op = op
         /\ Once(q, op) /\ ~(Has(q, op) /\ x.op = op) => Once(Append(q, x), op)
         /\ \A b : Before(q, op, b) /\ op # b /\ ~(Has(q, b) /\ x.op = op)
                     => Before(Append(q, x), op, b)
<1> DEFINE r == Append(q, x)
           n == Len(q) + 1
<1>1. /\ DOMAIN r = DOMAIN q \cup {n}
      /\ \A i \in DOMAIN q : i \in Nat /\ i < n /\ r[i] = q[i]
      /\ r[n] = x
  BY AppendQueue
<1> HIDE DEF r, n
<1>2. Has(r, op) <=> Has(q, op) \/ x.op = op
  BY <1>1 DEF Has
<1>3. Once(q, op) /\ ~(Has(q, op) /\ x.op = op) => Once(r, op)
  BY <1>1 DEF Once, Has
<1>4. ASSUME NEW b, Before(q, op, b), op # b, ~(Has(q, b) /\ x.op = op)
      PROVE  Before(r, op, b)
  <2> SUFFICES ASSUME NEW i \in DOMAIN r, NEW j \in DOMAIN r, r[i].op = op, r[j].op = b
               PROVE  i < j
    BY DEF Before
  <2>1. CASE i = n
    BY <1>1, <1>4, <2>1 DEF Has
  <2>2. CASE i # n
    BY <1>1, <1>4, <2>2 DEF Before
  <2> QED BY <2>1, <2>2
<1> QED BY <1>2, <1>3, <1>4 DEF r

\* Who reads it: its client, if it asked for nothing before, and no other.
LEMMA AppendAwaited ==
  ASSUME NEW q \in Queue, NEW x \in Connection, NEW ops, NEW client, NEW asking,
         Awaited(q, ops, client)
  PROVE  /\ ~(x.live /\ x.op \in ops) => Awaited(Append(q, x), ops, client)
         /\ ~client.asked /\ asking.asked /\ asking.reply = None /\ x.op = asking.at
              => Awaited(Append(q, x), ops, asking)
<1> DEFINE r == Append(q, x)
           n == Len(q) + 1
<1>1. /\ DOMAIN r = DOMAIN q \cup {n}
      /\ \A i \in DOMAIN q : r[i] = q[i]
      /\ r[n] = x
  BY AppendQueue
<1> HIDE DEF r, n
<1> QED BY <1>1 DEF Awaited, r

\* A client closes its connections: nothing else changes.
Hung(q, ops) ==
  [i \in DOMAIN q |-> [q[i] EXCEPT !.live = @ /\ q[i].op \notin ops]]

\* Closing connections keeps their number, order and requests: only a caller that has
\* given up is no longer alive.
LEMMA HungQueue ==
  ASSUME NEW q \in Queue, NEW ops
  PROVE  /\ Hung(q, ops) \in Queue /\ Len(Hung(q, ops)) = Len(q)
         /\ DOMAIN Hung(q, ops) = DOMAIN q
         /\ \A i \in DOMAIN q : /\ Hung(q, ops)[i].op = q[i].op
                                /\ Hung(q, ops)[i].live <=> q[i].live /\ q[i].op \notin ops
<1>1. /\ Len(q) \in Nat /\ DOMAIN q = 1..Len(q)
      /\ \A i \in DOMAIN q : q[i] \in Connection
  BY Positions
<1>2. ASSUME NEW i \in DOMAIN q
      PROVE  LET x == [q[i] EXCEPT !.live = @ /\ q[i].op \notin ops] IN
             /\ x \in Connection /\ x.op = q[i].op
             /\ x.live <=> q[i].live /\ q[i].op \notin ops
  BY <1>1 DEF Connection
<1>3. Hung(q, ops) \in [1..Len(q) -> Connection]
  BY <1>1, <1>2 DEF Hung
<1>4. Hung(q, ops) \in Queue /\ Len(Hung(q, ops)) = Len(q) /\ DOMAIN Hung(q, ops) = DOMAIN q
  BY <1>1, <1>3 DEF Queue
<1> QED BY <1>2, <1>4 DEF Hung

\* The same requests wait, and this client reads none of them.
LEMMA HungKeeps ==
  ASSUME NEW q \in Queue, NEW ops
  PROVE  /\ \A op : /\ Has(Hung(q, ops), op) <=> Has(q, op)
                    /\ Once(q, op) => Once(Hung(q, ops), op)
                    /\ \A b : Before(q, op, b) => Before(Hung(q, ops), op, b)
         /\ \A others, client : Awaited(q, others, client)
                                  => Awaited(Hung(q, ops), others, client)
         /\ \A client : Awaited(Hung(q, ops), ops, client)
<1> DEFINE r == Hung(q, ops)
<1>1. /\ DOMAIN r = DOMAIN q
      /\ \A i \in DOMAIN q : r[i].op = q[i].op /\ (r[i].live <=> q[i].live /\ q[i].op \notin ops)
  BY HungQueue
<1> HIDE DEF r
<1>2. ASSUME NEW op
      PROVE  /\ Has(r, op) <=> Has(q, op)
             /\ Once(q, op) => Once(r, op)
             /\ \A b : Before(q, op, b) => Before(r, op, b)
  BY <1>1 DEF Has, Once, Before
<1>3. ASSUME NEW others, NEW client, Awaited(q, others, client)
      PROVE  Awaited(r, others, client)
  BY <1>1, <1>3 DEF Awaited
<1>4. ASSUME NEW client PROVE Awaited(r, ops, client)
  BY <1>1 DEF Awaited
<1> QED BY <1>2, <1>3, <1>4 DEF r

-------------------------------------------------------------------------------
(* What a request does to the agent, and what its client is told.          *)

\* An answer as any instance may give it, and a client that has one.
Reply ==
  [says : {"ok", "accepted", "active", "error"}, pair : Opt(Pair),
   active : Opt(Versions), blamed : BOOLEAN]
Caller(places) == [at : places, asked : BOOLEAN, reply : Opt(Reply), boot : Nat]

\* The types of the host's variables, and an agent whose own invariant holds.
HostSound ==
  /\ Sound(agent)
  /\ sync \in [client : Caller(SyncPlaces), target : StartPairs, late : BOOLEAN,
               cancelled : BOOLEAN]
  /\ upgrade \in Caller(UpgradePlaces)
  /\ thread \in BOOLEAN /\ boots \in 1..MaxBoots
  /\ backlog \in Queue /\ Len(backlog) <= MaxBacklog

\* The handler of a request, with the pair of the start or the release.
Handled(op, t) ==
  /\ op = "config"   => t \in StageConfig(agent, sync.target[1])
  /\ op = "plan"     => t \in StageModulePlan(agent, sync.target[2])
  /\ op = "stage"    => t \in StageUpgrade(agent, Release[1], Release[2])
  /\ op = "activate" => t \in ActivateSession(agent, sync.target[1], sync.target[2])
  /\ op = "switch"   => t \in ActivateUpgrade(agent, Release[1], Release[2])
  /\ op = "rollback" => t \in Rollback(agent)
  /\ op = "stop"     => t \in StopGuestRuntime(agent)
  /\ op \in {"ready", "resolve", "query", "status"} => t \in StatusResponse(agent)

\* What its answer r tells of the agent t that it leaves behind.
Tells(op, t, r) ==
  /\ op \in {"config", "plan", "stage", "rollback", "stop"}
       => r \in {Plain("ok"), Plain("error")}
  /\ op = "activate" => \/ r = Plain("active") /\ t.log.told # None
                        \/ r \in {Plain("accepted"), Plain("error")}
  /\ op = "switch" => \/ r = Plain("active") /\ t.slots.active = Release[1]
                      \/ r = Plain("error")
  /\ op \in {"ready", "resolve", "query", "status"} => r \in Reports(t)

\* Every outcome of a request is one of its handler, answered accordingly.
LEMMA OutcomeHandled ==
  ASSUME NEW x \in Connection, NEW o \in Outcomes(x.op)
  PROVE  Handled(x.op, o[1]) /\ Tells(x.op, o[1], o[2])
<1> DEFINE c == sync.target[1]
           p == sync.target[2]
           op == x.op
<1>1. op \in SyncOps \cup UpgradeOps \cup {"stop", "status"}
  BY DEF Connection
<1> HIDE DEF op
<1>2. ASSUME NEW staged, NEW states, staged \subseteq states, NEW w \in Staging(staged, states)
      PROVE  w[1] \in states /\ w[2] \in {Plain("ok"), Plain("error")}
  BY <1>2 DEF Staging
<1>3. CASE op = "config"
  <2>1. o \in Staging({s \in StageConfig(agent, c) : s.files.cfgIn = c /\ s.files.cfgStaged = c},
                      StageConfig(agent, c))
    BY <1>3 DEF Outcomes, op
  <2>2. o[1] \in StageConfig(agent, c) /\ o[2] \in {Plain("ok"), Plain("error")}
    BY <1>2, <2>1
  <2> QED BY <1>3, <2>2 DEF Handled, Tells, op
<1>4. CASE op = "plan"
  <2>1. o \in Staging({s \in StageModulePlan(agent, p) :
                         s.files.planIn = p /\ s.files.planStaged = p}, StageModulePlan(agent, p))
    BY <1>4 DEF Outcomes, op
  <2>2. o[1] \in StageModulePlan(agent, p) /\ o[2] \in {Plain("ok"), Plain("error")}
    BY <1>2, <2>1
  <2> QED BY <1>4, <2>2 DEF Handled, Tells, op
<1>5. CASE op = "stage"
  <2>1. o \in Staging({s \in StageUpgrade(agent, Release[1], Release[2]) :
                         s.slots.staged = Release}, StageUpgrade(agent, Release[1], Release[2]))
    BY <1>5 DEF Outcomes, op
  <2>2. /\ o[1] \in StageUpgrade(agent, Release[1], Release[2])
        /\ o[2] \in {Plain("ok"), Plain("error")}
    BY <1>2, <2>1
  <2> QED BY <1>5, <2>2 DEF Handled, Tells, op
<1>6. CASE op = "activate"
  <2>1. o \in Activating(c, p)
    BY <1>6 DEF Outcomes, op
  <2>2. PICK s \in ActivateSession(agent, c, p) :
          o \in IF s.log.told # None THEN {<<s, Plain("active")>>}
                ELSE IF s.pending # None THEN {<<s, Plain("accepted")>>}
                ELSE {<<s, Plain("accepted")>>, <<s, Plain("error")>>}
    BY <2>1 DEF Activating
  <2>3. /\ o[1] = s
        /\ \/ o[2] = Plain("active") /\ s.log.told # None
           \/ o[2] \in {Plain("accepted"), Plain("error")}
    BY <2>2
  <2> QED BY <1>6, <2>2, <2>3 DEF Handled, Tells, op
<1>7. CASE op = "switch"
  <2>1. o \in Switching(Release[1], Release[2])
    BY <1>7 DEF Outcomes, op
  <2>2. PICK s \in ActivateUpgrade(agent, Release[1], Release[2]) :
          o \in IF s.slots.active = Release[1]
                THEN {<<s, Plain(IF up /\ s.run.ready THEN "active" ELSE "error")>> :
                        up \in Probes(s)}
                ELSE {<<s, Plain("error")>>}
    BY <2>1 DEF Switching
  <2>3. /\ o[1] = s
        /\ \/ o[2] = Plain("active") /\ s.slots.active = Release[1]
           \/ o[2] = Plain("error")
    BY <2>2
  <2> QED BY <1>7, <2>2, <2>3 DEF Handled, Tells, op
<1>8. CASE op = "rollback"
  BY <1>8 DEF Outcomes, Handled, Tells, op
<1>9. CASE op = "stop"
  BY <1>9 DEF Outcomes, Handled, Tells, op
<1>10. CASE op \in {"ready", "resolve", "query", "status"}
  <2>1. o \in UNION {{<<s, r>> : r \in Reports(s)} : s \in StatusResponse(agent)}
    BY <1>10 DEF Outcomes, op
  <2>2. PICK s \in StatusResponse(agent) : o \in {<<s, r>> : r \in Reports(s)}
    BY <2>1
  <2>3. o[1] = s /\ o[2] \in Reports(s)
    BY <2>2
  <2> QED BY <1>10, <2>2, <2>3 DEF Handled, Tells, op
<1> QED BY <1>1, <1>3, <1>4, <1>5, <1>6, <1>7, <1>8, <1>9, <1>10 DEF SyncOps, UpgradeOps

\* The pair of a start and the release are values the agent knows.
LEMMA HostValues ==
  ASSUME HostSound
  PROVE  /\ sync.target[1] \in Configs /\ sync.target[2] \in Plans
         /\ sync.target = <<sync.target[1], sync.target[2]>> /\ sync.target # None
         /\ Release[1] \in Versions /\ Release[2] \in Binaries
         /\ Release = <<Release[1], Release[2]>>
         /\ boots \in Nat /\ sync.target \in Configs \X Plans
<1>1. sync.target \in Configs \X Plans /\ Release \in Versions \X Binaries
  BY HostAssumption DEF HostSound
<1>2. sync.target \in Pair
  BY <1>1 DEF Pair, Opt
<1>3. boots \in Nat
  BY HostAssumption DEF HostSound
<1> QED BY <1>1, <1>2, <1>3, AbsenceAssumption

\* No request breaks the agent's own invariant, and only the two requests about the
\* version in force move the pointer to it.
LEMMA HandledSound ==
  ASSUME HostSound, NEW x \in Connection, NEW t, Handled(x.op, t)
  PROVE  /\ Sound(t)
         /\ x.op \notin {"switch", "rollback"} => t.slots.active = agent.slots.active
<1> DEFINE op == x.op
<1>1. op \in SyncOps \cup UpgradeOps \cup {"stop", "status"}
  BY DEF Connection
<1> HIDE DEF op
<1>2. Sound(agent)
  BY DEF HostSound
<1>3. CASE op = "config"
  <2>1. t \in StageConfig(agent, sync.target[1])
    BY <1>3 DEF Handled, op
  <2> QED BY <1>2, <2>1, HostValues, StageConfigSound, StagingOnly DEF op
<1>4. CASE op = "plan"
  <2>1. t \in StageModulePlan(agent, sync.target[2])
    BY <1>4 DEF Handled, op
  <2> QED BY <1>2, <2>1, HostValues, StageModulePlanSound, StagingOnly DEF op
<1>5. CASE op = "stage"
  <2>1. t \in StageUpgrade(agent, Release[1], Release[2])
    BY <1>5 DEF Handled, op
  <2> QED BY <1>2, <2>1, HostValues, StageUpgradeSound, StageUpgradeOnly DEF op
<1>6. CASE op = "activate"
  <2>1. t \in ActivateSession(agent, sync.target[1], sync.target[2])
    BY <1>6 DEF Handled, op
  <2> QED BY <1>2, <2>1, HostValues, ActivateSound, ActivateLeaves DEF op
<1>7. CASE op \in {"switch", "rollback"}
  <2>1. CASE op = "switch"
    <3>1. t \in ActivateUpgrade(agent, Release[1], Release[2])
      BY <2>1 DEF Handled, op
    <3>2. \/ t = Refused(agent)
          \/ \E z \in SwitchVersion(agent, Release[1]) : t = Refused(z)
      BY <3>1 DEF ActivateUpgrade
    <3> QED BY <1>2, <1>7, <3>2, HostValues, SwitchVersionSound, RefusedSound DEF op
  <2>2. CASE op = "rollback"
    <3>1. t \in Rollback(agent)
      BY <2>2 DEF Handled, op
    <3>2. \/ t = Refused(agent)
          \/ /\ agent.slots.previous # None
             /\ \E z \in SwitchVersion(agent, agent.slots.previous) : t = Refused(z)
      BY <3>1 DEF Rollback
    <3>3. agent.slots.previous \in Opt(Versions)
      BY <1>2, Parts DEF Slots
    <3> QED BY <1>2, <1>7, <3>2, <3>3, SwitchVersionSound, RefusedSound DEF op, Opt
  <2> QED BY <1>7, <2>1, <2>2
<1>8. CASE op = "stop"
  <2>1. t \in StopGuestRuntime(agent)
    BY <1>8 DEF Handled, op
  <2> QED BY <1>2, <2>1, StopGuestRuntimeSound, StopRuntimeMoves DEF Move, Aside, op
<1>9. CASE op \in {"ready", "resolve", "query", "status"}
  <2>1. t \in StatusResponse(agent)
    BY <1>9 DEF Handled, op
  <2> QED BY <1>2, <2>1, StatusSound, StatusMoves DEF Move, Aside, op
<1> QED BY <1>1, <1>3, <1>4, <1>5, <1>6, <1>7, <1>8, <1>9 DEF SyncOps, UpgradeOps

\* An agent that was not asked for a session stays blank.
LEMMA HandledBlank ==
  ASSUME HostSound, NEW x \in Connection, NEW t, Handled(x.op, t),
         Blank(agent), x.op # "activate"
  PROVE  Blank(t)
<1> DEFINE op == x.op
<1>1. op \in SyncOps \cup UpgradeOps \cup {"stop", "status"}
  BY DEF Connection
<1> HIDE DEF op
<1>2. Sound(agent) /\ agent.run.sb = None /\ agent.files.cfg = None
  BY DEF HostSound, Blank
<1>3. CASE op = "config" \/ op = "plan"
  <2>1. \/ t \in StageConfig(agent, sync.target[1])
        \/ t \in StageModulePlan(agent, sync.target[2])
    BY <1>3 DEF Handled, op
  <2>2. /\ InForce(t) = InForce(agent) /\ t.pending = agent.pending /\ t.log = agent.log
        /\ t.run = agent.run
    BY <1>2, <2>1, HostValues, StagingOnly
  <2> QED BY <2>2 DEF InForce, Blank
<1>4. CASE op = "stage"
  <2>1. t \in StageUpgrade(agent, Release[1], Release[2])
    BY <1>4 DEF Handled, op
  <2> QED BY <1>2, <2>1, HostValues, StageUpgradeOnly DEF Blank
<1>5. CASE op = "switch" \/ op = "rollback"
  <2>1. ASSUME NEW v \in Versions, NEW z \in SwitchVersion(agent, v), t = Refused(z)
        PROVE  Blank(t)
    <3>1. OnlyRun(agent, z) /\ z.run.sb = None
      BY <1>2, <2>1, SwitchNone
    <3>2. Sound(z)
      BY <1>2, <2>1, SwitchVersionSound
    <3> QED BY <2>1, <3>1, <3>2, RefusedMoves DEF Blank, OnlyRun, Kin
  <2>2. t = Refused(agent) => Blank(t)
    BY <1>2, RefusedMoves DEF Blank, Kin
  <2>3. CASE op = "switch"
    <3>1. t \in ActivateUpgrade(agent, Release[1], Release[2])
      BY <2>3 DEF Handled, op
    <3>2. \/ t = Refused(agent)
          \/ \E z \in SwitchVersion(agent, Release[1]) : t = Refused(z)
      BY <3>1 DEF ActivateUpgrade
    <3> QED BY <2>1, <2>2, <3>2, HostValues
  <2>4. CASE op = "rollback"
    <3>1. t \in Rollback(agent)
      BY <2>4 DEF Handled, op
    <3>2. \/ t = Refused(agent)
          \/ /\ agent.slots.previous # None
             /\ \E z \in SwitchVersion(agent, agent.slots.previous) : t = Refused(z)
      BY <3>1 DEF Rollback
    <3>3. agent.slots.previous \in Opt(Versions)
      BY <1>2, Parts DEF Slots
    <3> QED BY <2>1, <2>2, <3>2, <3>3 DEF Opt
  <2> QED BY <1>5, <2>3, <2>4
<1>6. CASE op = "stop"
  <2>1. t \in StopGuestRuntime(agent)
    BY <1>6 DEF Handled, op
  <2> QED BY <1>2, <2>1, StopRuntimeKeeps DEF Blank
<1>7. CASE op \in {"ready", "resolve", "query", "status"}
  <2>1. t \in StatusResponse(agent)
    BY <1>7 DEF Handled, op
  <2> QED BY <1>2, <2>1, StatusBlank
<1> QED BY <1>1, <1>3, <1>4, <1>5, <1>6, <1>7 DEF SyncOps, UpgradeOps, op

\* Without a session on trial no request but an activation changes what is committed,
\* and none begins a session.
LEMMA HandledKeeps ==
  ASSUME HostSound, NEW x \in Connection, NEW t, Handled(x.op, t),
         agent.pending = None, x.op # "activate"
  PROVE  t.pending = None /\ t.log.committed = agent.log.committed
<1> DEFINE op == x.op
<1>1. op \in SyncOps \cup UpgradeOps \cup {"stop", "status"}
  BY DEF Connection
<1> HIDE DEF op
<1>2. Sound(agent)
  BY DEF HostSound
<1>3. CASE op = "config" \/ op = "plan"
  <2>1. \/ t \in StageConfig(agent, sync.target[1])
        \/ t \in StageModulePlan(agent, sync.target[2])
    BY <1>3 DEF Handled, op
  <2> QED BY <1>2, <2>1, HostValues, StagingOnly
<1>4. CASE op = "stage"
  <2>1. t \in StageUpgrade(agent, Release[1], Release[2])
    BY <1>4 DEF Handled, op
  <2> QED BY <1>2, <2>1, HostValues, StageUpgradeOnly
<1>5. CASE op = "switch" \/ op = "rollback"
  <2>1. VersionRequest(agent, t)
    <3>1. \/ t \in ActivateUpgrade(agent, Release[1], Release[2])
          \/ t \in Rollback(agent)
      BY <1>5 DEF Handled, op
    <3> QED BY <1>2, <3>1, HostValues, VersionRequests
  <2> QED BY <2>1 DEF VersionRequest, Ledger
<1>6. CASE op = "stop"
  <2>1. t \in StopGuestRuntime(agent)
    BY <1>6 DEF Handled, op
  <2> QED BY <1>2, <2>1, StopRuntimeKeeps DEF Ledger
<1>7. CASE op \in {"ready", "resolve", "query", "status"}
  <2>1. t \in StatusResponse(agent)
    BY <1>7 DEF Handled, op
  <2> QED BY <1>2, <2>1, StatusMoves DEF Stays, Ledger
<1> QED BY <1>1, <1>3, <1>4, <1>5, <1>6, <1>7 DEF SyncOps, UpgradeOps, op

\* The session of a boot is its first, and the version that runs the active one, when
\* an activation meets a blank agent.
FirstRuns(s) == First(s) /\ RunsIn(s, s.slots.active)

\* No request the host sends makes the session of a boot any but its first, nor the
\* running version any but the active one.
LEMMA HandledFirst ==
  ASSUME HostSound, NEW x \in Connection, NEW t, Handled(x.op, t),
         FirstRuns(agent), x.op = "activate" => Blank(agent)
  PROVE  FirstRuns(t)
<1> DEFINE op == x.op
<1>1. op \in SyncOps \cup UpgradeOps \cup {"stop", "status"}
  BY DEF Connection
<1> HIDE DEF op
<1>2. Sound(agent) /\ First(agent) /\ RunsIn(agent, agent.slots.active)
  BY DEF HostSound, FirstRuns
<1>3. CASE op = "config" \/ op = "plan"
  <2>1. \/ t \in StageConfig(agent, sync.target[1])
        \/ t \in StageModulePlan(agent, sync.target[2])
    BY <1>3 DEF Handled, op
  <2>2. t.pending = agent.pending /\ t.slots = agent.slots /\ t.run = agent.run
    BY <1>2, <2>1, HostValues, StagingOnly
  <2> QED BY <1>2, <2>2 DEF FirstRuns, First, RunsIn
<1>4. CASE op = "stage"
  <2>1. t \in StageUpgrade(agent, Release[1], Release[2])
    BY <1>4 DEF Handled, op
  <2>2. /\ t.pending = agent.pending /\ t.slots.active = agent.slots.active
        /\ t.run = agent.run
    BY <1>2, <2>1, HostValues, StageUpgradeOnly
  <2> QED BY <1>2, <2>2 DEF FirstRuns, First, RunsIn
<1>5. CASE op = "activate"
  <2>1. t \in ActivateSession(agent, sync.target[1], sync.target[2])
    BY <1>5 DEF Handled, op
  <2>2. Blank(agent)
    BY <1>5 DEF op
  <2>3. Move(agent, t) /\ RunsIn(t, agent.slots.active)
    BY <1>2, <2>1, <2>2, HostValues, ActivateMoves DEF Blank
  <2>4. First(t)
    <3>1. t.pending = None \/ Begins(agent, t)
      BY <2>2, <2>3 DEF Move, Stays, Ends, Commits, Returns, Tears, Blank
    <3>2. Begins(agent, t) => t.pending.prevCfg = None
      BY <2>2 DEF Begins, Previous, InForce, Blank
    <3> QED BY <3>1, <3>2 DEF First
  <2> QED BY <2>3, <2>4 DEF FirstRuns, Move, Aside
<1>6. CASE op = "switch" \/ op = "rollback"
  <2>1. VersionRequest(agent, t)
    <3>1. \/ t \in ActivateUpgrade(agent, Release[1], Release[2])
          \/ t \in Rollback(agent)
      BY <1>6 DEF Handled, op
    <3> QED BY <1>2, <3>1, HostValues, VersionRequests
  <2> QED BY <1>2, <2>1 DEF VersionRequest, FirstRuns, First
<1>7. CASE op = "stop"
  <2>1. t \in StopGuestRuntime(agent)
    BY <1>7 DEF Handled, op
  <2>2. t.pending = None /\ RunsIn(t, t.slots.active)
    BY <1>2, <2>1, StopRuntimeMoves
  <2> QED BY <2>2 DEF FirstRuns, First
<1>8. CASE op \in {"ready", "resolve", "query", "status"}
  <2>1. t \in StatusResponse(agent)
    BY <1>8 DEF Handled, op
  <2>2. Move(agent, t) /\ ~Begins(agent, t)
    BY <1>2, <2>1, StatusMoves
  <2>3. RunsIn(t, agent.slots.active)
    BY <1>2, <2>1, StatusFirst
  <2>4. t.slots = agent.slots /\ t.pending \in {None, agent.pending}
    BY <2>2 DEF Move, Aside, Stays, Ends, Commits, Returns, Tears
  <2> QED BY <1>2, <2>3, <2>4 DEF FirstRuns, First
<1> QED BY <1>1, <1>3, <1>4, <1>5, <1>6, <1>7, <1>8 DEF SyncOps, UpgradeOps, op

\* Where files are written and probes do not waver, a session is atomic and what is
\* reported as ready is committed; a request keeps that, the activation of a blank
\* agent included.
Exact(s) == Atomic(s) /\ Certain(s)

\* The pair of files stays whole and certain, whichever request of the host is served.
LEMMA HandledExact ==
  ASSUME HostSound, NEW x \in Connection, NEW t, Handled(x.op, t),
         Faults \cap {"write", "flap"} = {}, Exact(agent), x.op = "activate" => Blank(agent)
  PROVE  Exact(t)
<1> DEFINE op == x.op
<1>1. op \in SyncOps \cup UpgradeOps \cup {"stop", "status"}
  BY DEF Connection
<1> HIDE DEF op
<1>2. Sound(agent) /\ Atomic(agent) /\ Certain(agent) /\ "write" \notin Faults
  BY DEF HostSound, Exact
<1>3. ASSUME Move(agent, t), Honest(t), t.log.told # None => t.pending = None
      PROVE  Exact(t)
  BY <1>2, <1>3, MoveCertain, MoveAtomic DEF Exact
<1>4. CASE op = "config" \/ op = "plan"
  <2>1. \/ t \in StageConfig(agent, sync.target[1])
        \/ t \in StageModulePlan(agent, sync.target[2])
    BY <1>4 DEF Handled, op
  <2>2. /\ InForce(t) = InForce(agent) /\ t.pending = agent.pending /\ t.log = agent.log
        /\ StagedIsWhole(t)
    BY <1>2, <2>1, HostValues, StagingOnly DEF Certain
  <2> QED BY <1>2, <2>2 DEF Exact, Atomic, Certain, FilesMatch, InForce
<1>5. CASE op = "stage"
  <2>1. t \in StageUpgrade(agent, Release[1], Release[2])
    BY <1>5 DEF Handled, op
  <2>2. t.files = agent.files /\ t.pending = agent.pending /\ t.log = agent.log
    BY <1>2, <2>1, HostValues, StageUpgradeOnly
  <2> QED BY <1>2, <2>2 DEF Exact, Atomic, Certain, StagedIsWhole, FilesMatch, InForce
<1>6. CASE op = "activate"
  <2>1. t \in ActivateSession(agent, sync.target[1], sync.target[2])
    BY <1>6 DEF Handled, op
  <2>2. agent.pending = None
    BY <1>6 DEF op, Blank
  <2>3. Move(agent, t) /\ Honest(t) /\ (t.log.told # None => t.pending = None)
    BY <1>2, <2>1, <2>2, HostValues, ActivateMoves
  <2> QED BY <1>3, <2>3
<1>7. CASE op = "switch" \/ op = "rollback"
  <2>1. VersionRequest(agent, t)
    <3>1. \/ t \in ActivateUpgrade(agent, Release[1], Release[2])
          \/ t \in Rollback(agent)
      BY <1>7 DEF Handled, op
    <3> QED BY <1>2, <3>1, HostValues, VersionRequests
  <2> QED BY <1>2, <2>1
        DEF VersionRequest, Ledger, Exact, Atomic, Certain, StagedIsWhole, FilesMatch, InForce
<1>8. CASE op = "stop"
  <2>1. t \in StopGuestRuntime(agent)
    BY <1>8 DEF Handled, op
  <2>2. Move(agent, t) /\ Honest(t) /\ t.log.told = None
    BY <1>2, <2>1, StopRuntimeMoves
  <2> QED BY <1>3, <2>2
<1>9. CASE op \in {"ready", "resolve", "query", "status"}
  <2>1. t \in StatusResponse(agent)
    BY <1>9 DEF Handled, op
  <2>2. Move(agent, t) /\ Honest(t) /\ (t.log.told # None => t.pending = None)
    BY <1>2, <2>1, StatusMoves DEF Certain
  <2> QED BY <1>3, <2>2
<1> QED BY <1>1, <1>4, <1>5, <1>6, <1>7, <1>8, <1>9 DEF SyncOps, UpgradeOps, op

\* What the children do, and the passing of time, changes none of this.
LEMMA EnvironmentKeeps ==
  ASSUME HostSound, Environment
  PROVE  /\ Sound(agent') /\ agent'.slots = agent.slots /\ agent'.log = agent.log
         /\ agent.pending = None => agent'.pending = None
         /\ Blank(agent) => Blank(agent')
         /\ FirstRuns(agent) => FirstRuns(agent')
         /\ Exact(agent) => Exact(agent')
<1>1. Sound(agent) /\ Sound(agent')
  BY EnvironmentSound DEF HostSound
<1>2. /\ agent'.files = agent.files /\ agent'.slots = agent.slots
      /\ agent'.log = agent.log
      /\ agent'.run.sb = agent.run.sb /\ agent'.run.fault = agent.run.fault
      /\ \/ agent'.pending = agent.pending
         \/ /\ agent.pending # None
            /\ agent'.pending = [agent.pending EXCEPT !.late = TRUE]
  BY <1>1, EnvironmentOnly
<1>3. ASSUME agent.pending # None, agent'.pending = [agent.pending EXCEPT !.late = TRUE]
      PROVE  /\ agent'.pending # None /\ Previous(agent'.pending) = Previous(agent.pending)
             /\ agent'.pending.cfg = agent.pending.cfg
             /\ agent'.pending.plan = agent.pending.plan
  <2>1. agent.pending \in PendingSession
    BY <1>1, <1>3, Parts DEF Opt
  <2> QED BY <1>3, <2>1, LateOnly
<1>4. agent.pending = None => agent'.pending = None
  BY <1>2
<1>5. FirstRuns(agent) => FirstRuns(agent')
  BY <1>2, <1>3 DEF FirstRuns, First, RunsIn, Previous
<1>6. ASSUME Exact(agent) PROVE Exact(agent')
  <2>1. Atomic(agent')
    BY <1>2, <1>3, <1>6 DEF Exact, Atomic, InForce
  <2>2. Certain(agent')
    BY <1>2, <1>3, <1>6 DEF Exact, Certain, StagedIsWhole, FilesMatch, InForce
  <2> QED BY <2>1, <2>2 DEF Exact
<1> QED BY <1>1, <1>2, <1>4, <1>5, <1>6 DEF Blank

-------------------------------------------------------------------------------
(* The steps of the host.                                                  *)

\* A client goes on, or is answered.
LEMMA CallerGoes ==
  ASSUME NEW places, NEW c \in Caller(places), NEW place \in places
  PROVE  /\ Goes(c, place) \in Caller(places)
         /\ Goes(c, place).at = place /\ ~Goes(c, place).asked
         /\ Goes(c, place).reply = None /\ Goes(c, place).boot = c.boot
BY DEF Goes, Caller, Opt

\* An answer reaches the caller whose request is alive in this boot, and nobody else.
LEMMA CallerAnswered ==
  ASSUME NEW places, NEW c \in Caller(places), NEW ops, NEW x \in Connection, NEW r \in Reply,
         boots \in Nat
  PROVE  LET d == Answered(c, ops, x, r) IN
         /\ d \in Caller(places) /\ d.at = c.at /\ d.asked = c.asked
         /\ x.live /\ x.op \in ops => d.reply = r /\ d.boot = boots
         /\ ~(x.live /\ x.op \in ops) => d = c
BY DEF Answered, Caller, Opt

\* Only a client that waits for an answer reads a connection.
LEMMA Unread ==
  ASSUME NEW q, NEW ops, NEW c, Awaited(q, ops, c),
         c.at \notin ops \/ c.reply # None \/ ~c.asked
  PROVE  \A d : Awaited(q, ops, d)
BY DEF Awaited

\* The agent serves the oldest connection; its answer r goes to the client that still
\* reads it.
Served(r) ==
  LET x == Head(backlog) IN
  /\ backlog # <<>> /\ x \in Connection /\ r \in Reply
  /\ Handled(x.op, agent') /\ Tells(x.op, agent', r) /\ Sound(agent')
  /\ x.op \notin {"switch", "rollback"} => agent'.slots.active = agent.slots.active
  /\ sync' \in [client : {Answered(sync.client, SyncOps, x, r)}, target : {sync.target},
                late : BOOLEAN, cancelled : BOOLEAN]
  /\ upgrade' = Answered(upgrade, UpgradeOps, x, r)
  /\ backlog' = Tail(backlog)
  /\ UNCHANGED <<thread, boots>>

\* Each outcome of Serve is a request handled, an answer told and a backlog shortened.
LEMMA ServeServes ==
  ASSUME HostSound, Serve
  PROVE  \E r : Served(r)
<1> DEFINE x == Head(backlog)
<1>1. PICK o \in Outcomes(x.op) :
        /\ agent' = o[1]
        /\ sync' = [sync EXCEPT !.client = Answered(@, SyncOps, x, o[2])]
        /\ upgrade' = Answered(upgrade, UpgradeOps, x, o[2])
  BY DEF Serve
<1>2. backlog # <<>> /\ x \in Connection
  BY TailQueue DEF Serve, HostSound
<1> HIDE DEF x
<1>3. Handled(x.op, agent') /\ Tells(x.op, agent', o[2])
  BY <1>1, <1>2, OutcomeHandled
<1>4. /\ Sound(agent')
      /\ x.op \notin {"switch", "rollback"} => agent'.slots.active = agent.slots.active
  BY <1>2, <1>3, HandledSound
<1>5. o[2] \in Reply
  <2>1. /\ Plain("ok") \in Reply /\ Plain("error") \in Reply
        /\ Plain("accepted") \in Reply /\ Plain("active") \in Reply
    BY DEF Plain, Reply, Opt
  <2>2. agent'.log.told \in Opt(Pair) /\ agent'.slots.active \in Opt(Versions)
    BY <1>4, Parts DEF History, Slots
  <2>3. Reports(agent') \subseteq Reply
    BY <2>2 DEF Reports, Reply
  <2>4. x.op \in SyncOps \cup UpgradeOps \cup {"stop", "status"}
    BY <1>2 DEF Connection
  <2> QED BY <1>3, <2>1, <2>3, <2>4 DEF Tells, SyncOps, UpgradeOps
<1>6. sync' \in [client : {Answered(sync.client, SyncOps, x, o[2])}, target : {sync.target},
                 late : BOOLEAN, cancelled : BOOLEAN]
  BY <1>1 DEF HostSound
<1>7. Served(o[2])
  BY <1>1, <1>2, <1>3, <1>4, <1>5, <1>6 DEF Served, Serve, x
<1> QED BY <1>7

\* Until the activation of this boot is sent.
Unsent ==
  \/ sync.client.at \in {"idle", "config", "plan"}
  \/ sync.client.at = "activate" /\ ~sync.client.asked

\* An answer on which a start is taken for successful.
Convincing(r) == r # None /\ (r.says = "active" \/ r.pair = sync.target)

\* The start worker leaves what it asked for, heard or not, and goes on.
SyncGoes(place) ==
  /\ sync' \in [client : {Goes(sync.client, place)}, target : {sync.target},
                late : BOOLEAN, cancelled : BOOLEAN]
  /\ place \in SyncPlaces
  /\ \/ backlog' = Hung(backlog, SyncOps)
     \/ /\ backlog' = backlog
        /\ sync.client.reply # None \/ ~sync.client.asked
  /\ place \in {"idle", "config", "plan", "activate"} => Unsent
  /\ place = "synced" => Convincing(sync.client.reply)
  /\ SyncOnly

\* Each step of the start worker other than a beginning or a request is such a move.
LEMMA SyncGoesOn ==
  ASSUME HostSound,
         SyncHears \/ SyncBreaks \/ SyncUnconnected \/ SliceEnds \/ SyncLate \/ SyncCancelled
  PROVE  \E place : SyncGoes(place)
<1> DEFINE c == sync.client
<1>1. /\ sync \in [client : Caller(SyncPlaces), target : StartPairs, late : BOOLEAN,
                   cancelled : BOOLEAN]
      /\ c.at \in SyncPlaces /\ SyncOps \subseteq SyncPlaces
  BY DEF HostSound, Caller, SyncPlaces
<1>2. ASSUME NEW place, SyncTo(place)
      PROVE  sync' \in [client : {Goes(c, place)}, target : {sync.target},
                        late : BOOLEAN, cancelled : BOOLEAN]
  BY <1>1, <1>2 DEF SyncTo
<1>3. ASSUME NEW ops, Hangs(ops) PROVE backlog' = Hung(backlog, ops)
  BY <1>3 DEF Hangs, Hung
<1>4. ASSUME SyncLoses
      PROVE  \E place \in {"failed", "resolve"} :
               sync' \in [client : {Goes(c, place)}, target : {sync.target},
                          late : BOOLEAN, cancelled : BOOLEAN]
  <2> DEFINE n == AfterLoss(c.at)
             place == IF sync.cancelled THEN "failed" ELSE n
             late == sync.late /\ n = c.at
  <2>1. n \in {"failed", "resolve"}
    BY DEF AfterLoss
  <2>2. place \in {"failed", "resolve"}
    BY <2>1
  <2>3. late \in BOOLEAN
    OBVIOUS
  <2>4. sync' = [sync EXCEPT !.client = Goes(@, place), !.late = late]
    BY <1>4 DEF SyncLoses
  <2> HIDE DEF place, late
  <2>5. sync' \in [client : {Goes(c, place)}, target : {sync.target},
                   late : BOOLEAN, cancelled : BOOLEAN]
    BY <1>1, <2>3, <2>4
  <2> QED BY <2>2, <2>5
<1>5. "failed" \in SyncPlaces /\ "resolve" \in SyncPlaces /\ "ready" \in SyncPlaces
  BY DEF SyncPlaces, SyncOps
<1> HIDE DEF c
<1>6. CASE SyncHears
  <2> DEFINE place == AfterAnswer(c.at, c.reply)
  <2>1. c.at \in SyncOps /\ c.reply # None /\ SyncTo(place) /\ backlog' = backlog /\ SyncOnly
    BY <1>6 DEF SyncHears, Syncing, c
  <2>2. /\ place \in SyncPlaces
        /\ place \in {"idle", "config", "plan", "activate"} => c.at \in {"config", "plan"}
        /\ place = "synced" => c.reply.says = "active" \/ c.reply.pair = sync.target
    BY <2>1 DEF AfterAnswer, SyncPlaces, SyncOps, Serving, Blamed
  <2> HIDE DEF place
  <2>3. SyncGoes(place)
    BY <1>2, <2>1, <2>2 DEF SyncGoes, Unsent, Convincing, c
  <2> QED BY <2>3
<1>7. CASE SyncBreaks \/ (SyncLate /\ SyncLoses)
  <2>1. SyncLoses /\ Hangs(SyncOps) /\ SyncOnly
    BY <1>7 DEF SyncBreaks, SyncLate
  <2>2. PICK place \in {"failed", "resolve"} :
          sync' \in [client : {Goes(c, place)}, target : {sync.target},
                     late : BOOLEAN, cancelled : BOOLEAN]
    BY <1>4, <2>1
  <2>3. SyncGoes(place)
    BY <1>3, <1>5, <2>1, <2>2 DEF SyncGoes, c
  <2> QED BY <2>3
<1>8. CASE SyncUnconnected
  <2>1. SyncTo("failed") /\ backlog' = backlog /\ SyncOnly /\ ~c.asked
    BY <1>8 DEF SyncUnconnected, c
  <2>2. SyncGoes("failed")
    BY <1>2, <1>5, <2>1 DEF SyncGoes, c
  <2> QED BY <2>2
<1>9. CASE SliceEnds \/ SyncCancelled \/ (SyncLate /\ SyncTo("failed"))
  <2>1. PICK place \in {"failed", "ready"} : SyncTo(place) /\ Hangs(SyncOps) /\ SyncOnly
    BY <1>9 DEF SliceEnds, SyncCancelled, SyncLate
  <2>2. SyncGoes(place)
    BY <1>2, <1>3, <1>5, <2>1 DEF SyncGoes, c
  <2> QED BY <2>2
<1>10. SyncLate => SyncLoses \/ SyncTo("failed")
  BY DEF SyncLate
<1> QED BY <1>6, <1>7, <1>8, <1>9, <1>10

\* The upgrade command leaves what it asked for, heard or not, and goes on.
UpgradeGoes(place) ==
  /\ upgrade' = Goes(upgrade, place) /\ place \in UpgradePlaces \ {"idle"}
  /\ \/ backlog' = Hung(backlog, UpgradeOps)
     \/ /\ backlog' = backlog
        /\ upgrade.at \notin UpgradeOps \/ upgrade.reply # None
  /\ place = "stage"    => upgrade.at = "idle"
  /\ place = "switch"   => upgrade.at = "stage"
  /\ place = "query"    => /\ upgrade.at = "switch"
                           /\ upgrade.asked \/ upgrade.reply # None
  /\ place = "rollback" => /\ upgrade.at = "query" /\ upgrade.reply # None
                           /\ upgrade.reply.active = Release[1]
  /\ place = "upgraded" => /\ upgrade.reply # None
                           /\ \/ upgrade.at = "switch" /\ upgrade.reply.says = "active"
                              \/ upgrade.at = "query" /\ upgrade.reply.active = Release[1]
  /\ place = "kept"     => /\ upgrade.at = "query" /\ upgrade.reply # None
                           /\ upgrade.reply.active # Release[1]
  /\ UpgradeOnly

\* Each step of the upgrade command other than a request is such a move.
LEMMA UpgradeGoesOn ==
  ASSUME HostSound, BeginUpgrade \/ UpgradeHears \/ UpgradeUnanswered
  PROVE  \E place : UpgradeGoes(place)
<1>1. CASE BeginUpgrade
  <2>1. UpgradeGoes("stage")
    BY <1>1 DEF BeginUpgrade, UpgradeGoes, UpgradePlaces, UpgradeOps
  <2> QED BY <2>1
<1>2. CASE UpgradeHears
  <2> DEFINE place == UpgradeAfter(upgrade.at, upgrade.reply)
  <2>1. /\ upgrade.at \in UpgradeOps /\ upgrade.reply # None
        /\ upgrade' = Goes(upgrade, place) /\ backlog' = backlog /\ UpgradeOnly
    BY <1>2 DEF UpgradeHears
  <2>2. UpgradeGoes(place)
    BY <2>1 DEF UpgradeGoes, UpgradeAfter, UpgradePlaces, UpgradeOps
  <2> QED BY <2>2
<1>3. CASE UpgradeUnanswered
  <2> DEFINE place == UpgradeLoss(upgrade.at, upgrade.asked)
  <2>1. /\ upgrade' = Goes(upgrade, place) /\ Hangs(UpgradeOps) /\ UpgradeOnly
    BY <1>3 DEF UpgradeUnanswered
  <2>2. backlog' = Hung(backlog, UpgradeOps)
    BY <2>1 DEF Hangs, Hung
  <2>3. UpgradeGoes(place)
    BY <2>1, <2>2 DEF UpgradeGoes, UpgradeLoss, UpgradePlaces, UpgradeOps
  <2> QED BY <2>3
<1> QED BY <1>1, <1>2, <1>3

\* A step that neither client takes: at most a stop or a status that nobody reads.
Aloof ==
  /\ UNCHANGED <<agent, upgrade, boots>> /\ thread' \in BOOLEAN
  /\ sync' \in [client : {sync.client}, target : {sync.target}, late : BOOLEAN,
                cancelled : BOOLEAN]
  /\ \/ backlog' = backlog
     \/ \E op \in {"stop", "status"} :
          /\ Len(backlog) < MaxBacklog
          /\ backlog' = Append(backlog, [op |-> op, live |-> FALSE])

\* The steps of the host, by what they do to the agent and to the backlog.
LEMMA HostSteps ==
  ASSUME HostSound, [HostNext]_hostVars
  PROVE  \/ \E r : Served(r)
         \/ GuestRuns
         \/ BeginSync \/ SyncAsks \/ \E place : SyncGoes(place)
         \/ UpgradeAsks \/ \E place : UpgradeGoes(place)
         \/ Reboot \/ Aloof
<1>1. /\ sync \in [client : Caller(SyncPlaces), target : StartPairs, late : BOOLEAN,
                   cancelled : BOOLEAN]
      /\ sync \in [client : {sync.client}, target : {sync.target}, late : BOOLEAN,
                   cancelled : BOOLEAN]
      /\ thread \in BOOLEAN
  BY DEF HostSound
<1>2. CASE SyncDeadlinePasses \/ Cancel
  BY <1>1, <1>2 DEF SyncDeadlinePasses, Cancel, SyncOnly, Aloof
<1>3. CASE ThreadConnects \/ ThreadGivesUp \/ StatusAsked \/ UNCHANGED hostVars
  BY <1>1, <1>3 DEF ThreadConnects, ThreadGivesUp, StatusAsked, hostVars, Aloof
<1>4. CASE Serve
  BY <1>4, ServeServes
<1>5. CASE SyncHears \/ SyncBreaks \/ SyncUnconnected \/ SliceEnds \/ SyncLate \/ SyncCancelled
  BY <1>5, SyncGoesOn
<1>6. CASE BeginUpgrade \/ UpgradeHears \/ UpgradeUnanswered
  BY <1>6, UpgradeGoesOn
<1> QED BY <1>2, <1>3, <1>4, <1>5, <1>6 DEF HostNext, SyncStep, UpgradeStep

\* A connection closed, or one more within the bound: the backlog stays one.
LEMMA BacklogBounded ==
  ASSUME HostSound
  PROVE  /\ \A ops : Hung(backlog, ops) \in Queue /\ Len(Hung(backlog, ops)) <= MaxBacklog
         /\ \A x \in Connection : Len(backlog) < MaxBacklog
              => Append(backlog, x) \in Queue /\ Len(Append(backlog, x)) <= MaxBacklog
         /\ backlog # <<>> => Tail(backlog) \in Queue /\ Len(Tail(backlog)) <= MaxBacklog
<1>1. /\ backlog \in Queue /\ Len(backlog) \in Nat /\ Len(backlog) <= MaxBacklog
      /\ MaxBacklog \in Nat
  BY Positions, HostAssumption DEF HostSound
<1>2. \A ops : Hung(backlog, ops) \in Queue /\ Len(Hung(backlog, ops)) <= MaxBacklog
  BY <1>1, HungQueue
<1>3. ASSUME NEW x \in Connection, Len(backlog) < MaxBacklog
      PROVE  Append(backlog, x) \in Queue /\ Len(Append(backlog, x)) <= MaxBacklog
  BY <1>1, <1>3, AppendQueue
<1>4. ASSUME backlog # <<>>
      PROVE  Tail(backlog) \in Queue /\ Len(Tail(backlog)) <= MaxBacklog
  BY <1>1, <1>4, TailQueue
<1> QED BY <1>2, <1>3, <1>4

\* The base invariant: the variables keep their types, and the agent is sound.
LEMMA HostSoundInit == HostInit => HostSound
<1> SUFFICES ASSUME HostInit PROVE HostSound
  OBVIOUS
<1>1. Sound(agent)
  BY BootedSound DEF HostInit
<1>2. Fresh \in Caller(SyncPlaces) /\ Fresh \in Caller(UpgradePlaces)
  BY DEF Fresh, Caller, SyncPlaces, UpgradePlaces, Opt
<1>3. (CHOOSE s \in StartPairs : TRUE) \in StartPairs
  BY HostAssumption
<1>4. sync \in [client : Caller(SyncPlaces), target : StartPairs, late : BOOLEAN,
                cancelled : BOOLEAN]
  BY <1>2, <1>3 DEF HostInit
<1>5. backlog \in Queue /\ Len(backlog) <= MaxBacklog
  BY EmptySeq, HostAssumption DEF HostInit, Queue
<1>6. boots \in 1..MaxBoots
  BY HostAssumption DEF HostInit
<1> QED BY <1>1, <1>2, <1>4, <1>5, <1>6 DEF HostSound, HostInit

\* Every step of the host and of the agent keeps the types, the order of the backlog and
\* the soundness of the agent.
LEMMA HostSoundStep ==
  ASSUME HostSound, [HostNext]_hostVars
  PROVE  HostSound'
<1>1. /\ Sound(agent) /\ sync.client \in Caller(SyncPlaces) /\ sync.target \in StartPairs
      /\ sync \in [client : Caller(SyncPlaces), target : StartPairs, late : BOOLEAN,
                   cancelled : BOOLEAN]
      /\ upgrade \in Caller(UpgradePlaces) /\ thread \in BOOLEAN
      /\ boots \in 1..MaxBoots /\ backlog \in Queue /\ Len(backlog) <= MaxBacklog
      /\ boots \in Nat /\ MaxBoots \in Nat /\ MaxBacklog \in Nat
  BY HostValues, HostAssumption DEF HostSound
<1>2. ASSUME NEW r, Served(r) PROVE HostSound'
  <2> DEFINE x == Head(backlog)
  <2>1. x \in Connection /\ r \in Reply /\ Sound(agent') /\ backlog # <<>>
    BY <1>2 DEF Served
  <2>2. /\ Answered(sync.client, SyncOps, x, r) \in Caller(SyncPlaces)
        /\ Answered(upgrade, UpgradeOps, x, r) \in Caller(UpgradePlaces)
    BY <1>1, <2>1, CallerAnswered
  <2>3. Tail(backlog) \in Queue /\ Len(Tail(backlog)) <= MaxBacklog
    BY <2>1, BacklogBounded
  <2> QED BY <1>1, <1>2, <2>1, <2>2, <2>3 DEF HostSound, Served
<1>3. CASE GuestRuns
  <2>1. Sound(agent')
    BY <1>1, <1>3, EnvironmentSound DEF GuestRuns
  <2> QED BY <1>1, <1>3, <2>1 DEF HostSound, GuestRuns
<1>4. CASE BeginSync
  <2>1. PICK t \in StartPairs :
          sync' = [client |-> [Fresh EXCEPT !.at = "config"], target |-> t, late |-> FALSE,
                   cancelled |-> FALSE]
    BY <1>4 DEF BeginSync
  <2>2. [Fresh EXCEPT !.at = "config"] \in Caller(SyncPlaces)
    BY DEF Fresh, Caller, SyncPlaces, SyncOps, Opt
  <2> QED BY <1>1, <1>4, <2>1, <2>2 DEF HostSound, BeginSync, SyncOnly
<1>5. CASE SyncAsks
  <2>1. /\ Len(backlog) < MaxBacklog /\ sync.client.at \in SyncOps
        /\ backlog' = Append(backlog, [op |-> sync.client.at, live |-> TRUE])
        /\ sync' = [sync EXCEPT !.client.asked = TRUE]
        /\ UNCHANGED <<agent, upgrade, thread, boots>>
    BY <1>5 DEF SyncAsks, Asks, Syncing, SyncOnly
  <2>2. [op |-> sync.client.at, live |-> TRUE] \in Connection
    BY <2>1 DEF Connection
  <2>3. backlog' \in Queue /\ Len(backlog') <= MaxBacklog
    BY <2>1, <2>2, BacklogBounded
  <2>4. sync' \in [client : Caller(SyncPlaces), target : StartPairs, late : BOOLEAN,
                   cancelled : BOOLEAN]
    BY <1>1, <2>1 DEF Caller
  <2> QED BY <1>1, <2>1, <2>3, <2>4 DEF HostSound
<1>6. ASSUME NEW place, SyncGoes(place) PROVE HostSound'
  <2>1. Goes(sync.client, place) \in Caller(SyncPlaces)
    BY <1>1, <1>6, CallerGoes DEF SyncGoes
  <2>2. backlog' \in Queue /\ Len(backlog') <= MaxBacklog
    BY <1>1, <1>6, BacklogBounded DEF SyncGoes
  <2> QED BY <1>1, <1>6, <2>1, <2>2 DEF HostSound, SyncGoes, SyncOnly
<1>7. CASE UpgradeAsks
  <2>1. /\ Len(backlog) < MaxBacklog /\ upgrade.at \in UpgradeOps
        /\ backlog' = Append(backlog, [op |-> upgrade.at, live |-> TRUE])
        /\ upgrade' = [upgrade EXCEPT !.asked = TRUE]
        /\ UNCHANGED <<agent, sync, thread, boots>>
    BY <1>7 DEF UpgradeAsks, Asks, UpgradeOnly
  <2>2. [op |-> upgrade.at, live |-> TRUE] \in Connection
    BY <2>1 DEF Connection
  <2>3. backlog' \in Queue /\ Len(backlog') <= MaxBacklog
    BY <2>1, <2>2, BacklogBounded
  <2>4. upgrade' \in Caller(UpgradePlaces)
    BY <1>1, <2>1 DEF Caller
  <2> QED BY <1>1, <2>1, <2>3, <2>4 DEF HostSound
<1>8. ASSUME NEW place, UpgradeGoes(place) PROVE HostSound'
  <2>1. Goes(upgrade, place) \in Caller(UpgradePlaces)
    BY <1>1, <1>8, CallerGoes DEF UpgradeGoes
  <2>2. backlog' \in Queue /\ Len(backlog') <= MaxBacklog
    BY <1>1, <1>8, BacklogBounded DEF UpgradeGoes
  <2> QED BY <1>1, <1>8, <2>1, <2>2 DEF HostSound, UpgradeGoes, UpgradeOnly
<1>9. CASE Reboot
  <2>1. Sound(agent')
    BY <1>9, BootedSound DEF Reboot
  <2>2. Fresh \in Caller(SyncPlaces)
    BY DEF Fresh, Caller, SyncPlaces, Opt
  <2>3. sync' \in [client : Caller(SyncPlaces), target : StartPairs, late : BOOLEAN,
                   cancelled : BOOLEAN]
    BY <1>1, <1>9, <2>2 DEF Reboot
  <2>4. backlog' \in Queue /\ Len(backlog') <= MaxBacklog
    BY <1>1, <1>9, EmptySeq DEF Reboot, Queue
  <2>5. boots' \in 1..MaxBoots
    BY <1>1, <1>9 DEF Reboot
  <2>6. thread' \in BOOLEAN
    BY <1>1, <1>9 DEF Reboot
  <2> QED BY <1>1, <1>9, <2>1, <2>3, <2>4, <2>5, <2>6 DEF HostSound, Reboot
<1>10. CASE Aloof
  <2>1. \A op \in {"stop", "status"} : [op |-> op, live |-> FALSE] \in Connection
    BY DEF Connection
  <2>2. backlog' \in Queue /\ Len(backlog') <= MaxBacklog
    BY <1>1, <1>10, <2>1, BacklogBounded DEF Aloof
  <2> QED BY <1>1, <1>10, <2>2 DEF HostSound, Aloof
<1> QED BY <1>2, <1>3, <1>4, <1>5, <1>6, <1>7, <1>8, <1>9, <1>10, HostSteps

-------------------------------------------------------------------------------
(* A start activates once in a boot.                                       *)

\* While an activation waits, or may still be sent, the agent is blank: so the one
\* that is served meets no session, and the session it begins is the first.
OneActivation ==
  /\ Awaited(backlog, SyncOps, sync.client)
  /\ ~sync.client.asked => sync.client.reply = None
  /\ Unsent => ~Has(backlog, "activate")
  /\ Unsent \/ Has(backlog, "activate") => Blank(agent)
  /\ Once(backlog, "activate")
  /\ FirstRuns(agent)

\* What the start relies on, where files are written and probes do not waver: an
\* answer that convinces it, and the success it reports, is the committed pair, and
\* nothing is left that could begin another session.
Secured ==
  /\ agent.log.committed = sync.target /\ agent.pending = None
  /\ ~Unsent /\ ~Has(backlog, "activate")
Sure ==
  /\ Exact(agent)
  /\ Convincing(sync.client.reply) \/ sync.client.at = "synced" => Secured

\* The guest has booted, and nothing waits.
LEMMA EmptyBacklog ==
  ASSUME NEW q, q = <<>>
  PROVE  /\ \A op : ~Has(q, op) /\ Once(q, op) /\ (\A b : Before(q, op, b))
         /\ \A ops, c : Awaited(q, ops, c)
<1>1. DOMAIN q = {}
  OBVIOUS
<1> QED BY <1>1 DEF Has, Once, Before, Awaited

\* A guest that has just booted has had no activation.
LEMMA BootedBlank == Blank(Booted) /\ FirstRuns(Booted) /\ Exact(Booted)
BY BootedHolds DEF Booted, Blank, FirstRuns, First, RunsIn, Exact

\* Nothing has been sent when the host begins.
LEMMA OneActivationInit == HostInit => OneActivation /\ Sure
<1> SUFFICES ASSUME HostInit PROVE OneActivation /\ Sure
  OBVIOUS
<1>1. agent = Booted /\ sync.client = Fresh /\ backlog = <<>>
  BY DEF HostInit
<1>2. Fresh.at = "idle" /\ Fresh.reply = None /\ ~Fresh.asked
  BY DEF Fresh
<1> QED BY <1>1, <1>2, EmptyBacklog, BootedBlank DEF OneActivation, Sure, Convincing

\* A request is served.
LEMMA OneActivationServed ==
  ASSUME HostSound, OneActivation, NEW r, Served(r)
  PROVE  OneActivation'
<1> DEFINE x == Head(backlog)
           c == sync.client
           d == Answered(c, SyncOps, x, r)
<1>1. /\ backlog \in Queue /\ backlog # <<>> /\ x \in Connection /\ r \in Reply
      /\ Handled(x.op, agent') /\ backlog' = Tail(backlog) /\ sync'.client = d
      /\ c \in Caller(SyncPlaces) /\ boots \in Nat
  BY HostValues DEF Served, HostSound
<1>2. /\ d.at = c.at /\ d.asked = c.asked
      /\ x.live /\ x.op \in SyncOps => d.reply = r
      /\ ~(x.live /\ x.op \in SyncOps) => d = c
  <2> HIDE DEF x, c
  <2> QED BY <1>1 DEF Answered, Caller
<1>3. /\ Awaited(Tail(backlog), SyncOps, c)
      /\ x.live /\ x.op \in SyncOps => c.asked /\ \A e : Awaited(Tail(backlog), SyncOps, e)
  BY <1>1, TailAwaited DEF OneActivation
<1>4. /\ Has(Tail(backlog), "activate") => Has(backlog, "activate")
      /\ Once(Tail(backlog), "activate")
      /\ x.op = "activate" => ~Has(Tail(backlog), "activate")
  BY <1>1, TailKeeps DEF OneActivation
<1>5. x.op = "activate" => Has(backlog, "activate")
  <2>1. 1 \in DOMAIN backlog /\ x = backlog[1]
    BY <1>1, TailQueue
  <2> QED BY <2>1 DEF Has
<1>6. FirstRuns(agent')
  BY <1>1, <1>5, HandledFirst DEF OneActivation
<1> HIDE DEF x, d
<1>7. Awaited(Tail(backlog), SyncOps, d)
  BY <1>2, <1>3
<1>8. ~d.asked => d.reply = None
  BY <1>2, <1>3 DEF OneActivation
<1>9. Unsent' <=> Unsent
  BY <1>1, <1>2 DEF Unsent
<1>10. ASSUME Unsent \/ Has(Tail(backlog), "activate") PROVE Blank(agent')
  <2>1. x.op # "activate" /\ Blank(agent)
    BY <1>4, <1>5, <1>10 DEF OneActivation
  <2> QED BY <1>1, <2>1, HandledBlank
<1> QED BY <1>1, <1>4, <1>6, <1>7, <1>8, <1>9, <1>10 DEF OneActivation

\* Every step keeps it: an activation is sent once in a boot, and served by a blank agent
\* or lost with its boot.
LEMMA OneActivationStep ==
  ASSUME HostSound, OneActivation, [HostNext]_hostVars
  PROVE  OneActivation'
<1>1. /\ backlog \in Queue /\ sync.client \in Caller(SyncPlaces)
      /\ sync.client.at \in SyncPlaces
  BY DEF HostSound, Caller
<1>2. ASSUME NEW r, Served(r) PROVE OneActivation'
  BY <1>2, OneActivationServed
<1>3. CASE GuestRuns
  <2>1. (Blank(agent) => Blank(agent')) /\ (FirstRuns(agent) => FirstRuns(agent'))
    BY <1>3, EnvironmentKeeps DEF GuestRuns
  <2> QED BY <1>3, <2>1 DEF OneActivation, Unsent, GuestRuns
<1>4. CASE BeginSync
  <2>1. /\ sync.client.at = "idle" /\ UNCHANGED <<agent, backlog>>
        /\ sync'.client = [Fresh EXCEPT !.at = "config"]
    BY <1>4 DEF BeginSync, SyncOnly
  <2>2. /\ sync'.client.at = "config" /\ ~sync'.client.asked
        /\ sync'.client.reply = None
    BY <2>1 DEF Fresh
  <2>3. Awaited(backlog, SyncOps, sync'.client)
    BY <2>1, Unread DEF OneActivation, SyncOps
  <2>4. Unsent
    BY <2>1 DEF Unsent
  <2> QED BY <2>1, <2>2, <2>3, <2>4 DEF OneActivation
<1>5. CASE SyncAsks
  <2> DEFINE x == [op |-> sync.client.at, live |-> TRUE]
  <2>1. /\ sync.client.at \in SyncOps /\ backlog' = Append(backlog, x)
        /\ sync' = [sync EXCEPT !.client.asked = TRUE]
        /\ agent' = agent /\ ~sync.client.asked
    BY <1>5 DEF SyncAsks, Asks, Syncing, SyncOnly
  <2>2. /\ sync'.client.at = sync.client.at /\ sync'.client.asked
        /\ sync'.client.reply = sync.client.reply
    BY <2>1 DEF HostSound, Caller
  <2>3. x \in Connection /\ x.op = sync.client.at
    BY <2>1 DEF Connection
  <2> HIDE DEF x
  <2>4. Awaited(Append(backlog, x), SyncOps, sync'.client)
    BY <1>1, <2>1, <2>2, <2>3, AppendAwaited DEF OneActivation
  <2>5. x.op = "activate" => Unsent
    BY <2>1, <2>3 DEF Unsent
  <2>6. /\ Has(Append(backlog, x), "activate")
             <=> Has(backlog, "activate") \/ x.op = "activate"
        /\ Once(Append(backlog, x), "activate")
    BY <1>1, <2>3, <2>5, AppendKeeps DEF OneActivation
  <2>7. Unsent' => Unsent /\ x.op # "activate"
    BY <2>1, <2>2, <2>3 DEF Unsent
  <2> QED BY <2>1, <2>2, <2>4, <2>5, <2>6, <2>7 DEF OneActivation
<1>6. ASSUME NEW place, SyncGoes(place) PROVE OneActivation'
  <2>1. /\ sync'.client = Goes(sync.client, place) /\ agent' = agent /\ place \in SyncPlaces
        /\ \/ backlog' = Hung(backlog, SyncOps)
           \/ /\ backlog' = backlog
              /\ sync.client.reply # None \/ ~sync.client.asked
    BY <1>6 DEF SyncGoes, SyncOnly
  <2>2. /\ sync'.client.at = place /\ ~sync'.client.asked /\ sync'.client.reply = None
    BY <1>1, <2>1, CallerGoes
  <2>3. /\ Awaited(backlog', SyncOps, sync'.client)
        /\ Has(backlog', "activate") <=> Has(backlog, "activate")
        /\ Once(backlog', "activate")
    BY <1>1, <2>1, HungKeeps, Unread DEF OneActivation
  <2>4. Unsent' => Unsent
    BY <1>6, <2>2 DEF Unsent, SyncGoes
  <2> QED BY <2>1, <2>2, <2>3, <2>4 DEF OneActivation
<1>7. ASSUME /\ agent' = agent /\ sync'.client = sync.client
             /\ \/ backlog' = backlog
                \/ \E ops : backlog' = Hung(backlog, ops)
                \/ \E x \in Connection : x.op \notin SyncOps /\ backlog' = Append(backlog, x)
      PROVE  OneActivation'
  <2>1. /\ Awaited(backlog', SyncOps, sync.client)
        /\ Has(backlog', "activate") <=> Has(backlog, "activate")
        /\ Once(backlog', "activate")
    <3>1. CASE backlog' = backlog
      BY <3>1 DEF OneActivation
    <3>2. CASE \E ops : backlog' = Hung(backlog, ops)
      BY <1>1, <3>2, HungKeeps DEF OneActivation
    <3>3. ASSUME NEW x \in Connection, x.op \notin SyncOps, backlog' = Append(backlog, x)
          PROVE  /\ Awaited(backlog', SyncOps, sync.client)
                 /\ Has(backlog', "activate") <=> Has(backlog, "activate")
                 /\ Once(backlog', "activate")
      <4>1. x.op # "activate"
        BY <3>3 DEF SyncOps
      <4>2. Awaited(Append(backlog, x), SyncOps, sync.client)
        BY <1>1, <3>3, AppendAwaited DEF OneActivation
      <4> QED BY <1>1, <3>3, <4>1, <4>2, AppendKeeps DEF OneActivation
    <3> QED BY <1>7, <3>1, <3>2, <3>3
  <2> QED BY <1>7, <2>1 DEF OneActivation, Unsent
<1>8. CASE UpgradeAsks
  <2> DEFINE x == [op |-> upgrade.at, live |-> TRUE]
  <2>1. /\ upgrade.at \in UpgradeOps /\ backlog' = Append(backlog, x)
        /\ UNCHANGED <<agent, sync>>
    BY <1>8 DEF UpgradeAsks, Asks, UpgradeOnly
  <2>2. x \in Connection /\ x.op \notin SyncOps
    BY <2>1 DEF Connection, SyncOps, UpgradeOps
  <2> QED BY <1>7, <2>1, <2>2
<1>9. ASSUME NEW place, UpgradeGoes(place) PROVE OneActivation'
  BY <1>7, <1>9 DEF UpgradeGoes, UpgradeOnly
<1>10. CASE Reboot
  <2>1. agent' = Booted /\ backlog' = <<>> /\ sync'.client = Fresh
    BY <1>10 DEF Reboot, HostSound
  <2>2. Fresh.at = "idle" /\ Fresh.reply = None /\ ~Fresh.asked
    BY DEF Fresh
  <2> QED BY <2>1, <2>2, EmptyBacklog, BootedBlank DEF OneActivation
<1>11. CASE Aloof
  <2>1. agent' = agent /\ sync'.client = sync.client
    BY <1>11 DEF Aloof
  <2>2. \A op \in {"stop", "status"} :
          LET x == [op |-> op, live |-> FALSE] IN x \in Connection /\ x.op \notin SyncOps
    BY DEF Connection, SyncOps
  <2>3. \/ backlog' = backlog
        \/ \E x \in Connection : x.op \notin SyncOps /\ backlog' = Append(backlog, x)
    BY <1>11, <2>2 DEF Aloof
  <2> QED BY <1>7, <2>1, <2>3
<1> QED BY <1>2, <1>3, <1>4, <1>5, <1>6, <1>8, <1>9, <1>10, <1>11, HostSteps

\* An answer convinces only when the pair is committed by then.
LEMMA SureServed ==
  ASSUME HostSound, OneActivation, Sure, Faults \cap {"write", "flap"} = {},
         NEW r, Served(r)
  PROVE  Sure'
<1> DEFINE x == Head(backlog)
           c == sync.client
           d == Answered(c, SyncOps, x, r)
<1>1. /\ backlog \in Queue /\ backlog # <<>> /\ x \in Connection /\ r \in Reply
      /\ Handled(x.op, agent') /\ Tells(x.op, agent', r)
      /\ backlog' = Tail(backlog) /\ sync'.client = d /\ sync'.target = sync.target
      /\ c \in Caller(SyncPlaces) /\ boots \in Nat /\ Sound(agent)
  BY HostValues DEF Served, HostSound
<1>2. /\ d.at = c.at /\ d.asked = c.asked
      /\ x.live /\ x.op \in SyncOps => d.reply = r
      /\ ~(x.live /\ x.op \in SyncOps) => d = c
  <2> HIDE DEF x, c
  <2> QED BY <1>1 DEF Answered, Caller
<1>3. x.live /\ x.op \in SyncOps => c.asked /\ x.op = c.at
  BY <1>1, TailAwaited DEF OneActivation
<1>4. /\ Has(Tail(backlog), "activate") => Has(backlog, "activate")
      /\ x.op = "activate" => ~Has(Tail(backlog), "activate")
  BY <1>1, TailKeeps DEF OneActivation
<1>5. x.op = "activate" => Has(backlog, "activate")
  <2>1. 1 \in DOMAIN backlog /\ x = backlog[1]
    BY <1>1, TailQueue
  <2> QED BY <2>1 DEF Has
<1> HIDE DEF x, d
<1>6. Exact(agent')
  BY <1>1, <1>5, HandledExact DEF OneActivation, Sure
<1>7. Unsent' <=> Unsent
  BY <1>1, <1>2 DEF Unsent
<1>8. ASSUME Convincing(c.reply) \/ c.at = "synced" PROVE Secured'
  <2>1. Secured
    BY <1>8 DEF Sure
  <2>2. x.op # "activate" /\ agent.pending = None
    BY <1>5, <2>1 DEF Secured
  <2>3. agent'.pending = None /\ agent'.log.committed = agent.log.committed
    BY <1>1, <2>2, HandledKeeps
  <2> QED BY <1>1, <1>4, <1>7, <2>1, <2>3 DEF Secured
<1>9. ASSUME x.live, x.op \in SyncOps, r.says = "active" \/ r.pair = sync.target
      PROVE  Secured'
  <2>1. x.op = c.at /\ c.asked /\ sync.target # None
    BY <1>3, <1>9, HostValues
  <2>2. agent'.log.told = sync.target => agent'.log.committed = sync.target
                                         /\ agent'.pending = None
    BY <1>6, <2>1 DEF Exact, Atomic, Certain
  <2>3. \A says : Plain(says).says = says /\ Plain(says).pair = None
    BY DEF Plain
  <2>4. CASE x.op = "activate"
    <3>1. /\ agent'.log.told # None
          /\ agent' \in ActivateSession(agent, sync.target[1], sync.target[2])
      BY <1>1, <1>9, <2>1, <2>3, <2>4 DEF Tells, Handled
    <3>2. agent.pending = None
      BY <1>5, <2>4 DEF OneActivation, Blank
    <3>3. agent'.log.told = sync.target
      BY <1>1, <3>1, <3>2, HostValues, ActivateMoves
    <3>4. ~Unsent
      BY <2>1, <2>4 DEF Unsent
    <3> QED BY <1>1, <1>4, <1>7, <2>2, <2>4, <3>3, <3>4 DEF Secured
  <2>5. CASE x.op \in {"ready", "resolve"}
    <3>1. r \in Reports(agent')
      BY <1>1, <2>5 DEF Tells
    <3>2. agent'.log.told = sync.target
      BY <1>9, <3>1 DEF Reports
    <3>3. ~Unsent
      BY <2>1, <2>5 DEF Unsent
    <3>4. ~Has(backlog, "activate")
      <4>1. SUFFICES ASSUME Blank(agent) PROVE FALSE
        BY DEF OneActivation
      <4>2. Blank(agent')
        BY <1>1, <2>5, <4>1, HandledBlank
      <4> QED BY <2>1, <3>2, <4>2 DEF Blank
    <3> QED BY <1>1, <1>4, <1>7, <2>2, <3>2, <3>3, <3>4 DEF Secured
  <2>6. CASE x.op \in {"config", "plan"}
    BY <1>1, <1>9, <2>1, <2>3, <2>6 DEF Tells
  <2> QED BY <1>9, <2>4, <2>5, <2>6 DEF SyncOps
<1>10. Convincing(sync.client.reply)' \/ d.at = "synced" => Secured'
  BY <1>1, <1>2, <1>8, <1>9 DEF Convincing
<1> QED BY <1>1, <1>6, <1>10 DEF Sure

\* Every step keeps it: what convinces the start worker cannot be undone by what is left
\* in the backlog.
LEMMA SureStep ==
  ASSUME HostSound, OneActivation, Sure, Faults \cap {"write", "flap"} = {},
         [HostNext]_hostVars
  PROVE  Sure'
<1>1. backlog \in Queue /\ sync.client \in Caller(SyncPlaces)
  BY DEF HostSound
<1>2. ASSUME NEW r, Served(r) PROVE Sure'
  BY <1>2, SureServed
<1>3. CASE GuestRuns
  <2>1. /\ agent'.log = agent.log /\ (agent.pending = None => agent'.pending = None)
        /\ Exact(agent) => Exact(agent')
        /\ UNCHANGED <<sync, backlog>>
    BY <1>3, EnvironmentKeeps DEF GuestRuns
  <2> QED BY <2>1 DEF Sure, Secured, Convincing, Unsent
<1>4. CASE BeginSync
  <2>1. agent' = agent /\ sync'.client = [Fresh EXCEPT !.at = "config"]
    BY <1>4 DEF BeginSync, SyncOnly
  <2>2. sync'.client.at = "config" /\ sync'.client.reply = None
    BY <2>1 DEF Fresh
  <2> QED BY <2>1, <2>2 DEF Sure, Convincing
<1>5. CASE SyncAsks
  <2>1. /\ sync.client.at \in SyncOps /\ sync' = [sync EXCEPT !.client.asked = TRUE]
        /\ agent' = agent /\ ~sync.client.asked
    BY <1>5 DEF SyncAsks, Asks, Syncing, SyncOnly
  <2>2. sync'.client.at = sync.client.at /\ sync'.client.reply = None
    BY <2>1 DEF HostSound, Caller, OneActivation
  <2> QED BY <2>1, <2>2 DEF Sure, Convincing, SyncOps
<1>6. ASSUME NEW place, SyncGoes(place) PROVE Sure'
  <2>1. /\ sync'.client = Goes(sync.client, place) /\ sync'.target = sync.target
        /\ agent' = agent /\ place \in SyncPlaces
        /\ backlog' = Hung(backlog, SyncOps) \/ backlog' = backlog
        /\ place = "synced" => Convincing(sync.client.reply)
    BY <1>6 DEF SyncGoes, SyncOnly
  <2>2. sync'.client.at = place /\ ~sync'.client.asked /\ sync'.client.reply = None
    BY <1>1, <2>1, CallerGoes
  <2>3. Has(backlog', "activate") <=> Has(backlog, "activate")
    BY <1>1, <2>1, HungKeeps
  <2>4. place = "synced" => Secured'
    BY <2>1, <2>2, <2>3 DEF Sure, Secured, Unsent
  <2> QED BY <2>1, <2>2, <2>4 DEF Sure, Convincing
<1>7. ASSUME /\ agent' = agent /\ sync'.client = sync.client /\ sync'.target = sync.target
             /\ \/ backlog' = backlog
                \/ \E ops : backlog' = Hung(backlog, ops)
                \/ \E x \in Connection : x.op \notin SyncOps /\ backlog' = Append(backlog, x)
      PROVE  Sure'
  <2>1. Has(backlog', "activate") <=> Has(backlog, "activate")
    <3>1. CASE backlog' = backlog
      BY <3>1
    <3>2. CASE \E ops : backlog' = Hung(backlog, ops)
      BY <1>1, <3>2, HungKeeps
    <3>3. CASE \E x \in Connection : x.op \notin SyncOps /\ backlog' = Append(backlog, x)
      BY <1>1, <3>3, AppendKeeps DEF SyncOps
    <3> QED BY <1>7, <3>1, <3>2, <3>3
  <2> QED BY <1>7, <2>1 DEF Sure, Secured, Convincing, Unsent
<1>8. CASE UpgradeAsks
  <2> DEFINE x == [op |-> upgrade.at, live |-> TRUE]
  <2>1. /\ upgrade.at \in UpgradeOps /\ backlog' = Append(backlog, x)
        /\ UNCHANGED <<agent, sync>>
    BY <1>8 DEF UpgradeAsks, Asks, UpgradeOnly
  <2>2. x \in Connection /\ x.op \notin SyncOps
    BY <2>1 DEF Connection, SyncOps, UpgradeOps
  <2> QED BY <1>7, <2>1, <2>2
<1>9. ASSUME NEW place, UpgradeGoes(place) PROVE Sure'
  BY <1>7, <1>9 DEF UpgradeGoes, UpgradeOnly
<1>10. CASE Reboot
  <2>1. agent' = Booted /\ sync'.client = Fresh
    BY <1>10 DEF Reboot, HostSound
  <2>2. Fresh.at = "idle" /\ Fresh.reply = None
    BY DEF Fresh
  <2> QED BY <2>1, <2>2, BootedBlank DEF Sure, Convincing
<1>11. CASE Aloof
  <2>1. agent' = agent /\ sync'.client = sync.client /\ sync'.target = sync.target
    BY <1>11 DEF Aloof
  <2>2. \A op \in {"stop", "status"} :
          LET x == [op |-> op, live |-> FALSE] IN x \in Connection /\ x.op \notin SyncOps
    BY DEF Connection, SyncOps
  <2>3. \/ backlog' = backlog
        \/ \E x \in Connection : x.op \notin SyncOps /\ backlog' = Append(backlog, x)
    BY <1>11, <2>2 DEF Aloof
  <2> QED BY <1>7, <2>1, <2>3
<1> QED BY <1>2, <1>3, <1>4, <1>5, <1>6, <1>8, <1>9, <1>10, <1>11, HostSteps

-------------------------------------------------------------------------------
(* An upgrade switches the version at most once, and undoes only that.     *)

\* Until the switch is sent.
Unswitched ==
  \/ upgrade.at \in {"idle", "stage"}
  \/ upgrade.at = "switch" /\ ~upgrade.asked

\* The release is active, and nothing waits that could activate it again.
Settled == ~Has(backlog, "switch") /\ agent.slots.active = Release[1]

\* A rollback is sent, and waits, only while the release it undoes is active; what a
\* status or the switch told the command still holds when the command acts on it.
OneSwitch ==
  /\ Awaited(backlog, UpgradeOps, upgrade)
  /\ ~upgrade.asked => upgrade.reply = None
  /\ upgrade.boot <= boots
  /\ Once(backlog, "switch") /\ Once(backlog, "rollback")
  /\ Before(backlog, "switch", "query")
  /\ Unswitched => ~Has(backlog, "switch") /\ ~Has(backlog, "query")
  /\ Has(backlog, "rollback")
       => upgrade.at = "failed" \/ (upgrade.at = "rollback" /\ upgrade.asked)
  /\ Has(backlog, "rollback") \/ (upgrade.at = "rollback" /\ ~upgrade.asked) => Settled
  /\ upgrade.at = "query" /\ upgrade.reply # None
       => ~Has(backlog, "switch") /\ upgrade.reply.active = agent.slots.active
  /\ upgrade.at = "switch" /\ upgrade.reply # None /\ upgrade.reply.says = "active" => Settled
  /\ upgrade.at = "upgraded" /\ upgrade.boot = boots => Settled
  /\ upgrade.at = "kept" /\ upgrade.boot = boots
       => ~Has(backlog, "switch") /\ agent.slots.active # Release[1]

\* No release has been sent when the host begins.
LEMMA OneSwitchInit == HostInit => OneSwitch
<1> SUFFICES ASSUME HostInit PROVE OneSwitch
  OBVIOUS
<1>1. upgrade = Fresh /\ backlog = <<>> /\ boots = 1
  BY DEF HostInit
<1>2. Fresh.at = "idle" /\ Fresh.reply = None /\ ~Fresh.asked /\ Fresh.boot = 0
  BY DEF Fresh
<1> QED BY <1>1, <1>2, EmptyBacklog DEF OneSwitch

\* A request is served.
LEMMA OneSwitchServed ==
  ASSUME HostSound, OneSwitch, NEW r, Served(r)
  PROVE  OneSwitch'
<1> DEFINE x == Head(backlog)
           q == Tail(backlog)
           d == Answered(upgrade, UpgradeOps, x, r)
<1>1. /\ backlog \in Queue /\ backlog # <<>> /\ x \in Connection /\ r \in Reply
      /\ Tells(x.op, agent', r)
      /\ x.op \notin {"switch", "rollback"} => agent'.slots.active = agent.slots.active
      /\ backlog' = q /\ upgrade' = d /\ boots' = boots
      /\ upgrade \in Caller(UpgradePlaces) /\ boots \in Nat
  BY HostValues DEF Served, HostSound
<1>2. /\ d.at = upgrade.at /\ d.asked = upgrade.asked
      /\ x.live /\ x.op \in UpgradeOps => d.reply = r /\ d.boot = boots
      /\ ~(x.live /\ x.op \in UpgradeOps) => d = upgrade
  <2> HIDE DEF x
  <2> QED BY <1>1 DEF Answered, Caller
<1>3. /\ Awaited(q, UpgradeOps, upgrade)
      /\ x.live /\ x.op \in UpgradeOps => /\ upgrade.asked /\ x.op = upgrade.at
                                          /\ \A e : Awaited(q, UpgradeOps, e)
  BY <1>1, TailAwaited DEF OneSwitch
<1>4. /\ \A op : Has(q, op) => Has(backlog, op)
      /\ Once(q, "switch") /\ Once(q, "rollback") /\ Before(q, "switch", "query")
      /\ x.op = "switch" => ~Has(q, "switch")
      /\ x.op = "rollback" => ~Has(q, "rollback")
      /\ x.op = "query" => ~Has(backlog, "switch")
  BY <1>1, TailKeeps DEF OneSwitch
<1>5. Has(backlog, x.op)
  <2>1. 1 \in DOMAIN backlog /\ x = backlog[1]
    BY <1>1, TailQueue
  <2> QED BY <2>1 DEF Has
<1> HIDE DEF x, q, d
<1>6. Awaited(q, UpgradeOps, d) /\ (~d.asked => d.reply = None) /\ d.boot <= boots
  BY <1>1, <1>2, <1>3 DEF OneSwitch
<1>7. Unswitched' => ~Has(q, "switch") /\ ~Has(q, "query")
  BY <1>1, <1>2, <1>4 DEF OneSwitch, Unswitched
<1>8. Has(q, "rollback") => d.at = "failed" \/ (d.at = "rollback" /\ d.asked)
  BY <1>2, <1>4 DEF OneSwitch
<1>9. ASSUME ~Has(backlog, "switch"), x.op # "rollback"
      PROVE  ~Has(q, "switch") /\ agent'.slots.active = agent.slots.active
  BY <1>1, <1>4, <1>5, <1>9
<1>10. ASSUME Has(q, "rollback") \/ (d.at = "rollback" /\ ~d.asked) PROVE Settled'
  <2>1. Settled
    BY <1>2, <1>4, <1>10 DEF OneSwitch
  <2>2. x.op # "rollback"
    BY <1>2, <1>4, <1>5, <1>10 DEF OneSwitch
  <2> QED BY <1>1, <1>9, <2>1, <2>2 DEF Settled
<1>11. ASSUME d.at = "query", d.reply # None
       PROVE  ~Has(q, "switch") /\ d.reply.active = agent'.slots.active
  <2>1. CASE x.live /\ x.op \in UpgradeOps
    <3>1. x.op = "query" /\ d.reply = r
      BY <1>2, <1>3, <1>11, <2>1
    <3>2. r \in Reports(agent')
      BY <1>1, <3>1 DEF Tells
    <3> QED BY <1>4, <3>1, <3>2 DEF Reports
  <2>2. CASE ~(x.live /\ x.op \in UpgradeOps)
    <3>1. x.op # "rollback"
      BY <1>2, <1>5, <1>11 DEF OneSwitch
    <3> QED BY <1>2, <1>9, <1>11, <2>2, <3>1 DEF OneSwitch
  <2> QED BY <2>1, <2>2
<1>12. ASSUME d.at = "switch", d.reply # None, d.reply.says = "active" PROVE Settled'
  <2>1. CASE x.live /\ x.op \in UpgradeOps
    <3>1. x.op = "switch" /\ d.reply = r
      BY <1>2, <1>3, <1>12, <2>1
    <3>2. agent'.slots.active = Release[1]
      BY <1>1, <1>12, <3>1 DEF Tells, Plain
    <3> QED BY <1>1, <1>4, <3>1, <3>2 DEF Settled
  <2>2. CASE ~(x.live /\ x.op \in UpgradeOps)
    <3>1. x.op # "rollback"
      BY <1>2, <1>5, <1>12 DEF OneSwitch
    <3> QED BY <1>1, <1>2, <1>9, <1>12, <2>2, <3>1 DEF OneSwitch, Settled
  <2> QED BY <2>1, <2>2
<1>13. ASSUME d.at \in {"upgraded", "kept"}
       PROVE  d = upgrade /\ x.op # "rollback"
  BY <1>2, <1>3, <1>5, <1>13 DEF OneSwitch, UpgradeOps
<1>14. d.at = "upgraded" /\ d.boot = boots => Settled'
  BY <1>1, <1>9, <1>13 DEF OneSwitch, Settled
<1>15. d.at = "kept" /\ d.boot = boots
         => ~Has(q, "switch") /\ agent'.slots.active # Release[1]
  BY <1>9, <1>13 DEF OneSwitch
<1> QED BY <1>1, <1>4, <1>6, <1>7, <1>8, <1>10, <1>11, <1>12, <1>14, <1>15 DEF OneSwitch

\* The command asks for the next thing.
LEMMA OneSwitchAsks ==
  ASSUME HostSound, OneSwitch, UpgradeAsks
  PROVE  OneSwitch'
<1> DEFINE x == [op |-> upgrade.at, live |-> TRUE]
           q == Append(backlog, x)
<1>1. /\ upgrade.at \in UpgradeOps /\ backlog' = q
      /\ upgrade' = [upgrade EXCEPT !.asked = TRUE]
      /\ agent' = agent /\ boots' = boots /\ ~upgrade.asked /\ backlog \in Queue
  BY DEF UpgradeAsks, Asks, UpgradeOnly, HostSound
<1>2. /\ upgrade'.at = upgrade.at /\ upgrade'.asked /\ upgrade'.boot = upgrade.boot
      /\ upgrade'.reply = None
  BY <1>1 DEF HostSound, Caller, OneSwitch
<1>3. x \in Connection /\ x.op = upgrade.at
  BY <1>1 DEF Connection
<1> HIDE DEF x
<1>4. Awaited(q, UpgradeOps, upgrade')
  BY <1>1, <1>2, <1>3, AppendAwaited DEF OneSwitch
<1>5. \A op : Has(q, op) <=> Has(backlog, op) \/ x.op = op
  BY <1>1, <1>3, AppendKeeps
<1>6. ~Has(backlog, "rollback")
  BY <1>1 DEF OneSwitch, UpgradeOps
<1>7. x.op = "switch" => ~Has(backlog, "switch") /\ ~Has(backlog, "query")
  BY <1>1, <1>3 DEF OneSwitch, Unswitched
<1>8. Once(q, "switch") /\ Once(q, "rollback") /\ Before(q, "switch", "query")
  BY <1>1, <1>3, <1>6, <1>7, AppendKeeps DEF OneSwitch
<1> HIDE DEF q
<1>9. Unswitched' => ~Has(q, "switch") /\ ~Has(q, "query")
  BY <1>1, <1>2, <1>3, <1>5 DEF OneSwitch, Unswitched, UpgradeOps
<1>10. Has(q, "rollback") => upgrade'.at = "rollback" /\ Settled'
  BY <1>1, <1>2, <1>3, <1>5, <1>6 DEF OneSwitch, Settled
<1> QED BY <1>1, <1>2, <1>4, <1>8, <1>9, <1>10 DEF OneSwitch, UpgradeOps

\* The command goes on, or gives up.
LEMMA OneSwitchGoes ==
  ASSUME HostSound, OneSwitch, NEW place, UpgradeGoes(place)
  PROVE  OneSwitch'
<1>1. /\ backlog \in Queue /\ upgrade \in Caller(UpgradePlaces)
      /\ upgrade' = Goes(upgrade, place) /\ place \in UpgradePlaces
      /\ agent' = agent /\ boots' = boots
  BY DEF UpgradeGoes, UpgradeOnly, HostSound
<1>2. /\ upgrade'.at = place /\ ~upgrade'.asked /\ upgrade'.reply = None
      /\ upgrade'.boot = upgrade.boot
  BY <1>1, CallerGoes
<1>3. /\ Awaited(backlog', UpgradeOps, upgrade')
      /\ \A op : Has(backlog', op) <=> Has(backlog, op)
      /\ Once(backlog', "switch") /\ Once(backlog', "rollback")
      /\ Before(backlog', "switch", "query")
  <2>1. CASE backlog' = Hung(backlog, UpgradeOps)
    BY <1>1, <2>1, HungKeeps DEF OneSwitch
  <2>2. CASE backlog' = backlog /\ (upgrade.at \notin UpgradeOps \/ upgrade.reply # None)
    BY <2>2, Unread DEF OneSwitch
  <2> QED BY <2>1, <2>2 DEF UpgradeGoes
<1>4. Settled' <=> Settled
  BY <1>1, <1>3 DEF Settled
<1>5. Unswitched' => Unswitched
  BY <1>2 DEF Unswitched, UpgradeGoes
<1>6. Has(backlog, "rollback") => place = "failed"
  BY DEF OneSwitch, UpgradeGoes, UpgradePlaces, UpgradeOps
<1>7. place = "rollback" => Settled
  BY DEF OneSwitch, UpgradeGoes, Settled
<1>8. place = "upgraded" => Settled
  BY DEF OneSwitch, UpgradeGoes, Settled
<1>9. place = "kept" => ~Has(backlog, "switch") /\ agent.slots.active # Release[1]
  BY DEF OneSwitch, UpgradeGoes
<1> QED BY <1>1, <1>2, <1>3, <1>4, <1>5, <1>6, <1>7, <1>8, <1>9 DEF OneSwitch

\* Every step keeps it: the release is switched to once, and its rollback follows only an
\* answer that named another version.
LEMMA OneSwitchStep ==
  ASSUME HostSound, OneSwitch, [HostNext]_hostVars
  PROVE  OneSwitch'
<1>1. backlog \in Queue /\ boots \in Nat
  BY HostValues DEF HostSound
<1>2. ASSUME NEW r, Served(r) PROVE OneSwitch'
  BY <1>2, OneSwitchServed
<1>3. CASE GuestRuns
  <2>1. agent'.slots = agent.slots /\ UNCHANGED <<upgrade, backlog, boots>>
    BY <1>3, EnvironmentKeeps DEF GuestRuns
  <2> QED BY <2>1 DEF OneSwitch, Unswitched, Settled
<1>4. ASSUME /\ UNCHANGED <<agent, upgrade, boots>>
             /\ \/ backlog' = backlog
                \/ \E ops : backlog' = Hung(backlog, ops)
                \/ \E x \in Connection : x.op \notin UpgradeOps /\ backlog' = Append(backlog, x)
      PROVE  OneSwitch'
  <2>1. /\ Awaited(backlog', UpgradeOps, upgrade)
        /\ Has(backlog', "switch") <=> Has(backlog, "switch")
        /\ Has(backlog', "query") <=> Has(backlog, "query")
        /\ Has(backlog', "rollback") <=> Has(backlog, "rollback")
        /\ Once(backlog', "switch") /\ Once(backlog', "rollback")
        /\ Before(backlog', "switch", "query")
    <3>1. CASE backlog' = backlog
      BY <3>1 DEF OneSwitch
    <3>2. CASE \E ops : backlog' = Hung(backlog, ops)
      BY <1>1, <3>2, HungKeeps DEF OneSwitch
    <3>3. CASE \E x \in Connection : x.op \notin UpgradeOps /\ backlog' = Append(backlog, x)
      <4>1. PICK x \in Connection : x.op \notin UpgradeOps /\ backlog' = Append(backlog, x)
        BY <3>3
      <4>2. x.op # "switch" /\ x.op # "query" /\ x.op # "rollback"
        BY <4>1 DEF UpgradeOps
      <4>3. Awaited(Append(backlog, x), UpgradeOps, upgrade)
        BY <1>1, <4>1, AppendAwaited DEF OneSwitch
      <4> QED BY <1>1, <4>1, <4>2, <4>3, AppendKeeps DEF OneSwitch
    <3> QED BY <1>4, <3>1, <3>2, <3>3
  <2> QED BY <1>4, <2>1 DEF OneSwitch, Unswitched, Settled
<1>5. CASE BeginSync
  BY <1>4, <1>5 DEF BeginSync, SyncOnly
<1>6. CASE SyncAsks
  <2> DEFINE x == [op |-> sync.client.at, live |-> TRUE]
  <2>1. /\ sync.client.at \in SyncOps /\ backlog' = Append(backlog, x)
        /\ UNCHANGED <<agent, upgrade, boots>>
    BY <1>6 DEF SyncAsks, Asks, Syncing, SyncOnly
  <2>2. x \in Connection /\ x.op \notin UpgradeOps
    BY <2>1 DEF Connection, SyncOps, UpgradeOps
  <2> QED BY <1>4, <2>1, <2>2
<1>7. ASSUME NEW place, SyncGoes(place) PROVE OneSwitch'
  BY <1>4, <1>7 DEF SyncGoes, SyncOnly
<1>8. CASE UpgradeAsks
  BY <1>8, OneSwitchAsks
<1>9. ASSUME NEW place, UpgradeGoes(place) PROVE OneSwitch'
  BY <1>9, OneSwitchGoes
<1>10. CASE Reboot
  <2>1. /\ backlog' = <<>> /\ upgrade' = upgrade /\ boots' = boots + 1
        /\ upgrade.at \notin UpgradeOps
    BY <1>10 DEF Reboot
  <2>2. upgrade.boot \in Nat
    BY DEF HostSound, Caller
  <2>3. upgrade.boot <= boots' /\ upgrade.boot # boots'
    BY <1>1, <2>1, <2>2 DEF OneSwitch
  <2> QED BY <2>1, <2>3, EmptyBacklog DEF OneSwitch, Unswitched, UpgradeOps
<1>11. CASE Aloof
  <2>1. \A op \in {"stop", "status"} :
          LET x == [op |-> op, live |-> FALSE] IN x \in Connection /\ x.op \notin UpgradeOps
    BY DEF Connection, UpgradeOps
  <2>2. \/ backlog' = backlog
        \/ \E x \in Connection : x.op \notin UpgradeOps /\ backlog' = Append(backlog, x)
    BY <1>11, <2>1 DEF Aloof
  <2> QED BY <1>4, <1>11, <2>2 DEF Aloof
<1> QED BY <1>2, <1>3, <1>5, <1>6, <1>7, <1>8, <1>9, <1>10, <1>11, HostSteps

-------------------------------------------------------------------------------
(* The answers name pairs the host can have sent.                          *)

\* Both files are in force or neither, now and after a way back, and what is told of is
\* a pair.
Whole == (Configs \X Plans) \cup {<<None, None>>}
Known(s) ==
  /\ InForce(s) \in Whole
  /\ s.pending # None => Previous(s.pending) \in Whole
  /\ s.log.told \in Opt(Configs \X Plans)

\* A pair that is reported as ready serves: there is a configuration.
LEMMA StatusTold ==
  ASSUME NEW s, Sound(s), NEW t \in StatusResponse(s), t.log.told # None
  PROVE  t.files.cfg # None
<1>1. PICK w \in Refresh(s) :
        t \in UNION {UNION {UNION {Report(z) : z \in Refresh(y)} : y \in Progress(x)} :
                       x \in RefreshMitm(w)}
  BY DEF StatusResponse
<1>2. PICK x \in RefreshMitm(w) :
        t \in UNION {UNION {Report(z) : z \in Refresh(y)} : y \in Progress(x)}
  BY <1>1
<1>3. PICK y \in Progress(x) : t \in UNION {Report(z) : z \in Refresh(y)}
  BY <1>2
<1>4. PICK z \in Refresh(y) : t \in Report(z)
  BY <1>3
<1>5. Sound(z)
  BY RefreshSound, RefreshMitmSound, ProgressSound
<1>6. Answering(z) /\ t.files = z.files
  BY <1>4, <1>5, ReportMoves DEF Kin
<1>7. z.run.cfg # None /\ z.run.cfg = z.files.cfg
  BY <1>5, <1>6, SoundRun DEF Answering
<1> QED BY <1>6, <1>7

\* A request keeps that where files are written: what it puts in force was in force, is
\* the way back, or is what an activation asks for.
LEMMA HandledKnown ==
  ASSUME HostSound, NEW x \in Connection, NEW t, Handled(x.op, t),
         "write" \notin Faults, Known(agent), x.op = "activate" => Blank(agent)
  PROVE  Known(t)
<1> DEFINE op == x.op
<1>1. op \in SyncOps \cup UpgradeOps \cup {"stop", "status"}
  BY DEF Connection
<1> HIDE DEF op
<1>2. Sound(agent) /\ None \in Opt(Configs \X Plans)
  BY DEF HostSound, Opt
<1>3. CASE op = "config" \/ op = "plan"
  <2>1. \/ t \in StageConfig(agent, sync.target[1])
        \/ t \in StageModulePlan(agent, sync.target[2])
    BY <1>3 DEF Handled, op
  <2> QED BY <1>2, <2>1, HostValues, StagingOnly DEF Known
<1>4. CASE op = "stage"
  <2>1. t \in StageUpgrade(agent, Release[1], Release[2])
    BY <1>4 DEF Handled, op
  <2> QED BY <1>2, <2>1, HostValues, StageUpgradeOnly DEF Known, InForce
<1>5. CASE op = "switch" \/ op = "rollback"
  <2>1. VersionRequest(agent, t)
    <3>1. \/ t \in ActivateUpgrade(agent, Release[1], Release[2])
          \/ t \in Rollback(agent)
      BY <1>5 DEF Handled, op
    <3> QED BY <1>2, <3>1, HostValues, VersionRequests
  <2> QED BY <1>2, <2>1 DEF VersionRequest, Known, InForce
<1>6. ASSUME Move(agent, t), ~Begins(agent, t),
             agent.pending = None => InForce(t) = InForce(agent)
      PROVE  InForce(t) \in Whole /\ (t.pending # None => Previous(t.pending) \in Whole)
  BY <1>6 DEF Move, Ends, Stays, Commits, Returns, Tears, Known
<1>7. CASE op = "activate"
  <2>1. t \in ActivateSession(agent, sync.target[1], sync.target[2])
    BY <1>7 DEF Handled, op
  <2>2. agent.pending = None
    BY <1>7 DEF op, Blank
  <2>3. /\ Move(agent, t) /\ t.log.told \in {None, sync.target}
        /\ InForce(t) = InForce(agent) \/ InForce(t) \in Configs \X Plans
    BY <1>2, <2>1, <2>2, HostValues, ActivateMoves
  <2>4. InForce(t) \in Whole
    BY <2>3 DEF Known, Whole
  <2>5. t.pending # None => Previous(t.pending) \in Whole
    BY <2>2, <2>3 DEF Move, Ends, Stays, Begins, Commits, Returns, Tears, Known
  <2>6. t.log.told \in Opt(Configs \X Plans)
    BY <2>3, HostValues DEF Opt
  <2> QED BY <2>4, <2>5, <2>6 DEF Known
<1>8. CASE op = "stop"
  <2>1. t \in StopGuestRuntime(agent)
    BY <1>8 DEF Handled, op
  <2>2. Move(agent, t) /\ t.log.told = None /\ t.pending = None
    BY <1>2, <2>1, StopRuntimeMoves
  <2>3. agent.pending = None => InForce(t) = InForce(agent)
    BY <1>2, <2>1, StopRuntimeKeeps DEF InForce
  <2>4. ~Begins(agent, t)
    BY <2>2, AbsenceAssumption DEF Begins
  <2> QED BY <1>2, <1>6, <2>2, <2>3, <2>4 DEF Known
<1>9. CASE op \in {"ready", "resolve", "query", "status"}
  <2>1. t \in StatusResponse(agent)
    BY <1>9 DEF Handled, op
  <2>2. /\ Move(agent, t) /\ ~Begins(agent, t) /\ Honest(t)
        /\ agent.pending = None => Stays(agent, t)
    BY <1>2, <2>1, StatusMoves
  <2>3. InForce(t) \in Whole /\ (t.pending # None => Previous(t.pending) \in Whole)
    BY <1>6, <2>2 DEF Stays
  <2>4. ASSUME t.log.told # None PROVE t.log.told \in Configs \X Plans
    <3>1. t.log.told = InForce(t)
      BY <2>2, <2>4 DEF Honest
    <3>2. t.files.cfg # None
      BY <1>2, <2>1, <2>4, StatusTold
    <3>3. InForce(t) # <<None, None>>
      BY <3>2 DEF InForce
    <3> QED BY <2>3, <3>1, <3>3 DEF Whole
  <2> QED BY <1>2, <2>3, <2>4 DEF Known, Opt
<1> QED BY <1>1, <1>3, <1>4, <1>5, <1>7, <1>8, <1>9 DEF SyncOps, UpgradeOps, op

\* Nothing else changes what is in force.
LEMMA EnvironmentKnown ==
  ASSUME HostSound, Environment, Known(agent)
  PROVE  Known(agent')
<1>1. /\ agent'.files = agent.files /\ agent'.log = agent.log
      /\ \/ agent'.pending = agent.pending
         \/ /\ agent.pending # None
            /\ agent'.pending = [agent.pending EXCEPT !.late = TRUE]
  BY EnvironmentOnly DEF HostSound
<1>2. ASSUME agent.pending # None, agent'.pending = [agent.pending EXCEPT !.late = TRUE]
      PROVE  Previous(agent'.pending) = Previous(agent.pending)
  <2>1. agent.pending \in PendingSession
    BY <1>2, Parts DEF HostSound, Opt
  <2> QED BY <1>2, <2>1, LateOnly
<1> QED BY <1>1, <1>2 DEF Known, InForce

\* A guest that has booted has no pair.
LEMMA BootedKnown == Known(Booted)
<1>1. None \in Opt(Configs \X Plans)
  BY DEF Opt
<1> QED BY <1>1 DEF Known, Whole, InForce, Booted

\* The answers the clients hold.
Named ==
  /\ Known(agent)
  /\ sync.client.reply \in Opt(Answers) /\ upgrade.reply \in Opt(Answers)

\* No client holds an answer when the host begins.
LEMMA NamedInit == HostInit => Named
<1>1. None \in Opt(Answers)
  BY DEF Opt
<1> QED BY <1>1, BootedKnown DEF HostInit, Named, Fresh

\* Every step keeps it: an answer names a pair of whole files.
LEMMA NamedStep ==
  ASSUME HostSound, OneActivation, Named, "write" \notin Faults, [HostNext]_hostVars
  PROVE  Named'
<1>1. /\ None \in Opt(Answers) /\ boots \in Nat /\ backlog \in Queue
      /\ sync.client \in Caller(SyncPlaces) /\ upgrade \in Caller(UpgradePlaces)
  BY HostValues DEF HostSound, Opt
<1>2. ASSUME NEW r, Served(r) PROVE Named'
  <2> DEFINE x == Head(backlog)
  <2>1. /\ x \in Connection /\ r \in Reply /\ Handled(x.op, agent')
        /\ Tells(x.op, agent', r) /\ Sound(agent') /\ backlog # <<>>
        /\ sync'.client = Answered(sync.client, SyncOps, x, r)
        /\ upgrade' = Answered(upgrade, UpgradeOps, x, r)
    BY <1>2 DEF Served
  <2>2. 1 \in DOMAIN backlog /\ x = backlog[1]
    BY <1>1, <2>1, TailQueue
  <2>3. x.op = "activate" => Blank(agent)
    BY <2>2 DEF Has, OneActivation
  <2> HIDE DEF x
  <2>4. Known(agent')
    BY <1>1, <2>1, <2>3, HandledKnown DEF Named
  <2>5. r \in Answers
    <3>1. /\ Plain("ok") \in Answers /\ Plain("error") \in Answers
          /\ Plain("accepted") \in Answers /\ Plain("active") \in Answers
      BY DEF Plain, Answers, Opt
    <3>2. agent'.slots.active \in Opt(Versions)
      BY <2>1, Parts DEF Slots
    <3>3. Reports(agent') \subseteq Answers
      BY <2>4, <3>2 DEF Reports, Answers, Known
    <3>4. x.op \in SyncOps \cup UpgradeOps \cup {"stop", "status"}
      BY <2>1 DEF Connection
    <3> QED BY <2>1, <3>1, <3>3, <3>4 DEF Tells, SyncOps, UpgradeOps
  <2>6. sync'.client.reply \in {r, sync.client.reply}
    BY <1>1, <2>1 DEF Answered, Caller
  <2>7. upgrade'.reply \in {r, upgrade.reply}
    BY <1>1, <2>1 DEF Answered, Caller
  <2> QED BY <2>4, <2>5, <2>6, <2>7 DEF Named, Opt
<1>3. CASE GuestRuns
  BY <1>3, EnvironmentKnown DEF GuestRuns, Named
<1>4. CASE BeginSync
  <2>1. agent' = agent /\ upgrade' = upgrade /\ sync'.client = [Fresh EXCEPT !.at = "config"]
    BY <1>4 DEF BeginSync, SyncOnly
  <2>2. sync'.client.reply = None
    BY <2>1 DEF Fresh
  <2> QED BY <1>1, <2>1, <2>2 DEF Named
<1>5. CASE SyncAsks
  <2>1. /\ sync' = [sync EXCEPT !.client.asked = TRUE] /\ agent' = agent /\ upgrade' = upgrade
    BY <1>5 DEF SyncAsks, SyncOnly
  <2>2. sync'.client.reply = sync.client.reply
    BY <2>1 DEF HostSound, Caller
  <2> QED BY <2>1, <2>2 DEF Named
<1>6. ASSUME NEW place, SyncGoes(place) PROVE Named'
  <2>1. /\ sync'.client = Goes(sync.client, place) /\ agent' = agent /\ upgrade' = upgrade
        /\ place \in SyncPlaces
    BY <1>6 DEF SyncGoes, SyncOnly
  <2>2. sync'.client.reply = None
    BY <1>1, <2>1, CallerGoes
  <2> QED BY <1>1, <2>1, <2>2 DEF Named
<1>7. CASE UpgradeAsks
  <2>1. /\ upgrade' = [upgrade EXCEPT !.asked = TRUE] /\ agent' = agent /\ sync' = sync
    BY <1>7 DEF UpgradeAsks, UpgradeOnly
  <2>2. upgrade'.reply = upgrade.reply
    BY <1>1, <2>1 DEF Caller
  <2> QED BY <2>1, <2>2 DEF Named
<1>8. ASSUME NEW place, UpgradeGoes(place) PROVE Named'
  <2>1. /\ upgrade' = Goes(upgrade, place) /\ agent' = agent /\ sync' = sync
        /\ place \in UpgradePlaces
    BY <1>8 DEF UpgradeGoes, UpgradeOnly
  <2>2. upgrade'.reply = None
    BY <1>1, <2>1, CallerGoes
  <2> QED BY <1>1, <2>1, <2>2 DEF Named
<1>9. CASE Reboot
  <2>1. agent' = Booted /\ sync'.client = Fresh /\ upgrade' = upgrade
    BY <1>9 DEF Reboot, HostSound
  <2>2. Fresh.reply = None
    BY DEF Fresh
  <2> QED BY <1>1, <2>1, <2>2, BootedKnown DEF Named
<1>10. CASE Aloof
  BY <1>10 DEF Aloof, Named
<1> QED BY <1>2, <1>3, <1>4, <1>5, <1>6, <1>7, <1>8, <1>9, <1>10, HostSteps

-------------------------------------------------------------------------------
(* The theorems.                                                           *)

\* guest_agent.rs:838: every activation the agent serves meets an agent with no
\* session under way, whoever has given up, and whatever the guest may fail at.
THEOREM ActivatesIdleAgent == HostSpec => ActivatesIdle
<1>1. HostInit => HostSound /\ OneActivation
  BY HostSoundInit, OneActivationInit
<1>2. HostSound /\ OneActivation /\ [HostNext]_hostVars => (HostSound /\ OneActivation)'
  BY HostSoundStep, OneActivationStep
<1>3. HostSound /\ OneActivation /\ [HostNext]_hostVars
        => [Serve /\ Head(backlog).op = "activate" => agent.pending = None]_hostVars
  <2>1. ASSUME HostSound, OneActivation, Serve, Head(backlog).op = "activate"
        PROVE  agent.pending = None
    <3>1. 1 \in DOMAIN backlog /\ Head(backlog) = backlog[1]
      BY <2>1, TailQueue DEF HostSound, Serve
    <3>2. Has(backlog, "activate")
      BY <2>1, <3>1 DEF Has
    <3> QED BY <2>1, <3>2 DEF OneActivation, Blank
  <2> QED BY <2>1
<1> QED BY <1>1, <1>2, <1>3, PTL DEF HostSpec, ActivatesIdle

\* The version that runs is the active one although upgrades and sessions overlap.
THEOREM OverlappingRunsActive == HostSpec => []OverlapRunsActive
<1>1. HostInit => HostSound /\ OneActivation
  BY HostSoundInit, OneActivationInit
<1>2. HostSound /\ OneActivation /\ [HostNext]_hostVars => (HostSound /\ OneActivation)'
  BY HostSoundStep, OneActivationStep
<1>3. OneActivation => OverlapRunsActive
  BY DEF OneActivation, FirstRuns, RunsIn, OverlapRunsActive, RunsActiveVersion
<1> QED BY <1>1, <1>2, <1>3, PTL DEF HostSpec

\* A start reported as successful is committed, where files are written and probes do
\* not waver.
THEOREM SuccessIsCommitted ==
  Faults \cap {"write", "flap"} = {} => (HostSpec => []SyncedIsCommitted)
<1> SUFFICES ASSUME Faults \cap {"write", "flap"} = {}
             PROVE  HostSpec => []SyncedIsCommitted
  OBVIOUS
<1> DEFINE Inv == HostSound /\ OneActivation /\ Sure
<1>1. HostInit => Inv
  BY HostSoundInit, OneActivationInit
<1>2. Inv /\ [HostNext]_hostVars => Inv'
  BY HostSoundStep, OneActivationStep, SureStep
<1>3. Inv => SyncedIsCommitted
  BY DEF Sure, Secured, SyncedIsCommitted
<1> QED BY <1>1, <1>2, <1>3, PTL DEF HostSpec

\* What the upgrade command reports is so, whichever answer was lost.
THEOREM UpgradeReports == HostSpec => []UpgradeReportTrue
<1>1. HostInit => HostSound /\ OneSwitch
  BY HostSoundInit, OneSwitchInit
<1>2. HostSound /\ OneSwitch /\ [HostNext]_hostVars => (HostSound /\ OneSwitch)'
  BY HostSoundStep, OneSwitchStep
<1>3. OneSwitch => UpgradeReportTrue
  BY DEF OneSwitch, Settled, UpgradeReportTrue
<1> QED BY <1>1, <1>2, <1>3, PTL DEF HostSpec

\* docs/vfkit-gateway.md:73: a rollback is served only while the release it undoes is
\* active, so that nothing is downgraded twice.
THEOREM RollbackUndoesRelease == HostSpec => NoSecondDowngrade
<1>1. HostInit => HostSound /\ OneSwitch
  BY HostSoundInit, OneSwitchInit
<1>2. HostSound /\ OneSwitch /\ [HostNext]_hostVars => (HostSound /\ OneSwitch)'
  BY HostSoundStep, OneSwitchStep
<1>3. HostSound /\ OneSwitch /\ [HostNext]_hostVars
        => [Serve /\ Head(backlog).op = "rollback" /\ upgrade.boot = boots
              => agent.slots.active = Release[1]]_hostVars
  <2>1. ASSUME HostSound, OneSwitch, Serve, Head(backlog).op = "rollback"
        PROVE  agent.slots.active = Release[1]
    <3>1. 1 \in DOMAIN backlog /\ Head(backlog) = backlog[1]
      BY <2>1, TailQueue DEF HostSound, Serve
    <3>2. Has(backlog, "rollback")
      BY <2>1, <3>1 DEF Has
    <3> QED BY <2>1, <3>2 DEF OneSwitch, Settled
  <2> QED BY <2>1
<1> QED BY <1>1, <1>2, <1>3, PTL DEF HostSpec, NoSecondDowngrade

\* Every variable of the host and every answer has its type: what a status reports is a
\* pair a start can have sent, where files are written.
THEOREM HostTypeCorrect ==
  "write" \notin Faults => (HostSpec => []HostTypeOK)
<1> SUFFICES ASSUME "write" \notin Faults
             PROVE  HostSpec => []HostTypeOK
  OBVIOUS
<1> DEFINE Inv == HostSound /\ OneActivation /\ Named
<1>1. HostInit => Inv
  BY HostSoundInit, OneActivationInit, NamedInit
<1>2. Inv /\ [HostNext]_hostVars => Inv'
  BY HostSoundStep, OneActivationStep, NamedStep
<1>3. ASSUME Inv PROVE HostTypeOK
  <2>1. agent \in State
    BY <1>3, Parts DEF HostSound
  <2>2. sync.client \in Client(SyncPlaces)
    <3>1. sync.client \in Caller(SyncPlaces) /\ sync.client.reply \in Opt(Answers)
      BY <1>3 DEF HostSound, Named
    <3> QED BY <3>1 DEF Client, Caller
  <2>3. upgrade \in Client(UpgradePlaces)
    <3>1. upgrade \in Caller(UpgradePlaces) /\ upgrade.reply \in Opt(Answers)
      BY <1>3 DEF HostSound, Named
    <3> QED BY <3>1 DEF Client, Caller
  <2> QED BY <1>3, <2>1, <2>2, <2>3 DEF HostTypeOK, HostSound, Queue
<1> QED BY <1>1, <1>2, <1>3, PTL DEF HostSpec
===============================================================================
