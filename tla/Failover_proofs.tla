-------------------------- MODULE Failover_proofs --------------------------
(***************************************************************************)
(* Proofs about Failover, for every set of requests and settings.          *)
(*                                                                         *)
(* The properties are inductive together: that a report ends a trial needs *)
(* that trials are only under way from the backup, and that new settings   *)
(* end a trial keeps the flag from outliving its owner.                    *)
(***************************************************************************)
EXTENDS Failover, TLAPS

IInv == /\ TypeOK
        /\ TrialNotLeaked
        /\ TrialOnlyFromBackup
        /\ CountBelowLimit
        /\ BackupClientExists

\* What the settings in force demand of a state m of the manager.
Sound(m) == /\ m.trial => m.active = "backup" /\ Enabled(conf) /\ conf.auto
            /\ m.count < conf.limit
            /\ m.active = "backup" => m.count = 0 /\ Enabled(conf)

-----------------------------------------------------------------------------
(***************************************************************************)
(* The reports.                                                            *)
(***************************************************************************)

\* The fields of the settings in force.
LEMMA ConfFields ==
  ASSUME conf \in Confs
  PROVE  /\ conf.enabled \in BOOLEAN /\ conf.backup \in BOOLEAN
         /\ conf.auto \in BOOLEAN /\ conf.timed \in BOOLEAN
         /\ conf.limit \in Nat /\ conf.limit > 0
  BY ConfAssumption

\* The report of a trial keeps a sound manager sound, and the trial ends.
LEMMA TrialReportSound ==
  ASSUME conf \in Confs,
         NEW m \in Managers, Sound(m), NEW bad \in BOOLEAN
  PROVE  /\ TrialReport(m, bad) \in Managers
         /\ Sound(TrialReport(m, bad))
         /\ ~TrialReport(m, bad).trial
  BY ConfFields DEF Sound, TrialReport, TrialOver, Managers, Routes

\* A soft failure on the primary stays below the limit, or switches.
LEMMA SlowSound ==
  ASSUME conf \in Confs,
         NEW m \in Managers, Sound(m), Enabled(conf), m.active = "primary"
  PROVE  /\ Slow(m) \in Managers
         /\ Sound(Slow(m))
         /\ ~Slow(m).trial
<1>1. m.count \in Nat /\ m.count < conf.limit /\ ~m.trial
  BY DEF Sound, Managers
<1>2. CASE m.count + 1 < conf.limit
  <2>1. Slow(m) = [m EXCEPT !.count = m.count + 1]
    BY <1>2 DEF Slow
  <2> DEFINE n == [m EXCEPT !.count = m.count + 1]
  <2>2. /\ n \in Managers /\ n.active = "primary" /\ ~n.trial
        /\ n.count = m.count + 1
    BY <1>1 DEF Managers, Routes
  <2>3. n.count < conf.limit
    BY <1>2, <2>2
  <2> QED BY <2>1, <2>2, <2>3 DEF Sound
<1>3. CASE ~(m.count + 1 < conf.limit)
  <2>1. Slow(m) = Tripped(m)
    BY <1>3 DEF Slow
  <2>2. /\ Tripped(m) \in Managers /\ Tripped(m).active = "backup"
        /\ ~Tripped(m).trial /\ Tripped(m).count = 0
    BY <1>1 DEF Tripped, Managers, Routes
  <2>3. 0 < conf.limit
    BY ConfFields
  <2> QED BY <2>1, <2>2, <2>3 DEF Sound
<1> QED BY <1>2, <1>3

\* So does the report at the end of a request; it sets no trial flag, and that
\* of a trial clears the flag.
LEMMA ObservedSound ==
  ASSUME conf \in Confs, NEW m \in Managers, Sound(m), NEW q \in Reqs
  PROVE  /\ Observed(m, q) \in Managers
         /\ Sound(Observed(m, q))
         /\ Observed(m, q).trial => m.trial /\ ~q.trial
<1> DEFINE slow == conf.timed /\ q.end = "slow"
           error == q.end = "error"
<1>1. slow \in BOOLEAN /\ error \in BOOLEAN /\ q.trial \in BOOLEAN
  BY ConfFields DEF Reqs
<1>2. CASE q.trial
  <2>1. Observed(m, q) = TrialReport(m, error \/ slow)
    BY <1>2 DEF Observed
  <2> QED BY <1>1, <2>1, TrialReportSound
<1>3. CASE ~q.trial /\ ~IsCounted(m, q)
  <2>1. Observed(m, q) = m
    BY <1>3 DEF Observed
  <2> QED BY <1>3, <2>1
<1>4. CASE ~q.trial /\ IsCounted(m, q)
  <2>1. m.active = "primary" /\ Enabled(conf)
    BY <1>4 DEF IsCounted
  <2>2. Observed(m, q) \in {Tripped(m), Slow(m), Cleared(m)}
    BY <1>4, Zenon DEF Observed
  <2>3. /\ Tripped(m) \in Managers /\ Sound(Tripped(m)) /\ ~Tripped(m).trial
        /\ Cleared(m) \in Managers /\ Sound(Cleared(m)) /\ ~Cleared(m).trial
    BY <2>1, ConfFields DEF Sound, Tripped, Cleared, Managers, Routes
  <2>4. Slow(m) \in Managers /\ Sound(Slow(m)) /\ ~Slow(m).trial
    BY <2>1, SlowSound
  <2> QED BY <2>2, <2>3, <2>4
<1> QED BY <1>1, <1>2, <1>3, <1>4

\* And so does the report of a watchdog.
LEMMA TimedOutSound ==
  ASSUME conf \in Confs, NEW m \in Managers, Sound(m), NEW q \in Reqs
  PROVE  /\ TimedOut(m, q) \in Managers
         /\ Sound(TimedOut(m, q))
         /\ TimedOut(m, q).trial => m.trial /\ ~q.trial
<1>1. q.trial \in BOOLEAN
  BY DEF Reqs
<1>2. CASE q.trial
  <2>1. TimedOut(m, q) = TrialReport(m, TRUE)
    BY <1>2 DEF TimedOut
  <2> QED BY <2>1, TrialReportSound
<1>3. CASE ~q.trial /\ IsCounted(m, q)
  <2>1. m.active = "primary" /\ Enabled(conf)
    BY <1>3 DEF IsCounted
  <2>2. TimedOut(m, q) = Slow(m)
    BY <1>3 DEF TimedOut
  <2> QED BY <2>1, <2>2, SlowSound
<1>4. CASE ~q.trial /\ ~IsCounted(m, q)
  <2>1. TimedOut(m, q) = m
    BY <1>4 DEF TimedOut
  <2> QED BY <1>4, <2>1
<1> QED BY <1>1, <1>2, <1>3, <1>4

\* New settings leave a sound manager without a trial.
LEMMA ConfiguredSound ==
  ASSUME mgr \in Managers, CountBelowLimit, NEW c \in Confs
  PROVE  /\ Configured(c) \in Managers
         /\ ~Configured(c).trial
         /\ Configured(c).count < c.limit
         /\ Configured(c).active = "backup" => /\ Configured(c).count = 0
                                               /\ Enabled(c)
<1>1. c.limit \in Nat /\ c.limit > 0 /\ Enabled(c) \in BOOLEAN
  BY ConfAssumption DEF Enabled
<1> QED BY <1>1 DEF Configured, Managers, Routes, CountBelowLimit

-----------------------------------------------------------------------------
(***************************************************************************)
(* The steps.                                                              *)
(***************************************************************************)

\* What a request still owes to a trial that is under way.
Attends(q) == /\ q.trial
              /\ \/ q.alarm = "observe"
                 \/ ~q.fired /\ q.at \in {"routed", "sent", "writing", "stalled",
                                          "ended", "observing"}

\* A step of request r, or of its watchdog, that leaves the manager alone and
\* does not let go of a trial it owes a report for.
LEMMA QuietStep ==
  ASSUME IInv, NEW r \in Requests, NEW q \in Reqs,
         req' = [req EXCEPT ![r] = q],
         Attends(req[r]) => Attends(q),
         UNCHANGED <<conf, mgr, owner>>,
         UNCHANGED <<applied, configuring>>
  PROVE  IInv'
<1>1. TypeOK'
  BY DEF IInv, TypeOK
<1>2. TrialNotLeaked'
  BY DEF IInv, TypeOK, TrialNotLeaked, Attends
<1>3. TrialOnlyFromBackup' /\ CountBelowLimit' /\ BackupClientExists'
  BY DEF IInv, TrialOnlyFromBackup, CountBelowLimit, BackupClientExists, Enabled
<1> QED BY <1>1, <1>2, <1>3 DEF IInv

\* A step of request r, or of its watchdog, that reports to the manager.
LEMMA ReportStep ==
  ASSUME IInv, NEW r \in Requests, NEW q \in Reqs, NEW m \in Managers,
         req' = [req EXCEPT ![r] = q], mgr' = m, Sound(m),
         m.trial => mgr.trial /\ ~req[r].trial,
         UNCHANGED <<conf, applied, configuring, owner>>
  PROVE  IInv'
<1>1. TypeOK'
  BY DEF IInv, TypeOK
<1>2. TrialNotLeaked'
  BY DEF IInv, TypeOK, TrialNotLeaked
<1>3. TrialOnlyFromBackup' /\ CountBelowLimit' /\ BackupClientExists'
  BY DEF IInv, Sound, TrialOnlyFromBackup, CountBelowLimit, BackupClientExists, Enabled
<1> QED BY <1>1, <1>2, <1>3 DEF IInv

\* Letting go of what is over keeps the type, and what a request still owes.
LEMMA RestKeeps ==
  ASSUME NEW q \in Reqs
  PROVE  /\ Rested(q) \in Reqs
         /\ q.at = "idle" /\ Attends(q) => Attends(Rested(q))
         /\ q.at # "idle" => Rested(q) = q
  BY DEF Rested, Reqs, NoReq, Unwatched, Attends, Routes

LEMMA OverKeeps ==
  ASSUME NEW q \in Reqs
  PROVE  /\ Over(q) \in Reqs
         /\ q.alarm = "observe" /\ q.trial => Attends(Over(q))
<1>1. [q EXCEPT !.at = "idle"] \in Reqs
  BY DEF Reqs
<1> QED BY <1>1, RestKeeps DEF Over, Attends, Reqs

LEMMA InitInv == Init => IInv
<1> SUFFICES ASSUME Init PROVE IInv
  OBVIOUS
<1>1. conf \in Confs /\ conf.limit \in Nat /\ conf.limit > 0
  BY ConfFields DEF Init
<1>2. TypeOK
  BY DEF Init, TypeOK, Managers, Routes, Reqs, NoReq
<1>3. TrialNotLeaked /\ TrialOnlyFromBackup
  BY DEF Init, TrialNotLeaked, TrialOnlyFromBackup
<1>4. CountBelowLimit /\ BackupClientExists
  BY <1>1 DEF Init, CountBelowLimit, BackupClientExists
<1> QED BY <1>2, <1>3, <1>4 DEF IInv

\* A new request: if it takes a trial, it owes the report.
LEMMA RouteInv ==
  ASSUME IInv, NEW r \in Requests, Route(r)
  PROVE  IInv'
<1> DEFINE q == [NoReq EXCEPT !.at = "routed", !.trial = TakesTrial,
                   !.route = IF TakesTrial THEN "primary" ELSE mgr.active]
<1>1. /\ mgr \in Managers /\ conf \in Confs /\ req[r] = NoReq
      /\ TakesTrial \in BOOLEAN
  BY DEF IInv, TypeOK, Route, TakesTrial
<1>2. /\ q \in Reqs /\ q.trial = TakesTrial /\ q.at = "routed" /\ ~q.fired
  BY <1>1 DEF Reqs, NoReq, Routes, Managers
<1>3. req' = [req EXCEPT ![r] = q]
  BY DEF Route, Becomes
<1>4. /\ mgr' \in Managers /\ mgr'.trial = (mgr.trial \/ TakesTrial)
      /\ mgr'.active = mgr.active /\ mgr'.count = mgr.count
  BY <1>1 DEF Route, Managers
<1>5. TypeOK'
  BY <1>2, <1>3, <1>4 DEF IInv, TypeOK, Route
<1>6. TrialNotLeaked'
  <2>1. CASE TakesTrial
    <3>1. owner' = r /\ req'[r] = q
      BY <2>1, <1>3 DEF Route, IInv, TypeOK
    <3> QED BY <2>1, <3>1, <1>2, RequestAssumption DEF TrialNotLeaked
  <2>2. CASE ~TakesTrial
    <3>1. owner' = owner /\ mgr'.trial = mgr.trial
      BY <2>2, <1>4 DEF Route, IInv, TypeOK, Managers
    <3>2. mgr.trial => owner # r
      BY <1>1 DEF IInv, TrialNotLeaked, NoReq
    <3>3. mgr.trial => req'[owner] = req[owner]
      BY <3>2, <1>3 DEF IInv, TypeOK, TrialNotLeaked
    <3> QED BY <3>1, <3>3 DEF IInv, TrialNotLeaked
  <2> QED BY <2>1, <2>2
<1>7. TrialOnlyFromBackup' /\ CountBelowLimit' /\ BackupClientExists'
  BY <1>4 DEF IInv, Route, TakesTrial, TrialOnlyFromBackup, CountBelowLimit,
              BackupClientExists, Enabled
<1> QED BY <1>5, <1>6, <1>7 DEF IInv

\* The steps of a request before its end.
LEMMA RunInv ==
  ASSUME IInv, NEW r \in Requests,
         Watch(r) \/ Pause(r) \/ Stall(r) \/ Resume(r) \/ Resumed(r) \/ EndUpstream(r)
  PROVE  IInv'
<1>1. req[r] \in Reqs /\ mgr \in Managers /\ conf \in Confs
  BY DEF IInv, TypeOK
<1>2. PICK q \in Reqs : /\ req' = [req EXCEPT ![r] = q]
                        /\ Attends(req[r]) => Attends(q)
  <2>1. CASE Watch(r)
    <3> DEFINE q == [req[r] EXCEPT !.at = "sent",
          !.timer = IF Enabled(conf) /\ conf.timed /\ req[r].route = "primary"
                      THEN "armed" ELSE "none"]
    <3>1. q \in Reqs /\ (Attends(req[r]) => Attends(q))
      BY <1>1, <2>1 DEF Watch, Reqs, Attends
    <3> QED BY <2>1, <3>1 DEF Watch, Becomes
  <2>2. CASE Pause(r)
    <3> DEFINE q == [req[r] EXCEPT !.at = "writing",
          !.timer = IF @ = "armed" /\ ~req[r].fired THEN "paused" ELSE @]
    <3>1. q \in Reqs /\ (Attends(req[r]) => Attends(q))
      BY <1>1, <2>2 DEF Pause, Reqs, Attends
    <3> QED BY <2>2, <3>1 DEF Pause, Becomes
  <2>3. CASE Stall(r)
    <3>1. /\ [req[r] EXCEPT !.at = "stalled"] \in Reqs
          /\ Attends(req[r]) => Attends([req[r] EXCEPT !.at = "stalled"])
      BY <1>1, <2>3 DEF Stall, Reqs, Attends
    <3> QED BY <2>3, <3>1 DEF Stall, Becomes
  <2>4. CASE Resume(r)
    <3> DEFINE q1 == [req[r] EXCEPT !.at = "sent",
                        !.timer = IF @ = "paused" THEN "armed" ELSE @]
               q2 == [req[r] EXCEPT !.at = "resuming", !.fired = TRUE,
                        !.alarm = "observe",
                        !.timer = IF @ = "paused" THEN "over" ELSE @]
    <3>1. /\ q1 \in Reqs /\ (Attends(req[r]) => Attends(q1))
          /\ q2 \in Reqs /\ (Attends(req[r]) => Attends(q2))
      BY <1>1, <2>4 DEF Resume, Reqs, Attends
    <3>2. req' = [req EXCEPT ![r] = q1] \/ req' = [req EXCEPT ![r] = q2]
      BY <2>4 DEF Resume, Becomes
    <3> QED BY <3>1, <3>2
  <2>5. CASE Resumed(r)
    <3>1. /\ [req[r] EXCEPT !.at = "sent"] \in Reqs
          /\ Attends(req[r]) => Attends([req[r] EXCEPT !.at = "sent"])
      BY <1>1, <2>5 DEF Resumed, Reqs, Attends
    <3> QED BY <2>5, <3>1 DEF Resumed, Becomes
  <2>6. CASE EndUpstream(r)
    <3>1. PICK end \in {"fast", "slow", "error"} :
            req' = [req EXCEPT ![r] = [req[r] EXCEPT !.at = "ended", !.end = end]]
      BY <2>6 DEF EndUpstream, Becomes
    <3>2. /\ [req[r] EXCEPT !.at = "ended", !.end = end] \in Reqs
          /\ Attends(req[r]) =>
               Attends([req[r] EXCEPT !.at = "ended", !.end = end])
      BY <1>1, <2>6 DEF EndUpstream, Reqs, Attends
    <3> QED BY <3>1, <3>2
  <2> QED BY <2>1, <2>2, <2>3, <2>4, <2>5, <2>6
<1>3. UNCHANGED <<conf, mgr, owner>> /\ UNCHANGED <<applied, configuring>>
  BY DEF Watch, Pause, Stall, Resume, Resumed, EndUpstream
<1> QED BY <1>2, <1>3, QuietStep

\* finishInFlightWatch lets go of a trial only if the watchdog reports it.
LEMMA StopInv ==
  ASSUME IInv, NEW r \in Requests, Stop(r)
  PROVE  IInv'
<1> DEFINE q == [req[r] EXCEPT
                   !.timer = IF @ \in {"armed", "paused"} THEN "over" ELSE @]
           p == [q EXCEPT !.at = "observing"]
<1>1. req[r] \in Reqs /\ req[r].at = "ended"
  BY DEF IInv, TypeOK, Stop
<1>2. /\ q \in Reqs /\ q.alarm = req[r].alarm /\ q.trial = req[r].trial
      /\ q.fired = req[r].fired
      /\ p \in Reqs /\ p.alarm = q.alarm /\ p.trial = q.trial
      /\ p.fired = q.fired /\ p.at = "observing"
  BY <1>1 DEF Reqs
<1>3. UNCHANGED <<conf, mgr, owner>> /\ UNCHANGED <<applied, configuring>>
  BY DEF Stop
<1>4. CASE req' = [req EXCEPT ![r] = p]
  <2>1. Attends(req[r]) => Attends(p)
    BY <1>2 DEF Attends
  <2> QED BY <1>2, <1>3, <1>4, <2>1, QuietStep
<1>5. CASE ~IsReported(q) /\ req' = [req EXCEPT ![r] = Over(q)]
  <2>1. Attends(req[r]) => q.alarm = "observe" /\ q.trial
    BY <1>2, <1>5 DEF Attends, IsReported
  <2>2. Over(q) \in Reqs /\ (Attends(req[r]) => Attends(Over(q)))
    BY <1>2, <2>1, OverKeeps
  <2> QED BY <1>3, <1>5, <2>2, QuietStep
<1> QED BY <1>4, <1>5 DEF Stop, Becomes

\* The report at the end of a request.
LEMMA ObserveInv ==
  ASSUME IInv, NEW r \in Requests, Observe(r)
  PROVE  IInv'
<1> DEFINE new == Observed(mgr, req[r])
           q == [req[r] EXCEPT !.counted = @ \/ OneMore(new)]
           p == [q EXCEPT !.at = "applying", !.to = new.active]
<1>1. req[r] \in Reqs /\ mgr \in Managers /\ conf \in Confs /\ Sound(mgr)
  BY DEF IInv, TypeOK, Sound, TrialOnlyFromBackup, CountBelowLimit
<1>2. /\ new \in Managers /\ Sound(new)
      /\ new.trial => mgr.trial /\ ~req[r].trial
  BY <1>1, ObservedSound
<1>3. OneMore(new) \in BOOLEAN
  BY DEF OneMore
<1>4. q \in Reqs
  BY <1>1, <1>3 DEF Reqs
<1>5. p \in Reqs /\ Over(q) \in Reqs
  <2>1. new.active \in Routes
    BY <1>2 DEF Managers
  <2> HIDE DEF new, q
  <2>2. [q EXCEPT !.at = "applying", !.to = new.active] \in Reqs
    BY <1>4, <2>1 DEF Reqs
  <2> QED BY <1>4, <2>2, OverKeeps
<1>6. /\ mgr' = new
      /\ req' = [req EXCEPT ![r] = p] \/ req' = [req EXCEPT ![r] = Over(q)]
      /\ UNCHANGED <<conf, applied, configuring, owner>>
  BY DEF Observe, Becomes
<1> QED BY <1>2, <1>5, <1>6, ReportStep

\* The report of a watchdog.
LEMMA ObserveTimeoutInv ==
  ASSUME IInv, NEW r \in Requests, ObserveTimeout(r)
  PROVE  IInv'
<1> DEFINE new == TimedOut(mgr, req[r])
           q == [req[r] EXCEPT !.counted = @ \/ OneMore(new),
                   !.alarm = IF new.active # mgr.active THEN "apply" ELSE "none"]
<1>1. req[r] \in Reqs /\ mgr \in Managers /\ conf \in Confs /\ Sound(mgr)
  BY DEF IInv, TypeOK, Sound, TrialOnlyFromBackup, CountBelowLimit
<1>2. /\ new \in Managers /\ Sound(new)
      /\ new.trial => mgr.trial /\ ~req[r].trial
  BY <1>1, TimedOutSound
<1>3. OneMore(new) \in BOOLEAN
  BY DEF OneMore
<1>4. q \in Reqs
  BY <1>1, <1>3 DEF Reqs
<1>5. Rested(q) \in Reqs
  BY <1>4, RestKeeps
<1>6. /\ mgr' = new
      /\ req' = [req EXCEPT ![r] = Rested(q)]
      /\ UNCHANGED <<conf, applied, configuring, owner>>
  BY DEF ObserveTimeout, Becomes
<1> QED BY <1>2, <1>5, <1>6, ReportStep

\* The steps of the timer.
LEMMA TimerInv ==
  ASSUME IInv, NEW r \in Requests, TimerExpires(r) \/ Fire(r)
  PROVE  IInv'
<1>1. req[r] \in Reqs
  BY DEF IInv, TypeOK
<1>2. UNCHANGED <<conf, mgr, owner>> /\ UNCHANGED <<applied, configuring>>
  BY DEF TimerExpires, Fire
<1>3. CASE TimerExpires(r)
  <2>1. /\ [req[r] EXCEPT !.timer = "running"] \in Reqs
        /\ Attends(req[r]) => Attends([req[r] EXCEPT !.timer = "running"])
    BY <1>1 DEF Reqs, Attends
  <2> QED BY <1>2, <1>3, <2>1, QuietStep DEF TimerExpires, Becomes
<1>4. CASE Fire(r) /\ req[r].fired
  <2> DEFINE q == [req[r] EXCEPT !.timer = "over"]
  <2>1. /\ q \in Reqs /\ q.at = req[r].at
        /\ Attends(req[r]) => Attends(q)
    BY <1>1 DEF Reqs, Attends
  <2>2. Rested(q) \in Reqs /\ (Attends(req[r]) => Attends(Rested(q)))
    BY <2>1, RestKeeps
  <2> QED BY <1>2, <1>4, <2>2, QuietStep DEF Fire, Becomes
<1>5. CASE Fire(r) /\ ~req[r].fired
  <2> DEFINE q == [req[r] EXCEPT !.timer = "over", !.fired = TRUE,
                                 !.alarm = "observe"]
  <2>1. q \in Reqs /\ (Attends(req[r]) => Attends(q))
    BY <1>1 DEF Reqs, Attends
  <2> QED BY <1>2, <1>5, <2>1, QuietStep DEF Fire, Becomes
<1> QED BY <1>3, <1>4, <1>5

\* Activating clients, late or not: never those of a backup that is not there.
LEMMA ApplyInv ==
  ASSUME IInv, NEW r \in Requests, ApplyRoute(r) \/ ApplyTimeout(r)
  PROVE  IInv'
<1> DEFINE q == [req[r] EXCEPT !.alarm = "none"]
<1>1. req[r] \in Reqs /\ conf \in Confs
  BY DEF IInv, TypeOK
<1>2. PICK p \in Reqs : /\ req' = [req EXCEPT ![r] = p]
                        /\ Attends(req[r]) => Attends(p)
  <2>1. CASE ApplyRoute(r)
    <3>1. Attends(req[r]) => req[r].alarm = "observe" /\ req[r].trial
      BY <2>1 DEF ApplyRoute, Attends
    <3> QED BY <1>1, <2>1, <3>1, OverKeeps DEF ApplyRoute, Becomes
  <2>2. CASE ApplyTimeout(r)
    <3>1. q \in Reqs /\ (Attends(req[r]) => Attends(q)) /\ q.at = req[r].at
      BY <1>1, <2>2 DEF ApplyTimeout, Attends, Reqs
    <3>2. Rested(q) \in Reqs /\ (Attends(req[r]) => Attends(Rested(q)))
      BY <3>1, RestKeeps
    <3> QED BY <2>2, <3>2 DEF ApplyTimeout, Becomes
  <2> QED BY <2>1, <2>2
<1>3. /\ UNCHANGED <<conf, mgr, configuring, owner>>
      /\ applied' \in Routes /\ (applied' = "backup" => conf.backup)
  BY <1>1 DEF ApplyRoute, ApplyTimeout, ClientsOf, Reqs, Routes
<1>4. TypeOK'
  BY <1>2, <1>3 DEF IInv, TypeOK
<1>5. TrialNotLeaked'
  BY <1>2, <1>3 DEF IInv, TypeOK, TrialNotLeaked, Attends
<1>6. TrialOnlyFromBackup' /\ CountBelowLimit' /\ BackupClientExists'
  BY <1>3 DEF IInv, TrialOnlyFromBackup, CountBelowLimit, BackupClientExists, Enabled
<1> QED BY <1>4, <1>5, <1>6 DEF IInv

\* Time and settings.
LEMMA ControlInv ==
  ASSUME IInv, Cool \/ (\E c \in Confs : UpdateClients(c)) \/ ActivateConfigured
  PROVE  IInv'
<1>1. conf \in Confs /\ mgr \in Managers
  BY DEF IInv, TypeOK
<1>2. CASE Cool
  <2>1. /\ mgr' \in Managers /\ mgr'.trial = mgr.trial
        /\ mgr'.active = mgr.active /\ mgr'.count = mgr.count
        /\ UNCHANGED <<conf, applied, configuring, req, owner>>
    BY <1>1, <1>2 DEF Cool, Managers
  <2> QED BY <2>1 DEF IInv, TypeOK, TrialNotLeaked, TrialOnlyFromBackup,
                      CountBelowLimit, BackupClientExists, Enabled
<1>3. ASSUME NEW c \in Confs, UpdateClients(c) PROVE IInv'
  <2>1. /\ conf' = c /\ mgr' = Configured(c) /\ configuring' = TRUE
        /\ UNCHANGED <<applied, req, owner>>
    BY <1>3 DEF UpdateClients
  <2>2. /\ mgr' \in Managers /\ ~mgr'.trial /\ mgr'.count < c.limit
        /\ mgr'.active = "backup" => mgr'.count = 0 /\ Enabled(c)
    BY <1>1, <2>1, ConfiguredSound DEF IInv
  <2> QED BY <2>1, <2>2 DEF IInv, TypeOK, TrialNotLeaked, TrialOnlyFromBackup,
                            CountBelowLimit, BackupClientExists, Enabled
<1>4. CASE ActivateConfigured
  <2>1. /\ applied' \in Routes /\ (applied' = "backup" => conf.backup)
        /\ configuring' = FALSE /\ UNCHANGED <<conf, mgr, req, owner>>
    BY <1>1, <1>4 DEF ActivateConfigured, ClientsOf, Managers, Routes
  <2> QED BY <2>1 DEF IInv, TypeOK, TrialNotLeaked, TrialOnlyFromBackup,
                      CountBelowLimit, BackupClientExists, Enabled
<1> QED BY <1>2, <1>3, <1>4

\* No step breaks the invariant.
LEMMA NextInv == IInv /\ [Next]_vars => IInv'
<1> SUFFICES ASSUME IInv, [Next]_vars PROVE IInv'
  OBVIOUS
<1>1. ASSUME NEW r \in Requests, Route(r) \/ Step(r) \/ Pause(r) \/ Stall(r) \/ Alarm(r)
      PROVE  IInv'
  BY <1>1, RouteInv, RunInv, StopInv, ObserveInv, ApplyInv, TimerInv,
     ObserveTimeoutInv DEF Step, Alarm
<1>2. CASE Cool \/ (\E c \in Confs : UpdateClients(c)) \/ ActivateConfigured
  BY <1>2, ControlInv
<1>3. CASE UNCHANGED vars
  BY <1>3 DEF vars, IInv, TypeOK, TrialNotLeaked, TrialOnlyFromBackup,
              CountBelowLimit, BackupClientExists, Enabled
<1> QED BY <1>1, <1>2, <1>3 DEF Next

-----------------------------------------------------------------------------
(***************************************************************************)
(* The theorems.                                                           *)
(***************************************************************************)

\* The invariant holds in every state that can be reached.
THEOREM Invariance == Spec => []IInv
<1>1. Init => IInv
  BY InitInv
<1>2. IInv /\ [Next]_vars => IInv'
  BY NextInv
<1> QED BY <1>1, <1>2, PTL DEF Spec

\* The manager, the requests and their timers keep their types.
THEOREM TypeCorrect == Spec => []TypeOK
<1>1. IInv => TypeOK
  BY DEF IInv
<1> QED BY <1>1, Invariance, PTL

\* The trial flag is never left behind by the request that took the trial, with
\* any number of requests, timeouts and changes of the settings.
THEOREM TrialNeverLeaks == Spec => [](TrialNotLeaked /\ TrialOnlyFromBackup)
<1>1. IInv => TrialNotLeaked /\ TrialOnlyFromBackup
  BY DEF IInv
<1> QED BY <1>1, Invariance, PTL

\* The count of failures stays below whatever limit is in force, and the backup
\* is active only while failover is enabled.
THEOREM CountStaysBelowLimit == Spec => []CountBelowLimit
<1>1. IInv => CountBelowLimit
  BY DEF IInv
<1> QED BY <1>1, Invariance, PTL

\* Clients of a backup that is not configured are never in use, except while
\* new settings are being applied.
THEOREM BackupAlwaysExists == Spec => []BackupClientExists
<1>1. IInv => BackupClientExists
  BY DEF IInv
<1> QED BY <1>1, Invariance, PTL
=============================================================================
