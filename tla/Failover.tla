------------------------------ MODULE Failover ------------------------------
(***************************************************************************)
(* The upstream failover of engine/proxy: failoverManager (failover.go)    *)
(* and the requests, watchdog timers and reconfigurations that drive it    *)
(* (proxy.go, updateClients to finishInFlightWatch).                       *)
(*                                                                         *)
(* The manager decides, under its own mutex, which upstream is active; the *)
(* clients that the rest of the proxy uses follow later, under the mutex   *)
(* of the server.  A request is watched by a timer that reports it as slow *)
(* while it is still running; the request reports how it ended.  When the  *)
(* backup has been active long enough, one GET or HEAD request is sent to  *)
(* the primary as a trial.                                                 *)
(*                                                                         *)
(* Only GET and HEAD requests are modelled: others neither take a trial    *)
(* nor report anything.                                                    *)
(***************************************************************************)
EXTENDS Integers, FiniteSets

CONSTANTS Requests,   \* GET and HEAD requests that may be under way together
          Confs,      \* settings that updateClients may apply
          MayStall,   \* whether a client may stop reading its response
          NoRequest

ASSUME ConfAssumption ==
  /\ Confs \subseteq [enabled : BOOLEAN, backup : BOOLEAN, auto : BOOLEAN,
                      timed : BOOLEAN, limit : Nat \ {0}]
  /\ Confs # {}
ASSUME RequestAssumption == NoRequest \notin Requests
ASSUME StallAssumption == MayStall \in BOOLEAN

VARIABLES conf,        \* the settings the manager was given last
          mgr,         \* its state: active route, failureCount,
                       \* trialInFlight, and whether the cooldown is over
          applied,     \* the route whose clients are stored in apiClient
          configuring, \* updateClients holds the server's mutex
          req,         \* req[r] : request r and its watchdog
          owner        \* history: the request that took the last trial

vars == <<conf, mgr, applied, configuring, req, owner>>

Routes == {"primary", "backup"}
Managers == [active : Routes, count : Nat, trial : BOOLEAN, cooled : BOOLEAN]

\* at: where the request is.  timer: its watchdog, as the runtime sees it;
\* fired: the flag of inFlightTracker.  alarm: what the goroutine of the timer
\* still has to do.  end: how the upstream request ended.  to: the route the
\* request still has to activate.  counted: history, the manager has counted
\* this attempt as a failure.
Reqs == [at : {"idle", "routed", "sent", "writing", "stalled", "resuming",
               "ended", "observing", "applying"},
         route : Routes, trial : BOOLEAN,
         end : {"none", "fast", "slow", "error"},
         timer : {"none", "armed", "paused", "running", "over"},
         fired : BOOLEAN, alarm : {"none", "observe", "apply"},
         to : Routes, counted : BOOLEAN]

NoReq == [at |-> "idle", route |-> "primary", trial |-> FALSE,
          end |-> "none", timer |-> "none", fired |-> FALSE, alarm |-> "none",
          to |-> "primary", counted |-> FALSE]

TypeOK == /\ conf \in Confs
          /\ mgr \in Managers
          /\ applied \in Routes
          /\ configuring \in BOOLEAN
          /\ req \in [Requests -> Reqs]
          /\ owner \in Requests \cup {NoRequest}

\* failoverManager.isEnabled: configure keeps "enabled && backupConfigured".
Enabled(c) == c.enabled /\ c.backup

Init == /\ conf \in Confs
        /\ mgr = [active |-> "primary", count |-> 0, trial |-> FALSE,
                  cooled |-> FALSE]
        /\ applied = "primary"
        /\ configuring = FALSE
        /\ req = [r \in Requests |-> NoReq]
        /\ owner = NoRequest

Becomes(r, q) == req' = [req EXCEPT ![r] = q]

\* The watchdog of q has nothing left to do.
Unwatched(q) == q.timer \in {"none", "over"} /\ q.alarm = "none"

\* A request and a watchdog that are both over leave nothing behind.
Rested(q) == IF q.at = "idle" /\ Unwatched(q) THEN NoReq ELSE q

-----------------------------------------------------------------------------
(***************************************************************************)
(* What the manager makes of a report, each under its mutex.               *)
(***************************************************************************)

\* Faulty variant: a trial that failed keeps the trial flag.
TrialForgotten(m, bad) ==
  IF bad THEN [m EXCEPT !.cooled = FALSE]
         ELSE [m EXCEPT !.trial = FALSE, !.cooled = FALSE, !.active = "primary",
                        !.count = 0]

\* A trial is over: back to the primary, or another cooldown on the backup.
TrialOver(m, bad) ==
  IF bad THEN [m EXCEPT !.trial = FALSE, !.cooled = FALSE]
         ELSE [m EXCEPT !.trial = FALSE, !.cooled = FALSE, !.active = "primary",
                        !.count = 0]

TrialReport(m, bad) ==
  IF m.active = "backup" /\ m.trial THEN TrialOver(m, bad) ELSE m

\* The report of a request that was not a trial counts only on the primary.
IsCounted(m, q) == Enabled(conf) /\ q.route = m.active /\ q.route = "primary"

Tripped(m) == [m EXCEPT !.active = "backup", !.count = 0, !.cooled = FALSE]

\* Faulty variant: one failure more than the limit is tolerated.
SlowLateByOne(m) == IF m.count < conf.limit THEN [m EXCEPT !.count = @ + 1]
                                            ELSE Tripped(m)

\* A soft failure: the limit of consecutive ones switches to the backup.
Slow(m) == IF m.count + 1 < conf.limit THEN [m EXCEPT !.count = @ + 1]
                                       ELSE Tripped(m)

\* Faulty variant: a good request takes one failure off the count.
Decayed(m) == [m EXCEPT !.count = @ - 1]

\* A good request ends the run of consecutive failures.
Cleared(m) == [m EXCEPT !.count = 0]

\* observe: how the request ended.
Observed(m, q) ==
  LET slow == conf.timed /\ q.end = "slow"
      error == q.end = "error"
  IN CASE q.trial -> TrialReport(m, error \/ slow)
       [] ~q.trial /\ ~IsCounted(m, q) -> m
       [] ~q.trial /\ IsCounted(m, q) /\ error -> Tripped(m)
       [] ~q.trial /\ IsCounted(m, q) /\ slow -> Slow(m)
       [] OTHER -> Cleared(m)

\* observeInFlightTimeout: it is still running and already too slow.
TimedOut(m, q) ==
  CASE q.trial -> TrialReport(m, TRUE)
    [] ~q.trial /\ IsCounted(m, q) -> Slow(m)
    [] OTHER -> m

\* Whether new counts one failure more than the manager's state does, or is the
\* switch that failures lead to.
OneMore(new) == \/ new.count > mgr.count
                \/ mgr.active = "primary" /\ new.active = "backup"

-----------------------------------------------------------------------------
(***************************************************************************)
(* A request.                                                              *)
(***************************************************************************)

\* routeForRequest: the active route, or the primary as a trial.
TakesTrial == /\ mgr.active = "backup" /\ Enabled(conf) /\ conf.auto
              /\ mgr.cooled /\ ~mgr.trial

Route(r) ==
  /\ req[r] = NoReq
  /\ Becomes(r, [NoReq EXCEPT !.at = "routed", !.trial = TakesTrial,
                   !.route = IF TakesTrial THEN "primary" ELSE mgr.active])
  /\ mgr' = [mgr EXCEPT !.trial = @ \/ TakesTrial]
  /\ owner' = IF TakesTrial THEN r ELSE owner
  /\ UNCHANGED <<conf, applied, configuring>>

\* startInFlightWatch, and the upstream request is sent.
Watch(r) ==
  /\ req[r].at = "routed"
  /\ Becomes(r, [req[r] EXCEPT !.at = "sent",
       !.timer = IF Enabled(conf) /\ conf.timed /\ req[r].route = "primary"
                   THEN "armed" ELSE "none"])
  /\ UNCHANGED <<conf, mgr, applied, configuring, owner>>

\* pause: part of the body goes to the client.  A callback that the runtime
\* has started already is not stopped.
Pause(r) ==
  /\ req[r].at = "sent"
  /\ Becomes(r, [req[r] EXCEPT !.at = "writing",
       !.timer = IF @ = "armed" /\ ~req[r].fired THEN "paused" ELSE @])
  /\ UNCHANGED <<conf, mgr, applied, configuring, owner>>

\* The client stops reading: the write has no deadline.
Stall(r) ==
  /\ MayStall
  /\ req[r].at = "writing"
  /\ Becomes(r, [req[r] EXCEPT !.at = "stalled"])
  /\ UNCHANGED <<conf, mgr, applied, configuring, owner>>

\* resume: the timer runs for what is left of the threshold; if nothing is, the
\* request reports the timeout itself.
Resume(r) ==
  /\ req[r].at = "writing"
  /\ \/ Becomes(r, [req[r] EXCEPT !.at = "sent",
                      !.timer = IF @ = "paused" THEN "armed" ELSE @])
     \/ /\ req[r].timer \in {"paused", "running"} /\ ~req[r].fired
        /\ Becomes(r, [req[r] EXCEPT !.at = "resuming", !.fired = TRUE,
             !.alarm = "observe", !.timer = IF @ = "paused" THEN "over" ELSE @])
  /\ UNCHANGED <<conf, mgr, applied, configuring, owner>>

Resumed(r) ==
  /\ req[r].at = "resuming" /\ req[r].alarm = "none"
  /\ Becomes(r, [req[r] EXCEPT !.at = "sent"])
  /\ UNCHANGED <<conf, mgr, applied, configuring, owner>>

\* The upstream has answered or failed, and the elapsed time is measured.
EndUpstream(r) ==
  /\ req[r].at = "sent"
  /\ \E end \in {"fast", "slow", "error"} :
       Becomes(r, [req[r] EXCEPT !.at = "ended", !.end = end])
  /\ UNCHANGED <<conf, mgr, applied, configuring, owner>>

\* Whether finishInFlightWatch reports the end of q: the watchdog has not, or a
\* hard error of a request that was no trial must not be swallowed.
IsReported(q) == ~q.fired \/ (q.end = "error" /\ ~q.trial)

\* The attempt is over.  (A GET that is retried keeps its route and is no trial:
\* it behaves as a request that was routed to the primary earlier.)
Over(q) == Rested([q EXCEPT !.at = "idle"])

\* finishInFlightWatch: stop the timer and read fired.
Stop(r) ==
  LET q == [req[r] EXCEPT !.timer = IF @ \in {"armed", "paused"} THEN "over" ELSE @]
  IN /\ req[r].at = "ended"
     /\ \/ /\ IsReported(q)
           /\ Becomes(r, [q EXCEPT !.at = "observing"])
        \/ /\ ~IsReported(q)
           /\ Becomes(r, Over(q))
     /\ UNCHANGED <<conf, mgr, applied, configuring, owner>>

\* observeUpstream: the report, under the manager's mutex.
Observe(r) ==
  LET new == Observed(mgr, req[r])
      q == [req[r] EXCEPT !.counted = @ \/ OneMore(new)]
  IN /\ req[r].at = "observing"
     /\ mgr' = new
     /\ IF new.active # mgr.active
          THEN Becomes(r, [q EXCEPT !.at = "applying", !.to = new.active])
          ELSE Becomes(r, Over(q))
     /\ UNCHANGED <<conf, applied, configuring, owner>>

\* Faulty variant: clients that do not exist are activated.
ClientsAnyway(route) == route

\* activateRouteLocked: the clients of the route, or those of the primary if
\* there is no backup.
ClientsOf(route) == IF conf.backup THEN route ELSE "primary"

\* activateRoute, under the server's mutex.
ApplyRoute(r) ==
  /\ req[r].at = "applying"
  /\ ~configuring
  /\ applied' = ClientsOf(req[r].to)
  /\ Becomes(r, Over(req[r]))
  /\ UNCHANGED <<conf, mgr, configuring, owner>>

-----------------------------------------------------------------------------
(***************************************************************************)
(* Its watchdog.                                                           *)
(***************************************************************************)

\* The runtime starts the callback: Stop cannot take that back.
TimerExpires(r) ==
  /\ req[r].timer = "armed"
  /\ Becomes(r, [req[r] EXCEPT !.timer = "running"])
  /\ UNCHANGED <<conf, mgr, applied, configuring, owner>>

\* The callback sets fired, unless resume did.
Fire(r) ==
  /\ req[r].timer = "running"
  /\ Becomes(r, IF req[r].fired
                  THEN Rested([req[r] EXCEPT !.timer = "over"])
                  ELSE [req[r] EXCEPT !.timer = "over", !.fired = TRUE,
                                      !.alarm = "observe"])
  /\ UNCHANGED <<conf, mgr, applied, configuring, owner>>

\* ProxyServer.observeInFlightTimeout.
ObserveTimeout(r) ==
  LET new == TimedOut(mgr, req[r])
  IN /\ req[r].alarm = "observe"
     /\ mgr' = new
     /\ Becomes(r, Rested([req[r] EXCEPT !.counted = @ \/ OneMore(new),
                      !.alarm = IF new.active # mgr.active THEN "apply" ELSE "none"]))
     /\ UNCHANGED <<conf, applied, configuring, owner>>

ApplyTimeout(r) ==
  /\ req[r].alarm = "apply"
  /\ ~configuring
  /\ applied' = ClientsOf("backup")
  /\ Becomes(r, Rested([req[r] EXCEPT !.alarm = "none"]))
  /\ UNCHANGED <<conf, mgr, configuring, owner>>

-----------------------------------------------------------------------------
(***************************************************************************)
(* Time and settings.                                                      *)
(***************************************************************************)

\* The cooldown since the last switch or failed trial is over.
Cool == /\ mgr.active = "backup" /\ ~mgr.cooled
        /\ mgr' = [mgr EXCEPT !.cooled = TRUE]
        /\ UNCHANGED <<conf, applied, configuring, req, owner>>

\* Faulty variant: new settings leave a trial under way.
TrialSurvives(c) ==
  IF Enabled(c)
    THEN [mgr EXCEPT !.count = IF mgr.active = "backup" THEN @ ELSE 0]
    ELSE [mgr EXCEPT !.active = "primary", !.count = 0]

\* configure: the manager under settings c.
Configured(c) ==
  IF Enabled(c)
    THEN [mgr EXCEPT !.trial = FALSE,
                     !.count = IF mgr.active = "backup" THEN @ ELSE 0]
    ELSE [mgr EXCEPT !.trial = FALSE, !.active = "primary", !.count = 0]

\* updateClients: store the new clients and configure the manager ...
UpdateClients(c) ==
  /\ ~configuring
  /\ configuring' = TRUE
  /\ conf' = c
  /\ mgr' = Configured(c)
  /\ UNCHANGED <<applied, req, owner>>

\* ... then activate the route that is active by now, still under the mutex.
ActivateConfigured ==
  /\ configuring
  /\ configuring' = FALSE
  /\ applied' = ClientsOf(mgr.active)
  /\ UNCHANGED <<conf, mgr, req, owner>>

Step(r) == \/ Watch(r) \/ Resume(r) \/ Resumed(r) \/ EndUpstream(r) \/ Stop(r)
           \/ Observe(r) \/ ApplyRoute(r)
Alarm(r) == TimerExpires(r) \/ Fire(r) \/ ObserveTimeout(r) \/ ApplyTimeout(r)

Next == \/ \E r \in Requests : Route(r) \/ Step(r) \/ Pause(r) \/ Stall(r) \/ Alarm(r)
        \/ Cool
        \/ \E c \in Confs : UpdateClients(c)
        \/ ActivateConfigured

\* Goroutines that can run do, and a request ends, however often its body
\* pauses, because every upstream client has a timeout.  A client need not read.
Fairness == \A r \in Requests : WF_vars(Step(r) \/ Alarm(r)) /\ SF_vars(EndUpstream(r))

Spec == Init /\ [][Next]_vars

FairSpec == Spec /\ Fairness

-----------------------------------------------------------------------------
(***************************************************************************)
(* Properties.                                                             *)
(***************************************************************************)

\* The trial flag is never left behind: while it is set, the request that took
\* the trial, or its watchdog, is still going to report, so that no mix of
\* timeouts, retries and new settings blocks recovery for good ("trialInFlight
\* leaked", failover_test.go).
TrialNotLeaked ==
  mgr.trial =>
    /\ owner # NoRequest
    /\ LET q == req[owner]
       IN /\ q.trial
          /\ \/ q.alarm = "observe"
             \/ ~q.fired /\ q.at \in {"routed", "sent", "writing", "stalled",
                                       "ended", "observing"}

\* A trial is only under way from the backup, and with settings that ask for
\* recovery: one that new settings have overtaken is no longer waited for.
TrialOnlyFromBackup ==
  mgr.trial => mgr.active = "backup" /\ Enabled(conf) /\ conf.auto

\* The count of consecutive failures stays below the limit that is in force,
\* also after the limit was lowered, and is only ever one of the primary; the
\* backup is active only while failover is enabled.
CountBelowLimit ==
  /\ mgr.count < conf.limit
  /\ mgr.active = "backup" => mgr.count = 0 /\ Enabled(conf)

\* An activation that comes late, after new settings took the backup away, does
\* not bring clients back that no longer exist.
BackupClientExists == ~configuring /\ applied = "backup" => conf.backup

\* Every trial is decided, so that the next one can start, unless its client
\* has stopped reading: the watchdog is paused while a client is written to.
TrialEnds == mgr.trial ~> ~mgr.trial \/ \E r \in Requests : req[r].at = "stalled"

(***************************************************************************)
(* What a comment says, and some interleaving contradicts.                 *)
(***************************************************************************)

\* A request is counted as a failure at most once ("must NOT be re-observed to
\* avoid double counting", finishInFlightWatch).
CountedOnce ==
  [][\A r \in Requests : req[r].counted /\ req'[r] # req[r] => ~OneMore(mgr')]_vars
=============================================================================
