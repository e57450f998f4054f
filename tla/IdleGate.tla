------------------------------ MODULE IdleGate ------------------------------
(***************************************************************************)
(* The foreground gate of engine/telemetry: background work (prefetch and  *)
(* prewarm) waits until no dynamic request and no asset request is being   *)
(* served.                                                                 *)
(*                                                                         *)
(* Two atomic counters are raised and lowered around every request.  A     *)
(* request that lowers one looks whether both are zero, and if so closes,  *)
(* under idleMu, the channel that waiters hold and makes a new one.  A     *)
(* waiter that found work takes the channel under idleMu and looks again   *)
(* before it waits.  The counters are read one after the other and without *)
(* the mutex.                                                              *)
(***************************************************************************)
EXTENDS Integers, FiniteSets

CONSTANTS Requests,  \* goroutines that serve requests
          Dynamic,   \* those counted by ActiveAPICount; ActiveForegroundAssets
                     \* counts the others
          Waiters,   \* goroutines that call WaitForegroundIdle
          Nobody

ASSUME GateAssumption == /\ IsFiniteSet(Requests)
                         /\ Dynamic \subseteq Requests
                         /\ Requests \cap Waiters = {}
                         /\ Nobody \notin Requests

VARIABLES api,     \* ActiveAPICount
          fg,      \* ActiveForegroundAssets
          idleMu,  \* the request that holds the mutex while it loads, or Nobody
          closed,  \* Stats.closed, and closedChan with it
          stopped, \* the stopChan that callers hand over is closed
          gateAt,  \* gateAt[p] : where p is
          holds    \* holds[w]  : whether the channel that w took is still open

gateVars == <<api, fg, idleMu, closed, stopped, gateAt, holds>>

\* Leaving: a request lowered its counter and is at the given load of one of
\* its three looks at the counters; the third one is under the mutex.
Leaving == {"api1", "fg1", "api2", "fg2", "lock", "api3", "fg3"}
RequestPlaces == {"out", "in"} \cup Leaving
WaiterPlaces == {"out", "api1", "fg1", "lock", "api2", "fg2", "waiting"}

GateTypeOK == /\ api \in Nat /\ fg \in Nat
              /\ idleMu \in Requests \cup {Nobody}
              /\ closed \in BOOLEAN /\ stopped \in BOOLEAN
              /\ gateAt \in [Requests \cup Waiters -> RequestPlaces \cup WaiterPlaces]
              /\ \A r \in Requests : gateAt[r] \in RequestPlaces
              /\ \A w \in Waiters : gateAt[w] \in WaiterPlaces
              /\ holds \in [Waiters -> BOOLEAN]

GateInit == /\ api = 0 /\ fg = 0
            /\ idleMu = Nobody
            /\ closed = FALSE /\ stopped = FALSE
            /\ gateAt = [p \in Requests \cup Waiters |-> "out"]
            /\ holds = [w \in Waiters |-> FALSE]

Goes(p, from, to) == gateAt[p] = from /\ gateAt' = [gateAt EXCEPT ![p] = to]

\* The load of a counter: with more than zero there is nothing to tell.
Loads(p, from, counter, zero, more) ==
  Goes(p, from, IF counter <= 0 THEN zero ELSE more)

-----------------------------------------------------------------------------
(***************************************************************************)
(* Requests.                                                               *)
(***************************************************************************)

\* AddActiveAPI(1) or AddActiveFG(1).
Arrive(r) ==
  /\ Goes(r, "out", "in")
  /\ api' = IF r \in Dynamic THEN api + 1 ELSE api
  /\ fg' = IF r \in Dynamic THEN fg ELSE fg + 1
  /\ UNCHANGED <<idleMu, closed, stopped, holds>>

\* Faulty variant: a request that ends is taken off the counters twice.
TwiceLowered(n) == n - 2

Lowered(n) == n - 1

\* AddActiveAPI(-1) or AddActiveFG(-1).
Depart(r) ==
  /\ Goes(r, "in", "api1")
  /\ api' = IF r \in Dynamic THEN Lowered(api) ELSE api
  /\ fg' = IF r \in Dynamic THEN fg ELSE Lowered(fg)
  /\ UNCHANGED <<idleMu, closed, stopped, holds>>

\* IsForegroundIdle, by AddActive... and again by NotifyForegroundIdle.
Look(r) ==
  /\ \/ Loads(r, "api1", api, "fg1", "out") \/ Loads(r, "fg1", fg, "api2", "out")
     \/ Loads(r, "api2", api, "fg2", "out") \/ Loads(r, "fg2", fg, "lock", "out")
  /\ UNCHANGED <<api, fg, idleMu, closed, stopped, holds>>

\* NotifyForegroundIdle takes the mutex.
Lock(r) ==
  /\ idleMu = Nobody
  /\ IF closed THEN Goes(r, "lock", "out") /\ UNCHANGED idleMu
               ELSE Goes(r, "lock", "api3") /\ idleMu' = r
  /\ UNCHANGED <<api, fg, closed, stopped, holds>>

\* Its first load under the mutex.
LookLocked(r) ==
  /\ Loads(r, "api3", api, "fg3", "out")
  /\ idleMu' = IF api <= 0 THEN idleMu ELSE Nobody
  /\ UNCHANGED <<api, fg, closed, stopped, holds>>

\* Faulty variant: the channel is replaced and never closed.
NobodyWoken == holds

\* The waiters that still hold an open channel once it is closed.
Woken == [w \in Waiters |-> FALSE]

\* Its second load, and with both zero the channel is closed and replaced.
Notify(r) ==
  /\ Goes(r, "fg3", "out")
  /\ holds' = IF fg <= 0 THEN Woken ELSE holds
  /\ idleMu' = Nobody
  /\ UNCHANGED <<api, fg, closed, stopped>>

-----------------------------------------------------------------------------
(***************************************************************************)
(* Waiters, the end of the caller and of the gate.                         *)
(***************************************************************************)
Call(w) ==
  /\ Goes(w, "out", "api1")
  /\ UNCHANGED <<api, fg, idleMu, closed, stopped, holds>>

\* The look that decides whether to wait; it returns true when both are zero.
CheckIdle(w) ==
  /\ Loads(w, "api1", api, "fg1", "lock") \/ Loads(w, "fg1", fg, "out", "lock")
  /\ UNCHANGED <<api, fg, idleMu, closed, stopped, holds>>

\* Faulty variant: a waiter that took the channel waits at once.
WaitAtOnce == "waiting"

\* Where a waiter goes that took the channel: to a second look.
NextCheck == "api2"

\* The critical section of a waiter: closed, or the channel of the moment.
Take(w) ==
  /\ idleMu = Nobody
  /\ Goes(w, "lock", IF closed THEN "out" ELSE NextCheck)
  /\ holds' = [holds EXCEPT ![w] = ~closed]
  /\ UNCHANGED <<api, fg, idleMu, closed, stopped>>

\* The second look; it returns true when both are zero.
Recheck(w) ==
  /\ \/ Loads(w, "api2", api, "fg2", "waiting")
     \/ Loads(w, "fg2", fg, "out", "waiting")
  /\ UNCHANGED <<api, fg, idleMu, closed, stopped, holds>>

\* Faulty variant: only the idle channel is selected on.
NeverReleased == FALSE

\* One of the other two channels is closed.
Released == stopped \/ closed

\* The select: give up ...
GiveUp(w) ==
  /\ Goes(w, "waiting", "out")
  /\ Released
  /\ UNCHANGED <<api, fg, idleMu, closed, stopped, holds>>

\* ... or start over when the channel that w holds is closed.
Wake(w) ==
  /\ Goes(w, "waiting", "api1")
  /\ ~holds[w]
  /\ UNCHANGED <<api, fg, idleMu, closed, stopped, holds>>

\* The component that waits is stopped.
Stop ==
  /\ ~stopped
  /\ stopped' = TRUE
  /\ UNCHANGED <<api, fg, idleMu, closed, gateAt, holds>>

\* Stats.Close.
Close ==
  /\ ~closed
  /\ idleMu = Nobody
  /\ closed' = TRUE
  /\ holds' = [w \in Waiters |-> FALSE]
  /\ UNCHANGED <<api, fg, idleMu, stopped, gateAt>>

RequestStep(r) == Look(r) \/ Lock(r) \/ LookLocked(r) \/ Notify(r)
WaiterStep(w) == CheckIdle(w) \/ Take(w) \/ Recheck(w) \/ GiveUp(w) \/ Wake(w)

GateNext == \/ \E r \in Requests : Arrive(r) \/ Depart(r) \/ RequestStep(r)
            \/ \E w \in Waiters : Call(w) \/ WaiterStep(w)
            \/ Stop \/ Close

\* Goroutines that can run do, idleMu is not kept from a waiter for ever, and a
\* select that finds several channels ready takes one at random.  Nothing says
\* that a request ends.
GateFairness == /\ \A r \in Requests : WF_gateVars(RequestStep(r))
                /\ \A w \in Waiters : /\ WF_gateVars(WaiterStep(w))
                                      /\ SF_gateVars(Take(w)) /\ SF_gateVars(GiveUp(w))

GateSpec == GateInit /\ [][GateNext]_gateVars /\ GateFairness

-----------------------------------------------------------------------------
(***************************************************************************)
(* Properties.                                                             *)
(***************************************************************************)

\* No wakeup is lost: whoever waits on an open channel can count on a request
\* that is being served or is on its way to the notification, although the two
\* counters are read at different moments and requests come and go meanwhile
\* (WaitForegroundIdle, NotifyForegroundIdle).
NoLostWakeup ==
  ~closed => \A w \in Waiters :
    gateAt[w] = "waiting" /\ holds[w] => \E r \in Requests : gateAt[r] # "out"

\* Background work goes on once requests stop coming: if from some moment on
\* nothing is served, every waiter returns (WaitForegroundIdle).
IdleReleases ==
  <>[](\A r \in Requests : gateAt[r] = "out") => \A w \in Waiters : []<>(gateAt[w] = "out")

\* Nobody waits for the foreground when the component is being stopped or the
\* gate is closed, however busy the foreground is ("stopChan", prefetch.go).
StopReleases ==
  \A w \in Waiters : gateAt[w] # "out" /\ (stopped \/ closed) ~> gateAt[w] = "out"

\* Both: no waiter stays in the gate longer than the foreground is busy, nor when
\* the program wants to end.
WaitersReturn == IdleReleases /\ StopReleases
=============================================================================
