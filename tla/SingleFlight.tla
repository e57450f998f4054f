---------------------------- MODULE SingleFlight ----------------------------
(***************************************************************************)
(* The request coalescing of engine/cache/singleflight.go.                 *)
(*                                                                         *)
(* The first caller of a key registers a call and executes the function;   *)
(* callers that arrive while the call is registered wait for it, or leave  *)
(* when their context is cancelled.  The executor publishes the outcome,   *)
(* then, in one critical section, takes the call off the map and closes    *)
(* its channel.  A panic of the function is an outcome like another.       *)
(***************************************************************************)
EXTENDS Integers, FiniteSets

CONSTANTS Procs,    \* goroutines that call DoContext
          Keys,     \* keys of requests
          Calls,    \* call objects; one that nobody refers to is allocated
          Outcomes, \* what the function may return: a value, an error, a panic
          Forgettable, \* keys Forget is called with (the engine calls it with none)
          NoKey, NoCall, NoOutcome, Cancelled

ASSUME ObjectAssumption ==
  /\ NoKey \notin Keys /\ NoCall \notin Calls
  /\ {NoOutcome, Cancelled} \cap Outcomes = {} /\ NoOutcome # Cancelled
ASSUME ForgetAssumption == Forgettable \subseteq Keys
ASSUME ProcsAssumption == IsFiniteSet(Procs)

VARIABLES flight,   \* flight[k]  : the registered call of k, or NoCall
          outcome,  \* outcome[c] : call.val and call.err, NoOutcome before
          done,     \* done[c]    : call.done is closed
          waiters,  \* waiters[c] : call.waiters
          at,       \* at[p]      : where p is in DoContext
          key,      \* key[p]     : the key p asked for
          call,     \* call[p]    : the call p executes or waits for
          got       \* got[p]     : what the last DoContext of p returned

callVars == <<flight, outcome, done, waiters>>
procVars == <<at, key, call, got>>
vars == <<callVars, procVars>>

Places == {"out", "running", "returned", "waiting", "leaving"}

TypeOK == /\ flight \in [Keys -> Calls \cup {NoCall}]
          /\ outcome \in [Calls -> Outcomes \cup {NoOutcome}]
          /\ done \in [Calls -> BOOLEAN]
          /\ waiters \in [Calls -> Nat]
          /\ at \in [Procs -> Places]
          /\ key \in [Procs -> Keys \cup {NoKey}]
          /\ call \in [Procs -> Calls \cup {NoCall}]
          /\ got \in [Procs -> Outcomes \cup {NoOutcome, Cancelled}]

Init == /\ flight = [k \in Keys |-> NoCall]
        /\ outcome = [c \in Calls |-> NoOutcome]
        /\ done = [c \in Calls |-> FALSE]
        /\ waiters = [c \in Calls |-> 0]
        /\ at = [p \in Procs |-> "out"]
        /\ key = [p \in Procs |-> NoKey]
        /\ call = [p \in Procs |-> NoCall]
        /\ got = [p \in Procs |-> NoOutcome]

Executes(p, c) == call[p] = c /\ at[p] \in {"running", "returned"}
WaitsFor(p, c) == call[p] = c /\ at[p] \in {"waiting", "leaving"}
Followers(c) == {p \in Procs : WaitsFor(p, c)}
Unused(c) == /\ \A p \in Procs : call[p] # c
             /\ \A k \in Keys : flight[k] # c

\* p enters DoContext for key k and is now at the given place with call c.
Enters(p, k, place, c) == /\ at' = [at EXCEPT ![p] = place]
                          /\ key' = [key EXCEPT ![p] = k]
                          /\ call' = [call EXCEPT ![p] = c]
                          /\ got' = [got EXCEPT ![p] = NoOutcome]

\* p leaves DoContext with what r says.
Exits(p, r) == /\ at' = [at EXCEPT ![p] = "out"]
               /\ key' = [key EXCEPT ![p] = NoKey]
               /\ call' = [call EXCEPT ![p] = NoCall]
               /\ got' = [got EXCEPT ![p] = r]

\* Call c is as good as new: nobody refers to it yet, or any more.
Freed(c) == /\ outcome' = [outcome EXCEPT ![c] = NoOutcome]
            /\ done' = [done EXCEPT ![c] = FALSE]
            /\ waiters' = [waiters EXCEPT ![c] = 0]

\* Faulty variant: two executions of a key are possible.
NeverInFlight(k) == FALSE

\* The lookup in the shard's map, under its mutex (DoContext and IsInFlight).
IsInFlight(k) == flight[k] # NoCall

\* Faulty variant: a follower is not counted.
NeverCounted(c) == waiters

\* One follower of c more.
Counted(c) == [waiters EXCEPT ![c] = @ + 1]

\* The key is in flight: p becomes a follower.
Join(p, k) ==
  /\ at[p] = "out"
  /\ IsInFlight(k)
  /\ Enters(p, k, "waiting", flight[k])
  /\ waiters' = Counted(flight[k])
  /\ UNCHANGED <<flight, outcome, done>>

\* It is not: p registers a new call and executes the function.
Lead(p, k, c) ==
  /\ at[p] = "out"
  /\ ~IsInFlight(k)
  /\ Unused(c)
  /\ Enters(p, k, "running", c)
  /\ flight' = [flight EXCEPT ![k] = c]
  /\ Freed(c)

\* Faulty variant: the outcome of the function, or its panic, is not stored.
NeverPublished(c, r) == outcome

\* c.val and c.err are set.
Published(c, r) == [outcome EXCEPT ![c] = r]

\* The function returns or panics.
Return(p, r) ==
  /\ at[p] = "running"
  /\ outcome' = Published(call[p], r)
  /\ at' = [at EXCEPT ![p] = "returned"]
  /\ UNCHANGED <<flight, done, waiters, key, call, got>>

\* Faulty variant: the call stays registered when it is done.
StillRegistered(k) == flight

\* The map once the deferred function deleted the key, whatever call it has.
Unregistered(k) == [flight EXCEPT ![k] = NoCall]

\* Faulty variant: the channel of c is not closed.
NeverClosed(c) == done

\* The channel of c is closed.
Closed(c) == [done EXCEPT ![c] = TRUE]

\* The deferred function: unregister the key and wake the followers.
Finish(p) ==
  /\ at[p] = "returned"
  /\ flight' = Unregistered(key[p])
  /\ IF Followers(call[p]) = {}
       THEN Freed(call[p])
       ELSE /\ done' = Closed(call[p])
            /\ UNCHANGED <<outcome, waiters>>
  /\ Exits(p, outcome[call[p]])

\* A follower sees the channel closed.  It is not uncounted: the call is gone.
Receive(p) ==
  /\ at[p] = "waiting"
  /\ done[call[p]]
  /\ IF Followers(call[p]) = {p} THEN Freed(call[p])
                                 ELSE UNCHANGED <<outcome, done, waiters>>
  /\ Exits(p, outcome[call[p]])
  /\ UNCHANGED flight

\* A follower sees its context cancelled (the select may prefer this branch
\* even when the channel is closed).
Cancel(p) ==
  /\ at[p] = "waiting"
  /\ at' = [at EXCEPT ![p] = "leaving"]
  /\ UNCHANGED <<callVars, key, call, got>>

\* Faulty variant: a follower that gave up stays counted.
StillCounted(c) == waiters

\* One follower of c less.
Uncounted(c) == [waiters EXCEPT ![c] = @ - 1]

\* It takes the mutex again and uncounts itself.
Leave(p) ==
  /\ at[p] = "leaving"
  /\ IF done[call[p]] /\ Followers(call[p]) = {p}
       THEN Freed(call[p])
       ELSE /\ waiters' = Uncounted(call[p])
            /\ UNCHANGED <<outcome, done>>
  /\ Exits(p, Cancelled)
  /\ UNCHANGED flight

\* Forget: the key is unregistered while its function may still be running.
Forget(k) ==
  /\ k \in Forgettable
  /\ flight[k] # NoCall
  /\ flight' = [flight EXCEPT ![k] = NoCall]
  /\ UNCHANGED <<outcome, done, waiters, procVars>>

Advance(p) == \/ \E r \in Outcomes : Return(p, r)
              \/ Finish(p) \/ Receive(p) \/ Leave(p)

Next == \/ \E p \in Procs : \/ \E k \in Keys : \/ Join(p, k)
                                               \/ \E c \in Calls : Lead(p, k, c)
                            \/ Advance(p)
                            \/ Cancel(p)
        \/ \E k \in Keys : Forget(k)

\* The function ends: every upstream client has a timeout, and a goroutine
\* that can run does.  Nothing makes a context be cancelled.
Fairness == \A p \in Procs : WF_vars(Advance(p))

Spec == Init /\ [][Next]_vars /\ Fairness

-----------------------------------------------------------------------------
(***************************************************************************)
(* Properties.                                                             *)
(***************************************************************************)

\* "Only one execution is in-flight for a given key at a time" (Do), although
\* followers come, are cancelled and retry while the executor is between the
\* return of the function and the critical section that unregisters it, and
\* although other keys are forgotten.
OneExecution ==
  \A p, q \in Procs :
    /\ at[p] \in {"running", "returned"}
    /\ at[q] \in {"running", "returned"}
    /\ key[p] = key[q] /\ key[p] \notin Forgettable
    => p = q

\* A caller never waits for a call whose executor is gone without having left
\* an outcome and a closed channel behind, a panic and a Forget included: the
\* outcome a follower reads after the channel is closed is never an unset one.
NobodyStranded ==
  \A p \in Procs : at[p] = "waiting" =>
    \/ \E q \in Procs : Executes(q, call[p]) /\ ~done[call[p]]
    \/ done[call[p]] /\ outcome[call[p]] # NoOutcome

\* While a call is in flight its counter is the number of followers that have
\* not given up or are just giving up, so that a prefetch that asks Waiters
\* never mistakes a cancelled request for a foreground one, or the reverse.
WaitersExact ==
  \A k \in Keys : flight[k] # NoCall =>
    waiters[flight[k]] = Cardinality(Followers(flight[k]))

\* Whoever finds a key in flight finds a call that somebody is executing: a
\* call that is done is never joined and its outcome never replayed, even when
\* Forget let a second call of the key be registered.
InFlightIsExecuting ==
  \A k \in Keys : flight[k] # NoCall =>
    /\ ~done[flight[k]]
    /\ \E p \in Procs : Executes(p, flight[k]) /\ key[p] = k

\* Every caller comes back.
CallersReturn == \A p \in Procs : at[p] # "out" ~> at[p] = "out"
=============================================================================
