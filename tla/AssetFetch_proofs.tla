------------------------- MODULE AssetFetch_proofs -------------------------
(***************************************************************************)
(* Proofs about AssetFetch, for any number of GET and HEAD requests and    *)
(* prefetches: a client is answered once, a request sends upstream once,   *)
(* and a 502 has a cause that a client can be told of.                     *)
(*                                                                         *)
(* The flights of AssetFetch are those of SingleFlight: every step of them *)
(* is one of its steps, so that its invariant, which SingleFlight_proofs   *)
(* establishes, holds here too.  What is added to it says how far a request*)
(* has got and what it is to be handed.                                    *)
(***************************************************************************)
EXTENDS AssetFetch, TLAPS

\* SingleFlight with the two keys of an asset.
Flights == INSTANCE SingleFlight_proofs WITH Keys <- {"get", "head"}, Forgettable <- {}

-----------------------------------------------------------------------------
(***************************************************************************)
(* The invariant.                                                          *)
(***************************************************************************)

\* A request that is in DoContext, or has not used what it returned.
Leading == {"fetching", "streaming", "headfetching"}
Flying == Leading \union {"get", "head"}

\* Where a request is agrees with where it is in DoContext and with its kind.
Placed(p) ==
    /\ pc[p] \in Leading => at[p] = "running"
    /\ at[p] # "out" => /\ pc[p] \in Flying
                        /\ key[p] = IF pc[p] \in {"head", "headfetching"} THEN "head" ELSE "get"
    /\ at[p] = "leaving" => p \in Prefetches
    /\ pc[p] \in {"headmiss", "headjoin", "head", "headfetching"} => p \in Heads
    /\ pc[p] = "fetching" => p \notin Heads
    /\ pc[p] = "streaming" => p \in Gets
    /\ pc[p] \in {"fallback", "alone"} => p \in Clients

\* A client has been answered when its response has started or it is done.
Written(p) ==
    /\ p \in Clients =>
          reply[p] \in IF streamed[p] \/ pc[p] = "done" THEN {<<"ok">>, <<"bad">>, <<"cut">>}
                       ELSE {<<>>}
    /\ pc[p] = "streaming" => streamed[p]
    /\ streamed[p] => /\ pc[p] \in {"streaming", "get", "done"}
                      /\ pc[p] = "get" => at[p] \in {"returned", "out"}

\* What the flight of p gives or gave it.
Yield(p) == IF at[p] = "out" THEN got[p] ELSE outcome[call[p]]

\* Whoever has sent its upstream request comes to an end with what it gave.
Spent(p) ==
    /\ sent[p] \in {0, 1}
    /\ sent[p] = 1 =>
          \/ pc[p] \in Leading \union {"alone", "done"}
          \/ /\ pc[p] \in {"get", "head"} /\ at[p] \in {"returned", "out"}
             /\ \/ pc[p] = "head" \/ streamed[p] \/ p \in Prefetches
                \/ Yield(p).what \in {"item", "error"}

\* What the flight of a key may hand over: an error only from a client, and in the
\* flight of the HEAD requests nothing but items and errors.
Fits(k, o) ==
    /\ o \in Outcomes
    /\ o.what \in {"error", "sinkError"} => o.by \in Clients
    /\ k = "head" => o.what \in {"item", "error"}

Told(p) ==
    /\ at[p] # "out" => outcome[call[p]] = NoOutcome \/ Fits(key[p], outcome[call[p]])
    /\ p \in Clients /\ at[p] = "out" /\ pc[p] \in {"get", "head"} => Fits(pc[p], got[p])

Proper(p) == Placed(p) /\ Written(p) /\ Spent(p) /\ Told(p)

\* Who shares a call asked for the same key.
Agreed == \A p, q \in Procs : at[p] # "out" /\ at[q] # "out" /\ call[p] = call[q] => key[p] = key[q]

\* TypeOK without the types of SingleFlight.
FetchTyped ==
    /\ cached \in BOOLEAN /\ stopped \in BOOLEAN
    /\ pc \in [Procs -> Phases]
    /\ retry \in [Procs -> BOOLEAN] /\ streamed \in [Procs -> BOOLEAN]
    /\ sent \in [Procs -> Nat]
    /\ reply \in [Procs -> Seq({"ok", "bad", "cut"})]
    /\ stalled \subseteq Clients

FetchIInv == FetchTyped /\ Flights!IInv /\ Agreed /\ \A p \in Procs : Proper(p)

-----------------------------------------------------------------------------
(***************************************************************************)
(* The flights are those of SingleFlight.                                  *)
(***************************************************************************)
LEMMA FlightAssumptions ==
  /\ Flights!ObjectAssumption /\ Flights!ForgetAssumption /\ Flights!ProcsAssumption
<1>1. IsFiniteSet(Procs)
  BY PlaceholderAssumption
<1>2. Flights!IsFiniteSet(Procs)
  BY <1>1 DEF IsFiniteSet, Flights!IsFiniteSet
<1> QED  BY <1>2, PlaceholderAssumption, OutcomeAssumption
         DEF Flights!ObjectAssumption, Flights!ForgetAssumption, Flights!ProcsAssumption

LEMMA FlightTypes == Flights!TypeOK <=> Flight!TypeOK
BY DEF Flights!TypeOK, Flight!TypeOK, Flights!Places, Flight!Places

\* Every step of a flight is one of SingleFlight, whose invariant it keeps.
LEMMA FlightIInv ==
  ASSUME Flights!IInv, NEW p \in Procs,
         \/ \E k \in {"get", "head"} : Coalesce(p, k)
         \/ \E o \in Outcomes : Flight!Return(p, o)
         \/ Flight!Finish(p) \/ Flight!Receive(p) \/ Flight!Leave(p) \/ Flight!Cancel(p)
  PROVE  Flights!IInv'
<1>1. \/ \E k \in {"get", "head"} : \/ Flights!Join(p, k)
                                    \/ \E c \in Calls : Flights!Lead(p, k, c)
      \/ \E o \in Outcomes : Flights!Return(p, o)
      \/ Flights!Finish(p) \/ Flights!Receive(p) \/ Flights!Leave(p) \/ Flights!Cancel(p)
  BY DEF Coalesce, Flight!Join, Flights!Join, Flight!Lead, Flights!Lead, Flight!Return,
         Flights!Return, Flight!Finish, Flights!Finish, Flight!Receive, Flights!Receive,
         Flight!Leave, Flights!Leave, Flight!Cancel, Flights!Cancel,
         Flight!IsInFlight, Flights!IsInFlight, Flight!Enters, Flights!Enters, Flight!Counted,
         Flights!Counted, Flight!Unused, Flights!Unused, Flight!Freed, Flights!Freed,
         Flight!Published, Flights!Published, Flight!Unregistered, Flights!Unregistered,
         Flight!Followers, Flights!Followers, Flight!WaitsFor, Flights!WaitsFor, Flight!Closed,
         Flights!Closed, Flight!Exits, Flights!Exits, Flight!Uncounted, Flights!Uncounted,
         Flight!callVars, Flights!callVars
<1>2. Flights!Next
  BY <1>1 DEF Flights!Next, Flights!Advance
<1> QED  BY <1>2, Flights!NextIInv, FlightAssumptions
         DEF Flights!ObjectAssumption, Flights!ForgetAssumption, Flights!ProcsAssumption

\* What a request does with the value it got, and without its flight, does not matter.
LEMMA ConsumesIInv ==
  ASSUME Flights!IInv, NEW p \in Procs, Consumes(p)
  PROVE  Flights!IInv'
<1>1. Flights!TypeOK'
  BY DEF Flights!IInv, Flights!TypeOK, Consumes
<1>2. \A c : Flights!Followers(c)' = Flights!Followers(c)
  BY DEF Consumes, Flights!Followers, Flights!WaitsFor
<1>3. Flights!Counts'
  BY <1>2 DEF Flights!IInv, Flights!Counts, Consumes
<1> QED  BY <1>1, <1>3
         DEF Flights!IInv, Flights!Engaged, Flights!Owned, Flights!Stored, Flights!Attended,
             Flights!InFlightIsExecuting, Flights!Executing, Flights!Executes, Consumes

LEMMA FlightsRest ==
  ASSUME Flights!IInv, UNCHANGED flightVars
  PROVE  Flights!IInv'
<1>1. Flights!vars' = Flights!vars
  BY DEF flightVars, Flights!vars, Flights!callVars, Flights!procVars
<1> QED  BY <1>1, Flights!NextIInv, FlightAssumptions
         DEF Flights!ObjectAssumption, Flights!ForgetAssumption, Flights!ProcsAssumption

-----------------------------------------------------------------------------
(***************************************************************************)
(* What a step of a flight changes.                                        *)
(***************************************************************************)
OthersFly(p) ==
    \A q \in Procs \ {p} :
       at'[q] = at[q] /\ key'[q] = key[q] /\ call'[q] = call[q] /\ got'[q] = got[q]

\* A request begins to execute a call that nobody has, or joins one of its key.
LEMMA CoalesceEffect ==
  ASSUME Flights!IInv, NEW p \in Procs, NEW k \in {"get", "head"}, Coalesce(p, k)
  PROVE  /\ OthersFly(p) /\ at'[p] \in {"waiting", "running"} /\ key'[p] = k
         /\ \A q \in Procs \ {p} : at[q] # "out" => outcome'[call[q]] = outcome[call[q]]
         /\ \/ /\ outcome'[call'[p]] = NoOutcome
               /\ \A q \in Procs \ {p} : call[q] # call'[p]
            \/ \E q \in Procs \ {p} : at[q] # "out" /\ call[q] = call'[p] /\ key[q] = k
<1>1. Flights!TypeOK /\ Flights!Engaged
  BY DEF Flights!IInv
<1>2. CASE Flight!Join(p, k)
  <2>1. /\ at[p] = "out" /\ flight[k] # NoCall /\ UNCHANGED outcome
        /\ at' = [at EXCEPT ![p] = "waiting"] /\ key' = [key EXCEPT ![p] = k]
        /\ call' = [call EXCEPT ![p] = flight[k]] /\ got' = [got EXCEPT ![p] = NoOutcome]
    BY <1>2 DEF Flight!Join, Flight!IsInFlight, Flight!Enters
  <2>2. PICK e \in Procs : Flights!Executes(e, flight[k]) /\ key[e] = k
    BY <2>1 DEF Flights!IInv, Flights!InFlightIsExecuting
  <2>3. e # p /\ at[e] # "out" /\ call[e] = flight[k]
    BY <2>1, <2>2 DEF Flights!Executes
  <2>4. /\ OthersFly(p) /\ at'[p] = "waiting" /\ key'[p] = k /\ call'[p] = flight[k]
    BY <1>1, <2>1 DEF OthersFly, Flights!TypeOK
  <2> QED  BY <2>1, <2>2, <2>3, <2>4
<1>3. ASSUME NEW c \in Calls, Flight!Lead(p, k, c)
      PROVE  /\ OthersFly(p) /\ at'[p] = "running" /\ key'[p] = k /\ call'[p] = c
             /\ outcome'[c] = NoOutcome /\ \A q \in Procs : call[q] # c
             /\ \A q \in Procs \ {p} : at[q] # "out" => outcome'[call[q]] = outcome[call[q]]
  <2>1. /\ outcome' = [outcome EXCEPT ![c] = NoOutcome] /\ \A q \in Procs : call[q] # c
        /\ at' = [at EXCEPT ![p] = "running"] /\ key' = [key EXCEPT ![p] = k]
        /\ call' = [call EXCEPT ![p] = c] /\ got' = [got EXCEPT ![p] = NoOutcome]
    BY <1>3 DEF Flight!Lead, Flight!Enters, Flight!Freed, Flight!Unused
  <2> QED  BY <1>1, <2>1 DEF OthersFly, Flights!TypeOK, Flights!Engaged
<1> QED  BY <1>2, <1>3 DEF Coalesce

\* An executor has the outcome; nobody else executes its call.
LEMMA ReturnEffect ==
  ASSUME Flights!IInv, NEW p \in Procs, NEW o \in Outcomes, Flight!Return(p, o)
  PROVE  /\ OthersFly(p) /\ at[p] = "running" /\ at'[p] = "returned"
         /\ key'[p] = key[p] /\ call'[p] = call[p] /\ outcome'[call[p]] = o
         /\ \A q \in Procs : at[q] # "out" /\ call[q] # call[p] =>
                               outcome'[call[q]] = outcome[call[q]]
         /\ \A q \in Procs \ {p} : at[q] \in {"running", "returned"} => call[q] # call[p]
<1>1. Flights!TypeOK /\ Flights!Engaged /\ Flights!Owned
  BY DEF Flights!IInv
<1>2. /\ at[p] = "running" /\ at' = [at EXCEPT ![p] = "returned"]
      /\ outcome' = [outcome EXCEPT ![call[p]] = o] /\ UNCHANGED <<key, call, got>>
  BY DEF Flight!Return, Flight!Published
<1>3. call[p] \in Calls
  BY <1>1, <1>2 DEF Flights!Engaged
<1> QED  BY <1>1, <1>2, <1>3
         DEF OthersFly, Flights!TypeOK, Flights!Engaged, Flights!Owned, Flights!Executing

\* Whoever comes out of DoContext has an outcome that was there, or was cancelled;
\* what others are still to get stays.
LEMMA EndEffect ==
  ASSUME Flights!IInv, NEW p \in Procs,
         Flight!Finish(p) \/ Flight!Receive(p) \/ Flight!Leave(p)
  PROVE  /\ OthersFly(p) /\ at'[p] = "out"
         /\ \/ at[p] = "leaving"
            \/ /\ at[p] \in {"returned", "waiting"} /\ got'[p] = outcome[call[p]]
               /\ outcome[call[p]] # NoOutcome
         /\ \A q \in Procs \ {p} : at[q] # "out" => outcome'[call[q]] = outcome[call[q]]
<1> DEFINE c == call[p]
<1>1. Flights!TypeOK /\ Flights!Engaged /\ Flights!Owned /\ Flights!Stored /\ Flights!Attended
  BY DEF Flights!IInv
<1>2. /\ at[p] \in {"returned", "waiting", "leaving"}
      /\ at' = [at EXCEPT ![p] = "out"] /\ key' = [key EXCEPT ![p] = NoKey]
      /\ call' = [call EXCEPT ![p] = NoCall]
      /\ \E r : got' = [got EXCEPT ![p] = r] /\ (at[p] # "leaving" => r = outcome[c])
  BY DEF Flight!Finish, Flight!Receive, Flight!Leave, Flight!Exits
<1>3. c \in Calls
  BY <1>1, <1>2 DEF Flights!Engaged
<1>4. OthersFly(p) /\ at'[p] = "out" /\ (at[p] # "leaving" => got'[p] = outcome[c])
  BY <1>1, <1>2 DEF OthersFly, Flights!TypeOK
<1>5. at[p] # "leaving" => outcome[c] # NoOutcome
  <2>1. CASE at[p] = "returned"
    BY <1>1, <2>1 DEF Flights!Stored
  <2>2. CASE at[p] = "waiting"
    <3>1. done[c]
      BY <2>2 DEF Flight!Receive, Flight!Finish, Flight!Leave
    <3> QED  BY <1>1, <2>2, <3>1 DEF Flights!Attended
  <2> QED  BY <1>2, <2>1, <2>2
<1>6. \/ UNCHANGED outcome
      \/ /\ outcome' = [outcome EXCEPT ![c] = NoOutcome]
         /\ \A q \in Procs \ {p} : at[q] # "out" => call[q] # c
  <2>1. CASE Flight!Finish(p) /\ Flight!Followers(c) = {}
    <3>1. outcome' = [outcome EXCEPT ![c] = NoOutcome] /\ at[p] = "returned"
      BY <2>1 DEF Flight!Finish, Flight!Freed
    <3>2. \A q \in Procs \ {p} : at[q] # "out" => call[q] # c
      BY <1>1, <2>1, <3>1
         DEF Flights!TypeOK, Flights!Places, Flights!Owned, Flights!Executing,
             Flight!Followers, Flight!WaitsFor
    <3> QED  BY <3>1, <3>2
  <2>2. CASE /\ Flight!Receive(p) \/ Flight!Leave(p)
             /\ Flight!Followers(c) = {p} /\ done[c]
    <3>1. outcome' = [outcome EXCEPT ![c] = NoOutcome]
      BY <2>2 DEF Flight!Receive, Flight!Leave, Flight!Freed
    <3>2. \A q \in Procs \ {p} : at[q] # "out" => call[q] # c
      BY <1>1, <2>2
         DEF Flights!TypeOK, Flights!Places, Flights!Owned, Flights!Executing,
             Flight!Followers, Flight!WaitsFor
    <3> QED  BY <3>1, <3>2
  <2> QED  BY <2>1, <2>2 DEF Flight!Finish, Flight!Receive, Flight!Leave
<1>7. \A q \in Procs \ {p} : at[q] # "out" => outcome'[call[q]] = outcome[call[q]]
  BY <1>1, <1>3, <1>6 DEF Flights!TypeOK, Flights!Engaged
<1> QED  BY <1>2, <1>4, <1>5, <1>7

-----------------------------------------------------------------------------
(***************************************************************************)
(* A step of one request leaves the others alone.                          *)
(***************************************************************************)
OthersRest(p) ==
    \A q \in Procs \ {p} : /\ pc'[q] = pc[q] /\ reply'[q] = reply[q]
                           /\ sent'[q] = sent[q] /\ streamed'[q] = streamed[q]

\* What another request gets stays, unless it waits for what is published now.
LEMMA OtherProper ==
  ASSUME FetchIInv, NEW p \in Procs, NEW q \in Procs \ {p}, OthersFly(p), OthersRest(p),
         at[q] # "out" => \/ outcome'[call[q]] = outcome[call[q]]
                          \/ /\ at[q] \notin {"running", "returned"}
                             /\ Fits(key[q], outcome'[call[q]])
  PROVE  Proper(q)'
<1>1. /\ Placed(q) /\ Written(q) /\ Spent(q) /\ Told(q)
      /\ at'[q] = at[q] /\ key'[q] = key[q] /\ call'[q] = call[q] /\ got'[q] = got[q]
      /\ pc'[q] = pc[q] /\ reply'[q] = reply[q] /\ sent'[q] = sent[q]
      /\ streamed'[q] = streamed[q]
  BY DEF FetchIInv, Proper, OthersFly, OthersRest
<1>2. Placed(q)'
  BY <1>1 DEF Placed
<1>3. Written(q)'
  BY <1>1 DEF Written
<1>4. Spent(q)'
  BY <1>1 DEF Spent, Yield
<1>5. Told(q)'
  BY <1>1 DEF Told, Fits
<1> QED  BY <1>2, <1>3, <1>4, <1>5 DEF Proper

\* A step that moves no flight, or forgets what a flight gave.
LEMMA LocalIInv ==
  ASSUME FetchIInv, NEW p \in Procs, UNCHANGED flightVars \/ Consumes(p), OthersRest(p),
         FetchTyped', Proper(p)'
  PROVE  FetchIInv'
<1>1. Flights!IInv'
  BY FlightsRest, ConsumesIInv DEF FetchIInv
<1>2. OthersFly(p) /\ UNCHANGED <<at, key, call, outcome>>
  BY DEF FetchIInv, flightVars, Consumes, OthersFly, Flights!IInv, Flights!TypeOK
<1>3. \A q \in Procs \ {p} : Proper(q)'
  BY <1>2, OtherProper
<1>4. Agreed'
  BY <1>2 DEF FetchIInv, Agreed
<1> QED  BY <1>1, <1>3, <1>4 DEF FetchIInv

\* A request outside of its flight goes on outside of one: unanswered, or done.
LEMMA OutsideIInv ==
  ASSUME FetchIInv, NEW p \in Procs, at[p] = "out", UNCHANGED flightVars \/ Consumes(p),
         OthersRest(p), FetchTyped', pc'[p] \notin Flying, streamed'[p] = streamed[p],
         pc'[p] \in {"headmiss", "headjoin"} => p \in Heads,
         pc'[p] \in {"fallback", "alone"} => p \in Clients,
         pc'[p] # "done" => ~streamed[p] /\ (p \in Clients => reply'[p] = <<>>),
         pc'[p] = "done" /\ p \in Clients => reply'[p] \in {<<"ok">>, <<"bad">>, <<"cut">>},
         sent'[p] = 0 \/ (sent'[p] = 1 /\ pc'[p] \in {"alone", "done"})
  PROVE  FetchIInv'
<1>1. at'[p] = "out"
  BY DEF Consumes, flightVars
<1>2. Placed(p)'
  BY <1>1 DEF Placed, Flying, Leading
<1>3. Written(p)'
  BY DEF Written, Flying, Leading
<1>4. Spent(p)'
  BY DEF Spent
<1>5. Told(p)'
  BY <1>1 DEF Told, Flying
<1> QED  BY <1>2, <1>3, <1>4, <1>5, LocalIInv DEF Proper

\* A request goes into DoContext.
LEMMA CoalesceIInv ==
  ASSUME FetchIInv, NEW p \in Procs, NEW k \in {"get", "head"}, Coalesce(p, k),
         OthersRest(p), FetchTyped', pc'[p] = k, k = "head" => p \in Heads,
         UNCHANGED <<reply, sent, streamed>>, ~streamed[p], sent[p] = 0, pc[p] # "done"
  PROVE  FetchIInv'
<1>1. FetchTyped /\ Flights!IInv /\ Agreed /\ Proper(p)
  BY DEF FetchIInv
<1>2. Flights!IInv' /\ k \in {"get", "head"}
  BY <1>1, FlightIInv
<1>3. /\ OthersFly(p) /\ at'[p] \in {"waiting", "running"} /\ key'[p] = k
      /\ \A q \in Procs \ {p} : at[q] # "out" => outcome'[call[q]] = outcome[call[q]]
      /\ \/ /\ outcome'[call'[p]] = NoOutcome
            /\ \A q \in Procs \ {p} : call[q] # call'[p]
         \/ \E q \in Procs \ {p} : at[q] # "out" /\ call[q] = call'[p] /\ key[q] = k
  BY <1>1, CoalesceEffect
<1>4. \A q \in Procs \ {p} : Proper(q)'
  BY <1>3, OtherProper
<1>5. Agreed'
  <2>1. \A q \in Procs \ {p} : at[q] # "out" /\ call[q] = call'[p] => key[q] = k
    BY <1>1, <1>3 DEF Agreed
  <2> QED  BY <1>1, <1>3, <2>1 DEF Agreed, OthersFly
<1>6. Proper(p)'
  <2>1. Placed(p)'
    BY <1>3 DEF Placed, Leading, Flying
  <2>2. Written(p)'
    BY <1>1 DEF Proper, Written
  <2>3. Spent(p)'
    BY DEF Spent
  <2>4. Told(p)'
    <3>1. CASE outcome'[call'[p]] = NoOutcome
      BY <1>3, <3>1 DEF Told
    <3>2. CASE \E q \in Procs \ {p} : at[q] # "out" /\ call[q] = call'[p] /\ key[q] = k
      <4>1. PICK q \in Procs \ {p} : at[q] # "out" /\ call[q] = call'[p] /\ key[q] = k
        BY <3>2
      <4>2. Told(q) /\ outcome'[call'[p]] = outcome[call[q]]
        BY <1>3, <4>1 DEF FetchIInv, Proper
      <4> QED  BY <1>3, <4>1, <4>2 DEF Told, Fits
    <3> QED  BY <1>3, <3>1, <3>2
  <2> QED  BY <2>1, <2>2, <2>3, <2>4 DEF Proper
<1> QED  BY <1>2, <1>4, <1>5, <1>6 DEF FetchIInv

\* A leader returns to the point where its client is answered, unless it has been.
LEMMA ReturnIInv ==
  ASSUME FetchIInv, NEW p \in Procs, NEW o \in Outcomes, Flight!Return(p, o), Fits(key[p], o),
         OthersRest(p), FetchTyped', pc'[p] = key[p], sent'[p] = sent[p],
         IF streamed'[p] THEN reply'[p] \in {<<"ok">>, <<"bad">>, <<"cut">>} /\ key[p] = "get"
                         ELSE ~streamed[p] /\ reply'[p] = reply[p],
         sent[p] = 1 /\ key[p] = "get" =>
           streamed'[p] \/ p \in Prefetches \/ o.what \in {"item", "error"}
  PROVE  FetchIInv'
<1>1. FetchTyped /\ Flights!IInv /\ Agreed /\ Proper(p)
  BY DEF FetchIInv
<1>2. Flights!IInv'
  BY <1>1, FlightIInv
<1>3. /\ OthersFly(p) /\ at[p] = "running" /\ at'[p] = "returned"
      /\ key'[p] = key[p] /\ call'[p] = call[p] /\ outcome'[call[p]] = o
      /\ \A q \in Procs : at[q] # "out" /\ call[q] # call[p] =>
                            outcome'[call[q]] = outcome[call[q]]
      /\ \A q \in Procs \ {p} : at[q] \in {"running", "returned"} => call[q] # call[p]
  BY <1>1, ReturnEffect
<1>4. ASSUME NEW q \in Procs \ {p} PROVE Proper(q)'
  <2>1. at[q] # "out" /\ call[q] = call[p] =>
          at[q] \notin {"running", "returned"} /\ key[q] = key[p] /\ outcome'[call[q]] = o
    BY <1>1, <1>3 DEF Agreed
  <2> QED  BY <1>3, <2>1, OtherProper DEF Fits
<1>5. Agreed'
  BY <1>1, <1>3 DEF Agreed, OthersFly
<1>6. key[p] \in {"get", "head"} /\ (key[p] = "head" => p \in Heads) /\ pc[p] \in Flying
  BY <1>1, <1>3 DEF Proper, Placed
<1>7. Proper(p)'
  <2>1. Placed(p)'
    BY <1>3, <1>6 DEF Placed, Leading, Flying
  <2>2. Written(p)'
    BY <1>1, <1>3, <1>6 DEF Proper, Written, Flying, Leading
  <2>3. Spent(p)'
    BY <1>1, <1>3, <1>6 DEF Proper, Spent, Yield
  <2>4. Told(p)'
    BY <1>3 DEF Told, Fits
  <2> QED  BY <2>1, <2>2, <2>3, <2>4 DEF Proper
<1> QED  BY <1>2, <1>4, <1>5, <1>7 DEF FetchIInv

\* A request comes out of DoContext, with what it was to get.
LEMMA EndFlightIInv ==
  ASSUME FetchIInv, NEW p \in Procs, EndFlight(p)
  PROVE  FetchIInv'
<1>1. FetchTyped /\ Flights!IInv /\ Agreed /\ Proper(p)
  BY DEF FetchIInv
<1>2. UNCHANGED <<pc, reply, sent, streamed, retry, cached, stopped, stalled>>
  BY DEF EndFlight, fetchVars, envVars
<1>3. /\ OthersFly(p) /\ at'[p] = "out"
      /\ \/ at[p] = "leaving"
         \/ /\ at[p] \in {"returned", "waiting"} /\ got'[p] = outcome[call[p]]
            /\ outcome[call[p]] # NoOutcome
      /\ \A q \in Procs \ {p} : at[q] # "out" => outcome'[call[q]] = outcome[call[q]]
  BY <1>1, EndEffect DEF EndFlight
<1>4. Flights!IInv' /\ FetchTyped'
  BY <1>1, <1>2, FlightIInv DEF EndFlight, FetchTyped
<1>5. \A q \in Procs \ {p} : Proper(q)'
  BY <1>2, <1>3, OtherProper DEF OthersRest
<1>6. Agreed'
  BY <1>1, <1>3 DEF Agreed, OthersFly
<1>7. pc[p] \in {"get", "head"} /\ (at[p] # "leaving" => Fits(pc[p], got'[p]))
  BY <1>1, <1>3 DEF Proper, Placed, Told, Flying, Leading
<1>8. Proper(p)'
  <2>1. Placed(p)'
    BY <1>1, <1>2, <1>3, <1>7 DEF Proper, Placed, Leading
  <2>2. Written(p)'
    BY <1>1, <1>2, <1>3 DEF Proper, Written
  <2>3. Spent(p)'
    BY <1>1, <1>2, <1>3 DEF Proper, Spent, Yield, Placed
  <2>4. Told(p)'
    BY <1>1, <1>2, <1>3, <1>7, KindAssumption DEF Proper, Placed, Told, Fits
  <2> QED  BY <2>1, <2>2, <2>3, <2>4 DEF Proper
<1> QED  BY <1>4, <1>5, <1>6, <1>8 DEF FetchIInv

LEMMA CancelPrefetchIInv ==
  ASSUME FetchIInv, NEW p \in Procs, CancelPrefetch(p)
  PROVE  FetchIInv'
<1>1. FetchTyped /\ Flights!IInv /\ Agreed /\ Proper(p) /\ p \in Prefetches
  BY DEF FetchIInv, CancelPrefetch
<1>2. /\ UNCHANGED <<pc, reply, sent, streamed, retry, cached, stopped, stalled>>
      /\ UNCHANGED <<outcome, key, call, got>>
      /\ at[p] = "waiting" /\ at' = [at EXCEPT ![p] = "leaving"]
  BY DEF CancelPrefetch, fetchVars, envVars, Flight!Cancel, Flight!callVars
<1>3. Flights!IInv' /\ FetchTyped'
  BY <1>1, <1>2, FlightIInv DEF CancelPrefetch, FetchTyped
<1>4. at'[p] = "leaving" /\ OthersFly(p) /\ OthersRest(p)
  BY <1>1, <1>2 DEF OthersFly, OthersRest, Flights!IInv, Flights!TypeOK
<1>5. \A q \in Procs \ {p} : Proper(q)'
  BY <1>2, <1>4, OtherProper
<1>6. Agreed'
  BY <1>1, <1>2, <1>4 DEF Agreed, OthersFly
<1>7. Placed(p)' /\ Written(p)' /\ Spent(p)' /\ Told(p)'
  BY <1>1, <1>2, <1>4 DEF Proper, Placed, Written, Spent, Told, Fits, Leading, Flying
<1> QED  BY <1>3, <1>5, <1>6, <1>7 DEF FetchIInv, Proper

-----------------------------------------------------------------------------
(***************************************************************************)
(* The parts of a step.                                                    *)
(***************************************************************************)
Responses == {"ok", "bad", "cut"}

LEMMA GoesEffect ==
  ASSUME FetchTyped, NEW p \in Procs, NEW phase \in Phases, Goes(p, phase)
  PROVE  /\ pc' \in [Procs -> Phases] /\ pc'[p] = phase
         /\ \A q \in Procs \ {p} : pc'[q] = pc[q]
BY DEF FetchTyped, Goes

LEMMA SendsEffect ==
  ASSUME FetchTyped, NEW p \in Procs, Sends(p)
  PROVE  /\ sent' \in [Procs -> Nat] /\ sent'[p] = sent[p] + 1
         /\ \A q \in Procs \ {p} : sent'[q] = sent[q]
BY DEF FetchTyped, Sends

LEMMA RepliesEffect ==
  ASSUME FetchTyped, NEW p \in Procs, NEW r \in Responses, Replies(p, r), reply[p] = <<>>
  PROVE  /\ reply' \in [Procs -> Seq(Responses)] /\ reply'[p] = <<r>>
         /\ \A q \in Procs \ {p} : reply'[q] = reply[q]
<1>1. reply' = [reply EXCEPT ![p] = Append(<<>>, r)]
  BY DEF Replies
<1>2. Append(<<>>, r) = <<r>> /\ <<r>> \in Seq(Responses)
  OBVIOUS
<1> QED  BY <1>1, <1>2 DEF FetchTyped, Responses

LEMMA AnswersEffect ==
  ASSUME FetchTyped, NEW p \in Procs, NEW r \in Responses, Answers(p, r),
         p \in Clients => reply[p] = <<>>
  PROVE  /\ pc' \in [Procs -> Phases] /\ pc'[p] = "done"
         /\ reply' \in [Procs -> Seq(Responses)] /\ (p \in Clients => reply'[p] = <<r>>)
         /\ \A q \in Procs \ {p} : pc'[q] = pc[q] /\ reply'[q] = reply[q]
<1>1. pc' \in [Procs -> Phases] /\ pc'[p] = "done" /\ \A q \in Procs \ {p} : pc'[q] = pc[q]
  BY GoesEffect DEF Answers, Phases
<1>2. CASE p \in Clients
  BY <1>1, <1>2, RepliesEffect DEF Answers
<1>3. CASE p \notin Clients
  BY <1>1, <1>3 DEF Answers, FetchTyped, Responses
<1> QED  BY <1>2, <1>3

\* What the invariant says of a request that is in no flight and not done.
LEMMA Unanswered ==
  ASSUME FetchIInv, NEW p \in Procs, pc[p] \notin Flying \union {"done"}
  PROVE  /\ at[p] = "out" /\ ~streamed[p] /\ (p \in Clients => reply[p] = <<>>)
         /\ sent[p] = IF pc[p] = "alone" THEN sent[p] ELSE 0
         /\ sent[p] \in {0, 1}
BY DEF FetchIInv, Proper, Placed, Written, Spent, Flying, Leading

-----------------------------------------------------------------------------
(***************************************************************************)
(* Looking up and joining.                                                 *)
(***************************************************************************)

\* A request outside of its flight is answered.
LEMMA AnswerIInv ==
  ASSUME FetchIInv, NEW p \in Procs, NEW r \in Responses, Answers(p, r),
         UNCHANGED flightVars, pc[p] \notin Flying \union {"done"},
         UNCHANGED <<retry, streamed, sent, envVars>>
  PROVE  FetchIInv'
<1>1. FetchTyped /\ at[p] = "out" /\ (p \in Clients => reply[p] = <<>>) /\ sent[p] \in {0, 1}
  BY Unanswered DEF FetchIInv
<1>2. /\ pc' \in [Procs -> Phases] /\ pc'[p] = "done"
      /\ reply' \in [Procs -> Seq(Responses)] /\ (p \in Clients => reply'[p] = <<r>>)
      /\ \A q \in Procs \ {p} : pc'[q] = pc[q] /\ reply'[q] = reply[q]
  BY <1>1, AnswersEffect
<1>3. FetchTyped' /\ OthersRest(p)
  BY <1>1, <1>2 DEF FetchTyped, envVars, OthersRest, Responses
<1> QED  BY <1>1, <1>2, <1>3, OutsideIInv DEF Flying, Leading, Responses

\* A request outside of its flight goes on, unanswered.
LEMMA MoveIInv ==
  ASSUME FetchIInv, NEW p \in Procs, NEW phase \in Phases \ Flying, Goes(p, phase),
         UNCHANGED flightVars, pc[p] \notin Flying \union {"done", "alone"},
         UNCHANGED <<streamed, reply, envVars>>, retry' \in [Procs -> BOOLEAN],
         IF phase = "alone" THEN Sends(p) ELSE UNCHANGED sent,
         phase = "done" => p \notin Clients,
         phase \in {"headmiss", "headjoin"} => p \in Heads,
         phase \in {"fallback", "alone"} => p \in Clients
  PROVE  FetchIInv'
<1>1. /\ FetchTyped /\ at[p] = "out" /\ (p \in Clients => reply[p] = <<>>) /\ sent[p] = 0
      /\ ~streamed[p]
  BY Unanswered DEF FetchIInv
<1>2. /\ pc' \in [Procs -> Phases] /\ pc'[p] = phase
      /\ \A q \in Procs \ {p} : pc'[q] = pc[q]
  BY <1>1, GoesEffect
<1>3. /\ sent' \in [Procs -> Nat] /\ \A q \in Procs \ {p} : sent'[q] = sent[q]
      /\ sent'[p] = IF phase = "alone" THEN 1 ELSE 0
  BY <1>1, SendsEffect DEF FetchTyped
<1>4. FetchTyped' /\ OthersRest(p)
  BY <1>1, <1>2, <1>3 DEF FetchTyped, envVars, OthersRest
<1> QED  BY <1>1, <1>2, <1>3, <1>4, OutsideIInv

LEMMA LookupIInv ==
  ASSUME FetchIInv, NEW p \in Procs, Lookup(p) \/ Route(p) \/ CheckHead(p)
  PROVE  FetchIInv'
<1>1. FetchTyped /\ Proper(p)
  BY DEF FetchIInv
<1>2. CASE /\ Answers(p, "ok") /\ pc[p] \in {"lookup", "headmiss"}
           /\ UNCHANGED <<flightVars, retry, streamed, sent, envVars>>
  BY <1>2, AnswerIInv DEF Responses, Flying, Leading
<1>3. CASE \E phase \in {"missed", "done", "headmiss", "join", "headjoin"} :
             /\ Goes(p, phase) /\ pc[p] \in {"lookup", "missed", "headmiss"}
             /\ phase = "done" => p \notin Clients
             /\ phase \in {"headmiss", "headjoin"} => p \in Heads
             /\ UNCHANGED <<flightVars, fetchVars, envVars>>
  BY <1>1, <1>3, MoveIInv DEF FetchTyped, Flying, Leading, Phases, fetchVars
<1>4. CASE Route(p)
  BY <1>3, <1>4, KindAssumption DEF Route
<1>5. CASE Lookup(p) \/ CheckHead(p)
  <2>1. pc[p] = "headmiss" => p \in Heads
    BY <1>1 DEF Proper, Placed
  <2> QED  BY <1>2, <1>3, <1>5, <2>1 DEF Lookup, CheckHead, fetchVars
<1> QED  BY <1>4, <1>5

LEMMA JoinIInv ==
  ASSUME FetchIInv, NEW p \in Procs, JoinGet(p) \/ JoinHead(p)
  PROVE  FetchIInv'
<1>1. FetchTyped /\ Proper(p) /\ ~streamed[p] /\ sent[p] = 0 /\ pc[p] # "done"
  BY Unanswered DEF FetchIInv, JoinGet, JoinHead, Flying, Leading
<1>2. PICK k \in {"get", "head"} :
        Coalesce(p, k) /\ Goes(p, k) /\ (k = "head" => pc[p] = "headjoin")
  BY DEF JoinGet, JoinHead
<1>3. UNCHANGED <<retry, reply, sent, streamed, cached, stopped, stalled>>
  BY DEF JoinGet, JoinHead, fetchVars, envVars
<1>4. pc' \in [Procs -> Phases] /\ pc'[p] = k /\ \A q \in Procs \ {p} : pc'[q] = pc[q]
  BY <1>1, <1>2, GoesEffect DEF Phases
<1>5. FetchTyped' /\ OthersRest(p) /\ (k = "head" => p \in Heads)
  BY <1>1, <1>2, <1>3, <1>4 DEF FetchTyped, OthersRest, Proper, Placed
<1> QED  BY <1>1, <1>2, <1>3, <1>4, <1>5, CoalesceIInv

-----------------------------------------------------------------------------
(***************************************************************************)
(* The function a leader executes.                                         *)
(***************************************************************************)
LEMMA Leader ==
  ASSUME FetchIInv, NEW p \in Procs, at[p] = "running"
  PROVE  /\ pc[p] \in Flying /\ sent[p] \in {0, 1}
         /\ key[p] = IF pc[p] \in {"head", "headfetching"} THEN "head" ELSE "get"
         /\ streamed[p] <=> pc[p] = "streaming"
         /\ pc[p] \in {"get", "head"} => sent[p] = 0
         /\ p \in Clients => reply[p] \in IF streamed[p] THEN {<<"ok">>, <<"bad">>, <<"cut">>}
                                          ELSE {<<>>}
         /\ pc[p] \in {"head", "headfetching"} => p \in Heads
         /\ pc[p] = "fetching" => p \notin Heads
         /\ pc[p] = "streaming" => p \in Gets
BY DEF FetchIInv, Proper, Placed, Written, Spent, Flying, Leading

\* A leader sends its upstream request.
LEMMA SendIInv ==
  ASSUME FetchIInv, NEW p \in Procs, NEW phase \in {"fetching", "headfetching"},
         Goes(p, phase), Sends(p), at[p] = "running",
         IF phase = "fetching" THEN pc[p] = "get" /\ p \notin Heads ELSE pc[p] = "head",
         UNCHANGED <<flightVars, retry, streamed, reply, envVars>>
  PROVE  FetchIInv'
<1>1. FetchTyped /\ Told(p)
  BY DEF FetchIInv, Proper
<1>2. /\ pc' \in [Procs -> Phases] /\ pc'[p] = phase
      /\ \A q \in Procs \ {p} : pc'[q] = pc[q]
  BY <1>1, GoesEffect DEF Phases
<1>3. /\ sent' \in [Procs -> Nat] /\ sent'[p] = 1 /\ \A q \in Procs \ {p} : sent'[q] = sent[q]
  BY <1>1, SendsEffect, Leader
<1>4. FetchTyped' /\ OthersRest(p)
  BY <1>1, <1>2, <1>3 DEF FetchTyped, envVars, OthersRest
<1>5. Placed(p)' /\ Written(p)' /\ Spent(p)' /\ Told(p)'
  BY <1>1, <1>2, <1>3, Leader
     DEF Placed, Written, Spent, Told, Fits, Leading, Flying, flightVars
<1> QED  BY <1>4, <1>5, LocalIInv DEF Proper

\* A leader hands something over and writes nothing to its client.
LEMMA HandsIInv ==
  ASSUME FetchIInv, NEW p \in Procs, NEW what \in Handed, Returns(p, what),
         Goes(p, key[p]) \/ (UNCHANGED pc /\ pc[p] \in {"get", "head"}),
         UNCHANGED <<fetchVars, stopped, stalled>>, cached' \in BOOLEAN,
         what \in {"error", "sinkError"} => p \in Clients,
         key[p] = "head" => what \in {"item", "error"},
         pc[p] \in {"get", "head", "streaming"} \/ p \in Prefetches \/ what \in {"item", "error"}
  PROVE  FetchIInv'
<1> DEFINE o == Outcome(what, p)
<1>1. FetchTyped /\ at[p] = "running" /\ Flight!Return(p, o)
  BY DEF FetchIInv, Returns, Flight!Return
<1>2. o \in Outcomes /\ o.what = what /\ o.by = p
  BY DEF Outcomes, Outcome
<1>3. key[p] \in {"get", "head"}
  BY <1>1, Leader
<1>4. pc' \in [Procs -> Phases] /\ pc'[p] = key[p] /\ \A q \in Procs \ {p} : pc'[q] = pc[q]
  <2>1. CASE Goes(p, key[p])
    BY <1>1, <1>3, <2>1, GoesEffect DEF Phases
  <2>2. CASE UNCHANGED pc /\ pc[p] \in {"get", "head"}
    BY <1>1, <2>2, Leader DEF FetchTyped
  <2> QED  BY <2>1, <2>2
<1>5. FetchTyped' /\ OthersRest(p)
  BY <1>1, <1>4 DEF FetchTyped, fetchVars, OthersRest
<1>6. Fits(key[p], o)
  BY <1>2 DEF Fits
<1>7. IF streamed'[p] THEN reply'[p] \in {<<"ok">>, <<"bad">>, <<"cut">>} /\ key[p] = "get"
                      ELSE ~streamed[p] /\ reply'[p] = reply[p]
  BY <1>1, Leader DEF fetchVars, Clients
<1>8. sent[p] = 1 /\ key[p] = "get" =>
        streamed'[p] \/ p \in Prefetches \/ o.what \in {"item", "error"}
  BY <1>1, <1>2, Leader DEF fetchVars
<1>9. sent'[p] = sent[p]
  BY DEF fetchVars
<1> HIDE DEF o
<1> QED  BY <1>1, <1>2, <1>4, <1>5, <1>6, <1>7, <1>8, <1>9, ReturnIInv

LEMMA BeginIInv ==
  ASSUME FetchIInv, NEW p \in Procs, BeginGet(p) \/ BeginHead(p)
  PROVE  FetchIInv'
<1>1. /\ FetchTyped /\ at[p] = "running" /\ UNCHANGED <<retry, streamed, reply, envVars>>
      /\ pc[p] \in {"get", "head"}
  BY DEF FetchIInv, BeginGet, BeginHead, Leads
<1>2. CASE \E what \in Handed : /\ Returns(p, what) /\ UNCHANGED <<pc, sent>>
                                /\ what \notin {"error", "sinkError"}
                                /\ pc[p] = "head" => what = "item"
  BY <1>1, <1>2, HandsIInv, Leader DEF FetchTyped, fetchVars, envVars
<1>3. CASE BeginGet(p)
  <2>1. CASE /\ p \in Gets \/ p \in Prefetches
             /\ Sends(p) /\ Goes(p, "fetching") /\ UNCHANGED flightVars
    BY <1>1, <1>3, <2>1, SendIInv, KindAssumption DEF BeginGet, Leads, Clients
  <2> QED  BY <1>2, <1>3, <2>1 DEF BeginGet, Leads, Handed
<1>4. CASE BeginHead(p)
  <2>1. CASE Sends(p) /\ Goes(p, "headfetching") /\ UNCHANGED flightVars
    BY <1>1, <1>4, <2>1, SendIInv DEF BeginHead, Leads
  <2> QED  BY <1>2, <1>4, <2>1 DEF BeginHead, Leads, Handed
<1> QED  BY <1>3, <1>4

\* The upstream answers, or does not, before anything was written.
LEMMA FetchedIInv ==
  ASSUME FetchIInv, NEW p \in Procs,
         FetchFails(p) \/ HeadFails(p) \/ FetchWhole(p) \/ PrefetchEnds(p) \/ HeadEnds(p)
  PROVE  FetchIInv'
<1>1. /\ FetchTyped /\ at[p] = "running" /\ UNCHANGED <<fetchVars, stopped, stalled>>
      /\ cached' \in BOOLEAN
      /\ \/ pc[p] = "fetching" /\ Goes(p, "get")
         \/ pc[p] = "headfetching" /\ Goes(p, "head")
  BY DEF FetchIInv, FetchTyped, FetchFails, HeadFails, UpstreamFails, FetchWhole, PrefetchEnds,
         HeadEnds, Leads, envVars
<1>2. Goes(p, key[p])
  BY <1>1, Leader
<1>3. CASE Returns(p, "item")
  BY <1>1, <1>2, <1>3, HandsIInv DEF Handed
<1>4. CASE Returns(p, "error") /\ p \in Clients
  BY <1>1, <1>2, <1>4, HandsIInv DEF Handed
<1>5. CASE Returns(p, "nothing") /\ pc[p] = "fetching" /\ p \in Prefetches
  BY <1>1, <1>2, <1>5, HandsIInv, Leader DEF Handed
<1>6. pc[p] = "headfetching" => p \in Heads
  BY <1>1, Leader
<1> QED  BY <1>1, <1>3, <1>4, <1>5, <1>6
         DEF FetchFails, HeadFails, UpstreamFails, FetchWhole, PrefetchEnds, HeadEnds, Leads,
             Returns, FailFetch, Clients

LEMMA StreamEndsIInv ==
  ASSUME FetchIInv, NEW p \in Procs, StreamEnds(p)
  PROVE  FetchIInv'
<1>1. /\ FetchTyped /\ at[p] = "running" /\ UNCHANGED <<fetchVars, stopped, stalled>>
      /\ cached' \in BOOLEAN /\ pc[p] = "streaming" /\ Goes(p, "get")
  BY DEF FetchIInv, FetchTyped, StreamEnds, Leads
<1>2. Goes(p, key[p]) /\ key[p] = "get" /\ p \in Clients
  BY <1>1, Leader DEF Clients
<1>3. PICK what \in Handed : Returns(p, what)
  BY DEF StreamEnds, Handed
<1> QED  BY <1>1, <1>2, <1>3, HandsIInv

\* The response starts, or breaks off.
LEMMA StartStreamIInv ==
  ASSUME FetchIInv, NEW p \in Procs, StartStream(p)
  PROVE  FetchIInv'
<1>1. /\ FetchTyped /\ Told(p) /\ at[p] = "running" /\ pc[p] = "fetching" /\ p \in Gets
      /\ UNCHANGED <<retry, sent, cached, stopped, stalled>>
      /\ streamed' = [streamed EXCEPT ![p] = TRUE]
  BY DEF FetchIInv, Proper, StartStream, Leads, envVars
<1>2. key[p] = "get" /\ reply[p] = <<>> /\ sent[p] \in {0, 1}
  BY <1>1, Leader DEF Clients
<1>3. /\ reply' \in [Procs -> Seq(Responses)] /\ reply'[p] = <<"ok">>
      /\ \A q \in Procs \ {p} : reply'[q] = reply[q]
  BY <1>1, <1>2, RepliesEffect DEF StartStream, Responses
<1>4. PICK phase \in {"get", "streaming"} :
        /\ Goes(p, phase)
        /\ IF phase = "get" THEN Returns(p, "nothing") ELSE UNCHANGED flightVars
  BY DEF StartStream
<1>5. pc' \in [Procs -> Phases] /\ pc'[p] = phase /\ \A q \in Procs \ {p} : pc'[q] = pc[q]
  BY <1>1, <1>4, GoesEffect DEF Phases
<1>6. /\ streamed' \in [Procs -> BOOLEAN] /\ streamed'[p]
      /\ \A q \in Procs \ {p} : streamed'[q] = streamed[q]
  BY <1>1 DEF FetchTyped
<1>7. FetchTyped' /\ OthersRest(p)
  BY <1>1, <1>3, <1>5, <1>6 DEF FetchTyped, OthersRest, Responses
<1>8. CASE phase = "streaming"
  <2>1. UNCHANGED flightVars
    BY <1>4, <1>8
  <2>2. Placed(p)' /\ Written(p)' /\ Spent(p)' /\ Told(p)'
    BY <1>1, <1>2, <1>3, <1>5, <1>6, <1>8, <2>1
       DEF Placed, Written, Spent, Told, Fits, Leading, Flying, flightVars
  <2> QED  BY <1>7, <2>1, <2>2, LocalIInv DEF Proper
<1>9. CASE phase = "get"
  <2> DEFINE o == Outcome("nothing", p)
  <2>1. o \in Outcomes /\ o.what = "nothing"
    BY DEF Outcomes, Outcome, Handed
  <2>2. Flight!Return(p, o) /\ Fits(key[p], o)
    BY <1>2, <1>4, <1>9, <2>1 DEF Returns, Fits
  <2> HIDE DEF o
  <2> QED  BY <1>1, <1>2, <1>3, <1>5, <1>6, <1>7, <1>9, <2>1, <2>2, ReturnIInv
<1> QED  BY <1>8, <1>9

LEMMA StreamBreaksIInv ==
  ASSUME FetchIInv, NEW p \in Procs, StreamBreaks(p)
  PROVE  FetchIInv'
<1> DEFINE o == Outcome("error", p)
<1>1. /\ FetchTyped /\ at[p] = "running" /\ pc[p] = "streaming" /\ Goes(p, "get")
      /\ UNCHANGED <<retry, streamed, sent, cached, stopped, stalled>>
      /\ reply' = [reply EXCEPT ![p] = <<"cut">>] /\ Flight!Return(p, o)
  BY DEF FetchIInv, StreamBreaks, Leads, Returns, envVars
<1>2. key[p] = "get" /\ streamed[p] /\ p \in Clients
  BY <1>1, Leader DEF Clients
<1>3. o \in Outcomes /\ Fits(key[p], o)
  BY <1>2 DEF Outcomes, Outcome, Handed, Fits
<1>4. pc' \in [Procs -> Phases] /\ pc'[p] = "get" /\ \A q \in Procs \ {p} : pc'[q] = pc[q]
  BY <1>1, GoesEffect DEF Phases
<1>5. <<"cut">> \in Seq({"ok", "bad", "cut"})
  OBVIOUS
<1>6. FetchTyped' /\ OthersRest(p) /\ reply'[p] = <<"cut">>
  BY <1>1, <1>4, <1>5 DEF FetchTyped, OthersRest
<1> HIDE DEF o
<1> QED  BY <1>1, <1>2, <1>3, <1>4, <1>6, ReturnIInv

-----------------------------------------------------------------------------
(***************************************************************************)
(* After a flight.                                                         *)
(***************************************************************************)
LEMMA AfterFlight ==
  ASSUME FetchIInv, NEW p \in Procs, pc[p] \in {"get", "head"}, at[p] = "out"
  PROVE  /\ pc[p] = "head" => p \in Heads /\ ~streamed[p]
         /\ p \in Clients => /\ Fits(pc[p], got[p])
                             /\ reply[p] \in IF streamed[p] THEN {<<"ok">>, <<"bad">>, <<"cut">>}
                                             ELSE {<<>>}
         /\ sent[p] \in {0, 1}
         /\ sent[p] = 1 => \/ pc[p] = "head" \/ streamed[p] \/ p \in Prefetches
                           \/ got[p].what \in {"item", "error"}
BY DEF FetchIInv, Proper, Placed, Written, Spent, Told, Yield, Leading

LEMMA AfterFlightIInv ==
  ASSUME FetchIInv, NEW p \in Procs, AfterGet(p) \/ AfterHead(p)
  PROVE  FetchIInv'
<1>1. /\ FetchTyped /\ at[p] = "out" /\ pc[p] \in {"get", "head"} /\ Consumes(p)
      /\ UNCHANGED <<retry, streamed, sent, cached, stopped, stalled>>
  BY DEF FetchIInv, AfterGet, AfterHead, envVars
<1>2. /\ pc[p] = "head" => p \in Heads /\ ~streamed[p]
      /\ p \in Clients => reply[p] \in IF streamed[p] THEN {<<"ok">>, <<"bad">>, <<"cut">>}
                                       ELSE {<<>>}
      /\ sent[p] \in {0, 1}
  BY <1>1, AfterFlight
<1>3. CASE (p \in Prefetches \/ streamed[p]) /\ Goes(p, "done") /\ UNCHANGED reply
  <2>1. /\ pc' \in [Procs -> Phases] /\ pc'[p] = "done"
        /\ \A q \in Procs \ {p} : pc'[q] = pc[q]
    BY <1>1, <1>3, GoesEffect DEF Phases
  <2>2. FetchTyped' /\ OthersRest(p)
    BY <1>1, <1>3, <2>1 DEF FetchTyped, OthersRest
  <2>3. p \in Clients => reply'[p] \in {<<"ok">>, <<"bad">>, <<"cut">>}
    BY <1>2, <1>3, KindAssumption
  <2> QED  BY <1>1, <1>2, <2>1, <2>2, <2>3, OutsideIInv DEF Flying, Leading
<1>4. CASE p \in Clients /\ ~streamed[p] /\ \E r \in {"ok", "bad"} : Answers(p, r)
  <2>1. PICK r \in {"ok", "bad"} : Answers(p, r)
    BY <1>4
  <2>2. /\ pc' \in [Procs -> Phases] /\ pc'[p] = "done"
        /\ reply' \in [Procs -> Seq(Responses)] /\ reply'[p] = <<r>>
        /\ \A q \in Procs \ {p} : pc'[q] = pc[q] /\ reply'[q] = reply[q]
    BY <1>1, <1>2, <1>4, <2>1, AnswersEffect DEF Responses
  <2>3. FetchTyped' /\ OthersRest(p)
    BY <1>1, <2>2 DEF FetchTyped, OthersRest, Responses
  <2> QED  BY <1>1, <1>2, <2>2, <2>3, OutsideIInv DEF Flying, Leading
<1>5. CASE /\ p \in Clients /\ ~streamed[p] /\ UNCHANGED reply
           /\ pc[p] = "get" /\ got[p].what \in {"headError", "file", "nothing"}
           /\ \E phase \in {"headmiss", "fallback"} :
                 Goes(p, phase) /\ (phase = "headmiss" => p \in Heads)
  <2>1. PICK phase \in {"headmiss", "fallback"} :
          Goes(p, phase) /\ (phase = "headmiss" => p \in Heads)
    BY <1>5
  <2>2. pc' \in [Procs -> Phases] /\ pc'[p] = phase /\ \A q \in Procs \ {p} : pc'[q] = pc[q]
    BY <1>1, <2>1, GoesEffect DEF Phases
  <2>3. FetchTyped' /\ OthersRest(p)
    BY <1>1, <1>5, <2>2 DEF FetchTyped, OthersRest
  <2>4. sent[p] = 0 /\ reply[p] = <<>>
    BY <1>1, <1>2, <1>5, AfterFlight, KindAssumption
  <2> QED  BY <1>1, <1>5, <2>1, <2>2, <2>3, <2>4, OutsideIInv DEF Flying, Leading
<1>6. CASE AfterGet(p)
  BY <1>3, <1>4, <1>5, <1>6 DEF AfterGet, AlreadyAnswered
<1>7. CASE AfterHead(p)
  BY <1>2, <1>4, <1>7 DEF AfterHead, Clients
<1> QED  BY <1>6, <1>7

LEMMA FallbackIInv ==
  ASSUME FetchIInv, NEW p \in Procs, Fallback(p) \/ EndAlone(p)
  PROVE  FetchIInv'
<1>1. FetchTyped /\ Proper(p)
  BY DEF FetchIInv
<1>2. CASE EndAlone(p)
  BY <1>2, AnswerIInv DEF EndAlone, Responses, Flying, Leading
<1>3. CASE Fallback(p) /\ cached
  BY <1>3, AnswerIInv DEF Fallback, Responses, Flying, Leading
<1>4. CASE Fallback(p) /\ ~cached
  <2>1. p \in Clients
    BY <1>1, <1>4 DEF Proper, Placed, Fallback
  <2>2. retry' \in [Procs -> BOOLEAN]
    BY <1>1, <1>4 DEF FetchTyped, Fallback
  <2> QED  BY <1>4, <2>1, <2>2, MoveIInv DEF Fallback, Flying, Leading, Phases, envVars
<1> QED  BY <1>2, <1>3, <1>4

\* What the cache, the engine and the readers do leaves every request as it is.
LEMMA EnvironmentIInv ==
  ASSUME FetchIInv,
         \/ Lose \/ StopPrefetch \/ \E p \in Procs : Stall(p)
         \/ UNCHANGED vars
  PROVE  FetchIInv'
<1>1. UNCHANGED <<flightVars, pc, fetchVars>>
  BY DEF Lose, StopPrefetch, Stall, vars
<1>2. FetchTyped'
  <2>1. /\ FetchTyped
        /\ \A p \in Procs : pc[p] = "streaming" => p \in Clients
    BY DEF FetchIInv, Proper, Placed, Clients
  <2> QED  BY <1>1, <2>1 DEF FetchTyped, fetchVars, Lose, StopPrefetch, Stall, vars, envVars
<1>3. UNCHANGED <<at, key, call, got, outcome, pc, reply, sent, streamed>>
  BY <1>1 DEF flightVars, fetchVars
<1>4. \A p \in Procs : Proper(p)'
  BY <1>3 DEF FetchIInv, Proper, Placed, Written, Spent, Yield, Told, Fits
<1>5. Agreed'
  BY <1>3 DEF FetchIInv, Agreed
<1> QED  BY <1>1, <1>2, <1>4, <1>5, FlightsRest DEF FetchIInv

-----------------------------------------------------------------------------
(***************************************************************************)
(* The theorems.                                                           *)
(***************************************************************************)
LEMMA FetchInitIInv == Init => FetchIInv
<1> SUFFICES ASSUME Init PROVE FetchIInv
  OBVIOUS
<1>1. Flights!IInv
  <2>1. Flights!Init
    BY DEF Init, Flight!Init, Flights!Init
  <2> QED  BY <2>1, Flights!InitIInv, FlightAssumptions
           DEF Flights!ObjectAssumption, Flights!ForgetAssumption, Flights!ProcsAssumption
<1>2. FetchTyped
  <2>1. <<>> \in Seq({"ok", "bad", "cut"})
    OBVIOUS
  <2>2. reply \in [Procs -> Seq({"ok", "bad", "cut"})]
    BY <2>1 DEF Init
  <2> QED  BY <2>2 DEF Init, FetchTyped, Phases
<1>3. \A p \in Procs : at[p] = "out" /\ pc[p] = "lookup"
  BY DEF Init, Flight!Init
<1>4. \A p \in Procs : Proper(p)
  BY <1>3 DEF Init, Proper, Placed, Written, Spent, Told, Flying, Leading
<1>5. Agreed
  BY <1>3 DEF Agreed
<1> QED  BY <1>1, <1>2, <1>4, <1>5 DEF FetchIInv

LEMMA FetchNextIInv == FetchIInv /\ [Next]_vars => FetchIInv'
<1> SUFFICES ASSUME FetchIInv, [Next]_vars PROVE FetchIInv'
  OBVIOUS
<1>1. ASSUME NEW p \in Procs, Step(p) PROVE FetchIInv'
  BY <1>1, LookupIInv, JoinIInv, BeginIInv, FetchedIInv, StartStreamIInv, StreamBreaksIInv,
     StreamEndsIInv, EndFlightIInv, AfterFlightIInv, FallbackIInv DEF Step
<1> QED  BY <1>1, CancelPrefetchIInv, EnvironmentIInv DEF Next

\* The invariant holds in every state that requests for the asset can reach.
THEOREM FetchIInvAlways == Spec => []FetchIInv
<1> QED  BY FetchInitIInv, FetchNextIInv, PTL DEF Spec

\* Requests, flights, replies and counters keep their types.
THEOREM FetchTypeOKAlways == Spec => []TypeOK
<1>1. FetchIInv => TypeOK
  BY FlightTypes DEF FetchIInv, FetchTyped, TypeOK, Flights!IInv
<1> QED  BY <1>1, FetchIInvAlways, PTL

\* Every request that is done has one response, and no request ever has two, for
\* any number of requests of any kind.
THEOREM AnsweredAlwaysOnce == Spec => []AnsweredOnce
<1>1. FetchIInv => AnsweredOnce
  <2> SUFFICES ASSUME FetchIInv, NEW p \in Clients
               PROVE  Len(reply[p]) <= 1 /\ (pc[p] = "done" => Len(reply[p]) = 1)
    BY DEF AnsweredOnce
  <2>1. \/ reply[p] = <<>> /\ pc[p] # "done"
        \/ \E r \in Responses : reply[p] = <<r>>
    BY DEF FetchIInv, Proper, Written, Procs, Responses
  <2>2. CASE reply[p] = <<>> /\ pc[p] # "done"
    BY <2>2
  <2>3. CASE \E r \in Responses : reply[p] = <<r>>
    <3>1. PICK r \in Responses : reply[p] = <<r>>
      BY <2>3
    <3>2. Len(<<r>>) = 1
      OBVIOUS
    <3> QED  BY <3>1, <3>2
  <2> QED  BY <2>1, <2>2, <2>3
<1> QED  BY <1>1, FetchIInvAlways, PTL

\* No request ever makes a second upstream request of its own.
THEOREM OneUpstreamAlways == Spec => []OneUpstreamEach
<1>1. FetchIInv => OneUpstreamEach
  BY DEF FetchIInv, Proper, Spent, OneUpstreamEach
<1> QED  BY <1>1, FetchIInvAlways, PTL

\* A 502 has one of the causes that a client can be told of, for any number of
\* prefetches and HEAD requests beside it.
THEOREM BadGatewayAlwaysHasCause == Spec => BadGatewayHasCause
<1> DEFINE Caused(p) == pc[p] = "alone" \/ got[p] \in [what : {"error", "sinkError"}, by : Clients]
<1>1. ASSUME FetchIInv, [Next]_vars, NEW p \in Clients, reply[p] = <<>>, reply'[p] = <<"bad">>
      PROVE  Caused(p)
  <2>1. p \in Procs /\ FetchTyped
    BY <1>1 DEF Procs, FetchIInv
  <2>2. <<"ok">> # <<"bad">> /\ <<"cut">> # <<"bad">> /\ <<>> # <<"bad">>
    OBVIOUS
  <2>3. PICK q \in Procs : Step(q) /\ reply' # reply
    BY <1>1, <2>2 DEF Next, CancelPrefetch, Stall, Lose, StopPrefetch, vars, fetchVars
  <2>4. ASSUME NEW r \in Responses, Replies(q, r) PROVE q = p /\ r = "bad"
    <3>1. q = p
      BY <1>1, <2>1, <2>2, <2>4 DEF Replies, FetchTyped
    <3>2. reply'[p] = <<r>>
      BY <1>1, <2>1, <2>4, <3>1, RepliesEffect
    <3>3. <<r>>[1] = r /\ <<"bad">>[1] = "bad"
      OBVIOUS
    <3> QED  BY <1>1, <3>1, <3>2, <3>3
  <2>5. ASSUME NEW r \in Responses, Answers(q, r) PROVE q = p /\ r = "bad"
    BY <2>3, <2>4, <2>5 DEF Answers
  <2>6. ~StreamBreaks(q)
    BY <1>1, <2>1, <2>2 DEF StreamBreaks, FetchTyped
  <2>7. CASE EndAlone(q)
    BY <2>5, <2>7 DEF EndAlone, Responses
  <2>8. CASE AfterGet(q) \/ AfterHead(q)
    <3>1. q = p
      BY <2>3, <2>5, <2>8 DEF AfterGet, AfterHead, Responses
    <3>2. Fits(pc[p], got[p]) /\ got[p].what \in {"error", "sinkError"}
      BY <1>1, <2>1, <2>3, <2>5, <2>8, <3>1, AfterFlight DEF AfterGet, AfterHead, Responses, Fits
    <3> QED  BY <3>2 DEF Fits, Outcomes
  <2> QED  BY <2>3, <2>4, <2>5, <2>6, <2>7, <2>8
           DEF Step, Lookup, Route, JoinGet, CheckHead, JoinHead, BeginGet, FetchFails, FetchWhole,
               StartStream, StreamEnds, PrefetchEnds, BeginHead, HeadEnds, HeadFails,
               UpstreamFails, EndFlight, Fallback, fetchVars, Responses
<1>2. FetchIInv /\ [Next]_vars =>
        [\A p \in Clients : reply[p] = <<>> /\ reply'[p] = <<"bad">> => Caused(p)]_vars
  BY <1>1
<1> QED  BY <1>2, FetchIInvAlways, PTL DEF Spec, BadGatewayHasCause
=============================================================================
