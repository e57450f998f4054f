----------------------------- MODULE AssetFetch -----------------------------
(***************************************************************************)
(* How requests for one static asset are answered (serveStaticAssetCore,   *)
(* handleStaticAssetHeadMiss and serveStaticAssetFollowerFallback of       *)
(* engine/proxy/proxy.go, processFetchItem of engine/proxy/prefetch.go).   *)
(*                                                                         *)
(* A request looks the asset up, and on a miss goes through SingleFlight:  *)
(* GET requests and prefetches share one key, HEAD requests that find no   *)
(* GET under way have another.  A GET leader streams to its own client     *)
(* while it fetches, so that it is answered before its followers are.  A   *)
(* follower whose leader produced nothing it can use falls back: to the    *)
(* cache, then once to the whole procedure, then to a fetch of its own.    *)
(*                                                                         *)
(* Each process is one request.  Conditional headers matter where they     *)
(* change the control flow only (a 304 leader hands nothing to followers). *)
(***************************************************************************)
EXTENDS Integers, Sequences, FiniteSets

CONSTANTS Gets, Heads,  \* requests of clients, by method
          Prefetches,   \* background fetches
          Calls, NoKey, NoCall, NoOutcome, Cancelled, \* as in SingleFlight
          Conditional,  \* the GET requests that may be answered 304
          MayLose,      \* whether the cache may lose the asset
          MayFail,      \* whether an upstream request may fail
          SinkFails,    \* whether the cache may refuse what was fetched
          MayStall      \* whether a client may stop reading its response

Clients == Gets \cup Heads
Procs == Clients \cup Prefetches

ASSUME KindAssumption == /\ Gets \cap Heads = {}
                         /\ Clients \cap Prefetches = {}
                         /\ Conditional \subseteq Gets
ASSUME ModeAssumption == {MayLose, MayFail, SinkFails, MayStall} \subseteq BOOLEAN
ASSUME PlaceholderAssumption == /\ NoKey \notin {"get", "head"} /\ NoCall \notin Calls
                                /\ NoOutcome # Cancelled /\ IsFiniteSet(Procs)

VARIABLES flight, outcome, done, waiters, at, key, call, got, \* SingleFlight
          cached,   \* the asset is in the cache
          stopped,  \* the prefetch engine is stopped
          pc,       \* pc[p]      : where request p is
          retry,    \* retry[p]   : allowRetry
          streamed, \* streamed[p]: leaderStreamed
          sent,     \* sent[p]    : upstream requests p has made
          reply,    \* reply[p]   : the responses written to the client of p
          stalled   \* clients that stopped reading

flightVars == <<flight, outcome, done, waiters, at, key, call, got>>
fetchVars == <<retry, streamed, sent, reply>>
envVars == <<cached, stopped, stalled>>
vars == <<flightVars, pc, fetchVars, envVars>>

(***************************************************************************)
(* What a leader hands to its followers: an item, a file of the cache that *)
(* is too large for memory, nothing, an error of the upstream, an error of *)
(* the cache sink, or the refusal of a HEAD request to lead.               *)
(***************************************************************************)
Handed == {"item", "file", "nothing", "error", "sinkError", "headError"}
Outcomes == [what : Handed, by : Procs]
Outcome(what, p) == [what |-> what, by |-> p]

ASSUME OutcomeAssumption == {NoOutcome, Cancelled} \cap Outcomes = {}

Flight == INSTANCE SingleFlight WITH Keys <- {"get", "head"}, Forgettable <- {}

Phases == {"lookup", "missed", "join", "get", "fetching", "streaming",
           "headmiss", "headjoin", "head", "headfetching", "fallback", "alone",
           "done"}

TypeOK == /\ Flight!TypeOK
          /\ cached \in BOOLEAN /\ stopped \in BOOLEAN
          /\ pc \in [Procs -> Phases]
          /\ retry \in [Procs -> BOOLEAN] /\ streamed \in [Procs -> BOOLEAN]
          /\ sent \in [Procs -> Nat]
          /\ reply \in [Procs -> Seq({"ok", "bad", "cut"})]
          /\ stalled \subseteq Clients

Init == /\ Flight!Init
        /\ cached \in BOOLEAN /\ stopped = FALSE
        /\ pc = [p \in Procs |-> "lookup"]
        /\ retry = [p \in Procs |-> TRUE]
        /\ streamed = [p \in Procs |-> FALSE]
        /\ sent = [p \in Procs |-> 0]
        /\ reply = [p \in Procs |-> <<>>]
        /\ stalled = {}

Goes(p, phase) == pc' = [pc EXCEPT ![p] = phase]
Replies(p, r) == reply' = [reply EXCEPT ![p] = Append(@, r)]
Sends(p) == sent' = [sent EXCEPT ![p] = @ + 1]

\* p answers its client and is done, or, a prefetch, is just done.
Answers(p, r) == /\ IF p \in Clients THEN Replies(p, r) ELSE UNCHANGED reply
                 /\ Goes(p, "done")

-----------------------------------------------------------------------------
(***************************************************************************)
(* Looking up and joining.                                                 *)
(***************************************************************************)

\* The cache lookup of serveStaticAssetCore, HasCache for a prefetch.
Lookup(p) ==
  /\ pc[p] = "lookup"
  /\ \/ cached /\ Answers(p, "ok")
     \/ ~cached /\ Goes(p, "missed") /\ UNCHANGED reply
  /\ UNCHANGED <<flightVars, retry, streamed, sent, envVars>>

\* A HEAD request goes its own way unless a GET is under way; a prefetch leaves
\* the asset to a GET that is.
Route(p) ==
  /\ pc[p] = "missed"
  /\ Goes(p, IF p \in Heads /\ ~Flight!IsInFlight("get") THEN "headmiss"
             ELSE IF p \in Prefetches /\ Flight!IsInFlight("get") THEN "done"
             ELSE "join")
  /\ UNCHANGED <<flightVars, fetchVars, envVars>>

Coalesce(p, k) == Flight!Join(p, k) \/ \E c \in Calls : Flight!Lead(p, k, c)

\* DoContext on the key of the asset.
JoinGet(p) == /\ pc[p] = "join"
              /\ Coalesce(p, "get")
              /\ Goes(p, "get")
              /\ UNCHANGED <<fetchVars, envVars>>

\* handleStaticAssetHeadMiss looks again before DoContext on the HEAD key.
CheckHead(p) ==
  /\ pc[p] = "headmiss"
  /\ \/ cached /\ Answers(p, "ok")
     \/ ~cached /\ Goes(p, "headjoin") /\ UNCHANGED reply
  /\ UNCHANGED <<flightVars, retry, streamed, sent, envVars>>

JoinHead(p) == /\ pc[p] = "headjoin"
               /\ Coalesce(p, "head")
               /\ Goes(p, "head")
               /\ UNCHANGED <<fetchVars, envVars>>

-----------------------------------------------------------------------------
(***************************************************************************)
(* The function a leader executes.                                         *)
(***************************************************************************)
Returns(p, what) == Flight!Return(p, Outcome(what, p))
Leads(p, phase) == pc[p] = phase /\ at[p] = "running"

\* A GET leader sends its upstream request at once, a HEAD request refuses, a
\* prefetch looks again: with followers it hands them the item, alone it only
\* makes sure that it is there, and either way it stops when the engine does.
BeginGet(p) ==
  /\ Leads(p, "get")
  /\ \/ /\ p \in Heads
        /\ Returns(p, "headError")
        /\ UNCHANGED <<pc, sent>>
     \/ /\ p \in Gets \/ (p \in Prefetches /\ ~cached /\ ~stopped)
        /\ Sends(p)
        /\ Goes(p, "fetching")
        /\ UNCHANGED flightVars
     \/ /\ p \in Prefetches /\ cached
        /\ \/ Returns(p, "item")
           \/ waiters[call[p]] = 0 /\ Returns(p, "nothing")
        /\ UNCHANGED <<pc, sent>>
     \/ /\ p \in Prefetches /\ ~cached /\ stopped
        /\ Returns(p, "nothing")
        /\ UNCHANGED <<pc, sent>>
  /\ UNCHANGED <<retry, streamed, reply, envVars>>

\* The upstream request of p fails: the status, the body or the content is not
\* what the cache accepts.  GetFallback may know an item all the same: this
\* asset if it is cached by now, or another version or language of it.
UpstreamFails(p, phase) ==
  /\ MayFail
  /\ Leads(p, phase)
  /\ \/ Returns(p, "item")
     \/ ~cached /\ Returns(p, "error")
  /\ Goes(p, IF phase = "headfetching" THEN "head" ELSE "get")
  /\ UNCHANGED <<fetchVars, envVars>>

FetchFails(p) == p \in Gets /\ UpstreamFails(p, "fetching")
HeadFails(p) == UpstreamFails(p, "headfetching")

\* A small body, or one that has to be read whole before it can be judged: it
\* is saved and handed over; if the cache refuses it, it is handed over only.
FetchWhole(p) ==
  /\ p \in Gets /\ Leads(p, "fetching")
  /\ \/ cached' = TRUE
     \/ SinkFails /\ UNCHANGED cached
  /\ Returns(p, "item")
  /\ Goes(p, "get")
  /\ UNCHANGED <<fetchVars, stopped, stalled>>

\* The response starts while the body is still arriving: a 304 of one write,
\* or a stream.
StartStream(p) ==
  /\ p \in Gets /\ Leads(p, "fetching")
  /\ streamed' = [streamed EXCEPT ![p] = TRUE]
  /\ Replies(p, "ok")
  /\ \/ p \in Conditional /\ Returns(p, "nothing") /\ Goes(p, "get")
     \/ Goes(p, "streaming") /\ UNCHANGED flightVars
  /\ UNCHANGED <<retry, sent, envVars>>

\* The body breaks off: the connection of the client is closed, the response
\* it was getting is not complete.
StreamBreaks(p) ==
  /\ MayFail
  /\ Leads(p, "streaming")
  /\ reply' = [reply EXCEPT ![p] = <<"cut">>]
  /\ Returns(p, "error")
  /\ Goes(p, "get")
  /\ UNCHANGED <<retry, streamed, sent, envVars>>

\* The body is complete: the client is served whatever the cache does with it.
StreamEnds(p) ==
  /\ Leads(p, "streaming")
  /\ p \notin stalled
  /\ \/ /\ cached' = TRUE
        /\ \E what \in {"item", "file"} : Returns(p, what)
     \/ /\ SinkFails
        /\ \E what \in {"item", "nothing", "sinkError"} : Returns(p, what)
        /\ UNCHANGED cached
  /\ Goes(p, "get")
  /\ UNCHANGED <<fetchVars, stopped, stalled>>

\* Faulty variant: a prefetch returns its error to the callers that joined it.
FailsLoudly(p) == Outcome("error", p)

\* What a prefetch hands over when it could not get the asset.
FailFetch(p) == Outcome("nothing", p)

\* A prefetch ends: an item, saved or not; or nothing, because it failed, was
\* stopped or found the asset too large.
PrefetchEnds(p) ==
  /\ p \in Prefetches /\ Leads(p, "fetching")
  /\ \/ /\ Returns(p, "item")
        /\ cached' = TRUE \/ (SinkFails /\ UNCHANGED cached)
     \/ /\ MayFail
        /\ Flight!Return(p, FailFetch(p))
        /\ UNCHANGED cached
     \/ /\ Returns(p, "nothing")
        /\ UNCHANGED cached
  /\ Goes(p, "get")
  /\ UNCHANGED <<fetchVars, stopped, stalled>>

\* The leader of a HEAD looks a third time, then sends a HEAD upstream.
BeginHead(p) ==
  /\ Leads(p, "head")
  /\ \/ /\ cached /\ Returns(p, "item")
        /\ UNCHANGED <<pc, sent>>
     \/ /\ ~cached /\ Sends(p) /\ Goes(p, "headfetching")
        /\ UNCHANGED flightVars
  /\ UNCHANGED <<retry, streamed, reply, envVars>>

\* The metadata in the answer are handed over and never cached.
HeadEnds(p) == /\ Leads(p, "headfetching")
               /\ Returns(p, "item")
               /\ Goes(p, "head")
               /\ UNCHANGED <<fetchVars, envVars>>

-----------------------------------------------------------------------------
(***************************************************************************)
(* The end of DoContext, and what comes after it.                          *)
(***************************************************************************)
EndFlight(p) == /\ Flight!Finish(p) \/ Flight!Receive(p) \/ Flight!Leave(p)
                /\ UNCHANGED <<pc, fetchVars, envVars>>

\* Only a prefetch has a context that ends, when the engine stops.
CancelPrefetch(p) == /\ p \in Prefetches /\ stopped
                     /\ Flight!Cancel(p)
                     /\ UNCHANGED <<pc, fetchVars, envVars>>

\* Faulty variant: a leader forgets that it has answered.
NobodyAnswered(p) == FALSE

\* The leader streamed its response: there is nothing left to write.
AlreadyAnswered(p) == streamed[p]

\* The value DoContext returned is used and gone.
Consumes(p) == /\ got' = [got EXCEPT ![p] = NoOutcome]
               /\ UNCHANGED <<flight, outcome, done, waiters, at, key, call>>

\* serveStaticAssetCore with the outcome of the flight.
AfterGet(p) ==
  LET o == got[p]
  IN /\ pc[p] = "get" /\ at[p] = "out"
     /\ \/ /\ p \in Prefetches \/ AlreadyAnswered(p)
           /\ Goes(p, "done")
           /\ UNCHANGED reply
        \/ /\ p \in Clients /\ ~AlreadyAnswered(p)
           /\ \/ /\ o.what = "item" \/ (o.what = "file" /\ (p \in Heads \/ cached))
                 /\ Answers(p, "ok")
              \/ /\ o.what \in {"error", "sinkError"}
                 /\ Answers(p, "bad")
              \/ /\ o.what = "headError" /\ p \in Heads
                 /\ Goes(p, "headmiss")
                 /\ UNCHANGED reply
              \/ /\ \/ o.what = "headError" /\ p \in Gets
                    \/ o.what = "file" /\ p \in Gets /\ ~cached
                    \/ o.what = "nothing"
                 /\ Goes(p, "fallback")
                 /\ UNCHANGED reply
     /\ Consumes(p)
     /\ UNCHANGED <<retry, streamed, sent, envVars>>

AfterHead(p) ==
  /\ pc[p] = "head" /\ at[p] = "out"
  /\ Answers(p, IF got[p].what = "item" THEN "ok" ELSE "bad")
  /\ Consumes(p)
  /\ UNCHANGED <<retry, streamed, sent, envVars>>

\* serveStaticAssetFollowerFallback: the cache, the procedure again, or an
\* upstream request of its own, outside of any flight.
Fallback(p) ==
  /\ pc[p] = "fallback"
  /\ \/ /\ cached
        /\ Answers(p, "ok")
        /\ UNCHANGED <<retry, sent>>
     \/ /\ ~cached /\ retry[p]
        /\ retry' = [retry EXCEPT ![p] = FALSE]
        /\ Goes(p, "lookup")
        /\ UNCHANGED <<sent, reply>>
     \/ /\ ~cached /\ ~retry[p]
        /\ Sends(p)
        /\ Goes(p, "alone")
        /\ UNCHANGED <<retry, reply>>
  /\ UNCHANGED <<flightVars, streamed, envVars>>

\* That request ends: an answer, a 502 (or an item of GetFallback), or a body
\* that breaks off.  Nothing of it is cached.
EndAlone(p) ==
  /\ pc[p] = "alone"
  /\ \/ Answers(p, "ok")
     \/ MayFail /\ \E r \in {"bad", "cut"} : Answers(p, r)
  /\ UNCHANGED <<flightVars, retry, streamed, sent, envVars>>

-----------------------------------------------------------------------------
\* The cache loses the asset: evicted, invalidated, or found unreadable.
Lose == /\ MayLose /\ cached
        /\ cached' = FALSE
        /\ UNCHANGED <<flightVars, pc, fetchVars, stopped, stalled>>

\* PrefetchEngine.Stop.
StopPrefetch == /\ ~stopped /\ Prefetches # {}
                /\ stopped' = TRUE
                /\ UNCHANGED <<flightVars, pc, fetchVars, cached, stalled>>

\* The client of a leader stops reading in the middle of the stream.
Stall(p) == /\ MayStall /\ pc[p] = "streaming" /\ p \notin stalled
            /\ stalled' = stalled \cup {p}
            /\ UNCHANGED <<flightVars, pc, fetchVars, cached, stopped>>

Step(p) == \/ Lookup(p) \/ Route(p) \/ JoinGet(p) \/ CheckHead(p) \/ JoinHead(p)
           \/ BeginGet(p) \/ FetchFails(p) \/ FetchWhole(p)
           \/ StartStream(p) \/ StreamBreaks(p) \/ StreamEnds(p)
           \/ PrefetchEnds(p) \/ BeginHead(p) \/ HeadEnds(p) \/ HeadFails(p)
           \/ EndFlight(p) \/ AfterGet(p) \/ AfterHead(p)
           \/ Fallback(p) \/ EndAlone(p)

Next == \/ \E p \in Procs : Step(p) \/ CancelPrefetch(p) \/ Stall(p)
        \/ Lose \/ StopPrefetch

\* Goroutines that can run do, and upstream requests end: every upstream client
\* has a timeout of 45 s.  Writing to a client has none.
Fairness == \A p \in Procs : WF_vars(Step(p))

Spec == Init /\ [][Next]_vars /\ Fairness

-----------------------------------------------------------------------------
(***************************************************************************)
(* Properties.                                                             *)
(***************************************************************************)

\* A client never gets two responses on its connection, whichever of the
\* leader, the follower and the fallback paths write one, and a request that
\* is done has got one: nothing after it on a kept-alive connection is read as
\* the answer to another request.
AnsweredOnce ==
  \A p \in Clients : /\ Len(reply[p]) <= 1
                     /\ pc[p] = "done" => Len(reply[p]) = 1

\* However leaders fail, the asset gets lost and HEAD requests get in the way,
\* a request makes at most one upstream request of its own.
OneUpstreamEach == \A p \in Procs : sent[p] <= 1

\* A client is answered 502 only because its own upstream request failed, or
\* because one made for another client did or the cache refused its stream;
\* never because a background fetch failed or a HEAD request could not lead
\* ("would turn a background failure into a foreground 502", prefetch.go).
BadGatewayHasCause ==
  [][\A p \in Clients :
       reply[p] = <<>> /\ reply'[p] = <<"bad">> =>
         pc[p] = "alone" \/ got[p] \in [what : {"error", "sinkError"}, by : Clients]]_vars

\* A prefetch cannot delay a client for ever, nor can a chain of failures or
\* HEAD requests: every request is answered, unless a client has stopped
\* reading the stream the others wait for.
EveryoneAnswered ==
  \A p \in Procs : pc[p] # "done" ~> pc[p] = "done" \/ stalled # {}
=============================================================================
