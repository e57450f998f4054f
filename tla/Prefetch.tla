------------------------------ MODULE Prefetch ------------------------------
(***************************************************************************)
(* The prefetch engine (engine/proxy/prefetch.go): responses that went by  *)
(* are searched for assets by one goroutine, and another fetches those in  *)
(* the background, by priority, while the foreground rests.  They share    *)
(* three bounded queues and the map of the keys that are under way.        *)
(*                                                                         *)
(* An asset stands for its key (host and path without the query); what a   *)
(* response refers to is given.  How a fetch joins requests of clients is  *)
(* AssetFetch's, when the foreground rests IdleGate's.                     *)
(***************************************************************************)
EXTENDS Integers, Sequences, FiniteSets

CONSTANTS Assets,      \* the keys that may be prefetched
          PrioOf,      \* getPrefetchPriority: 1, 2 or 3 for the rest
          Scripts,     \* responses with a path, which are searched once
          GameData,    \* responses of the API, which are searched each time
          RefsOf,      \* what extractAssetRefs and extractGameDataRefs find in each
          ChannelCap,  \* 128 in the code
          QueueCap,    \* 256
          SeenLimit,   \* 2000
          FlightLimit, \* 2000
          DeadCap,     \* the capacity of the dead filter
          NoAsset

VARIABLES discoveries, \* discoveryCh
          seen, seenPrev,
          searching, \* discoveryWorker: the references it has yet to dispatch
          inflight,  \* the keys that are queued or being fetched
          queue,     \* prio1Queue .. prio3Queue
          fetching,  \* fetchWorker
          dead,      \* the dead filter, most recent first, and what has expired in it
          cached,    \* the assets in the cache
          enabled,   \* EnablePrefetch
          quit       \* stopChan is closed

prefetchVars == <<discoveries, seen, seenPrev, searching, inflight, queue, fetching, dead, cached,
                  enabled, quit>>

Prios == 1 .. 3
Responses == Scripts \union GameData

\* The map's limit leaves room for what may be queued at a time (2000, three times 256).
ASSUME PrefetchAssumption ==
    /\ PrioOf \in [Assets -> Prios] /\ RefsOf \in [Responses -> SUBSET Assets]
    /\ QueueCap \in Nat /\ FlightLimit \in Nat /\ FlightLimit > 3 * QueueCap
    /\ NoAsset \notin Assets

Items(s) == {s[i] : i \in DOMAIN s}
Queued == UNION {Items(queue[p]) : p \in Prios}
Idle == [at |-> "first", asset |-> NoAsset]

PrefetchTypeOK ==
    /\ Items(discoveries) \subseteq Responses /\ Len(discoveries) <= ChannelCap
    /\ {seen, seenPrev} \subseteq SUBSET Scripts
    /\ searching \in [at : {"idle", "checked", "claimed", "over"}, todo : SUBSET Assets,
                      asset : Assets \union {NoAsset}]
    /\ inflight \subseteq Assets /\ Queued \subseteq Assets
    /\ \A p \in Prios : Len(queue[p]) <= QueueCap
    /\ fetching \in [at : {"first", "second", "third", "waiting", "checking", "fetching",
                           "pacing", "over"},
                     asset : Assets \union {NoAsset}]
    /\ Items(dead.list) \union dead.expired \subseteq Assets /\ Len(dead.list) <= DeadCap
    /\ cached \subseteq Assets /\ {enabled, quit} \subseteq BOOLEAN

PrefetchInit ==
    /\ discoveries = <<>> /\ seen = {} /\ seenPrev = {}
    /\ searching = [at |-> "idle", todo |-> {}, asset |-> NoAsset]
    /\ inflight = {} /\ queue = [p \in Prios |-> <<>>] /\ fetching = Idle
    /\ dead = [list |-> <<>>, expired |-> {}] /\ cached = {} /\ enabled = TRUE /\ quit = FALSE

-----------------------------------------------------------------------------
(* The dead filter: what answered 404 or 410 lately.                        *)
IsDead(a) == a \in Items(dead.list) \ dead.expired

\* Add: to the front; the last one leaves a full list.
Buried(a) ==
    LET rest == SelectSeq(dead.list, LAMBDA x : x # a)
        kept == IF a \notin Items(dead.list) /\ Len(rest) >= DeadCap
                THEN SubSeq(rest, 1, DeadCap - 1) ELSE rest
    IN [list |-> <<a>> \o kept, expired |-> (dead.expired \intersect Items(kept)) \ {a}]

Expire(a) ==
    /\ IsDead(a)
    /\ dead' = [dead EXCEPT !.expired = @ \union {a}]
    /\ UNCHANGED <<discoveries, seen, seenPrev, searching, inflight, queue, fetching, cached,
                   enabled, quit>>

-----------------------------------------------------------------------------
(* Responses are offered; nobody waits when the channel is full.                *)
Offered(r) == IF Len(discoveries) < ChannelCap THEN Append(discoveries, r) ELSE discoveries

\* MaybeEnqueueDiscovery: two generations of what was seen.
EnqueueDiscovery(r) ==
    /\ enabled /\ r \notin seen \union seenPrev
    /\ IF Cardinality(seen) > SeenLimit
          THEN seenPrev' = seen /\ seen' = {r}
          ELSE seen' = seen \union {r} /\ UNCHANGED seenPrev
    /\ discoveries' = Offered(r)
    /\ UNCHANGED <<searching, inflight, queue, fetching, dead, cached, enabled, quit>>

EnqueueGameData(r) ==
    /\ enabled /\ ~quit
    /\ discoveries' = Offered(r)
    /\ UNCHANGED <<seen, seenPrev, searching, inflight, queue, fetching, dead, cached, enabled,
                   quit>>

-----------------------------------------------------------------------------
(* discoveryWorker and dispatchDiscoveredRefs.                              *)
Search ==
    /\ searching.at = "idle" /\ searching.todo = {}
    /\ \/ /\ discoveries # <<>>
          /\ searching' = [searching EXCEPT !.todo = RefsOf[Head(discoveries)]]
          /\ discoveries' = Tail(discoveries)
       \/ /\ quit
          /\ searching' = [searching EXCEPT !.at = "over"]
          /\ UNCHANGED discoveries
    /\ UNCHANGED <<seen, seenPrev, inflight, queue, fetching, dead, cached, enabled, quit>>

\* A reference is skipped when it is in the cache or known to be dead.
CheckRef(a) ==
    /\ searching.at = "idle" /\ a \in searching.todo
    /\ searching' = IF a \in cached \/ IsDead(a)
                    THEN [searching EXCEPT !.todo = @ \ {a}]
                    ELSE [searching EXCEPT !.todo = @ \ {a}, !.at = "checked", !.asset = a]
    /\ UNCHANGED <<discoveries, seen, seenPrev, inflight, queue, fetching, dead, cached, enabled,
                   quit>>

\* A map that grew past its limit is thrown away.
Claimed(a) == IF Cardinality(inflight) > FlightLimit THEN {a} ELSE inflight \union {a}

ClaimRef ==
    /\ searching.at = "checked"
    /\ IF searching.asset \in inflight
          THEN /\ searching' = [searching EXCEPT !.at = "idle", !.asset = NoAsset]
               /\ UNCHANGED inflight
          ELSE /\ inflight' = Claimed(searching.asset)
               /\ searching' = [searching EXCEPT !.at = "claimed"]
    /\ UNCHANGED <<discoveries, seen, seenPrev, queue, fetching, dead, cached, enabled, quit>>

\* enqueueTask; a full queue drops the reference and gives its key back.
\* Faulty variant: the key of a dropped reference stays.
KeyKept(a) == inflight
Dropped(a) == inflight \ {a}

EnqueueRef ==
    LET a == searching.asset
        p == PrioOf[a]
    IN /\ searching.at = "claimed"
       /\ IF Len(queue[p]) < QueueCap
             THEN queue' = [queue EXCEPT ![p] = Append(@, a)] /\ UNCHANGED inflight
             ELSE inflight' = Dropped(a) /\ UNCHANGED queue
       /\ searching' = [searching EXCEPT !.at = "idle", !.asset = NoAsset]
       /\ UNCHANGED <<discoveries, seen, seenPrev, fetching, dead, cached, enabled, quit>>

-----------------------------------------------------------------------------
(* fetchWorker.  getNextTask: the first queue, then one of the first two,   *)
(* then whichever has something; the end whenever it sees stopChan closed.  *)
Visible == CASE fetching.at = "first" -> {1}
             [] fetching.at = "second" -> {1, 2}
             [] fetching.at = "third" -> Prios
             [] OTHER -> {}

TakeTask(p) ==
    /\ p \in Visible /\ queue[p] # <<>>
    /\ queue' = [queue EXCEPT ![p] = Tail(@)]
    /\ fetching' = [at |-> "waiting", asset |-> Head(queue[p])]
    /\ UNCHANGED <<discoveries, seen, seenPrev, searching, inflight, dead, cached, enabled, quit>>

LookFurther ==
    /\ fetching.at \in {"first", "second"} /\ ~quit
    /\ \A p \in Visible : queue[p] = <<>>
    /\ fetching' = [fetching EXCEPT !.at = IF @ = "first" THEN "second" ELSE "third"]
    /\ UNCHANGED <<discoveries, seen, seenPrev, searching, inflight, queue, dead, cached, enabled,
                   quit>>

EndFetching ==
    /\ Visible # {} /\ quit
    /\ fetching' = [fetching EXCEPT !.at = "over"]
    /\ UNCHANGED <<discoveries, seen, seenPrev, searching, inflight, queue, dead, cached, enabled,
                   quit>>

\* processFetchItem: the foreground rests, or stopChan is closed.
ForegroundIdle ==
    /\ fetching.at = "waiting"
    /\ \/ fetching' = [fetching EXCEPT !.at = "checking"]
       \/ quit /\ fetching' = [fetching EXCEPT !.at = "pacing"]
    /\ UNCHANGED <<discoveries, seen, seenPrev, searching, inflight, queue, dead, cached, enabled,
                   quit>>

\* Switched off, dead, cached, or being fetched by a client: nothing is done.
CheckTask ==
    /\ fetching.at = "checking"
    /\ \/ /\ enabled /\ ~IsDead(fetching.asset) /\ fetching.asset \notin cached
          /\ fetching' = [fetching EXCEPT !.at = "fetching"]
       \/ fetching' = [fetching EXCEPT !.at = "pacing"]
    /\ UNCHANGED <<discoveries, seen, seenPrev, searching, inflight, queue, dead, cached, enabled,
                   quit>>

Fetch ==
    /\ fetching.at = "fetching"
    /\ fetching' = [fetching EXCEPT !.at = "pacing"]
    /\ \/ cached' = cached \union {fetching.asset} /\ UNCHANGED dead
       \/ dead' = Buried(fetching.asset) /\ UNCHANGED cached
       \/ UNCHANGED <<dead, cached>>
    /\ UNCHANGED <<discoveries, seen, seenPrev, searching, inflight, queue, enabled, quit>>

\* removeInflight, after the pause.
FinishTask ==
    /\ fetching.at = "pacing"
    /\ inflight' = inflight \ {fetching.asset}
    /\ fetching' = Idle
    /\ UNCHANGED <<discoveries, seen, seenPrev, searching, queue, dead, cached, enabled, quit>>

-----------------------------------------------------------------------------
\* Clients fetch assets themselves, the cache loses some, the user switches
\* prefetching on and off, and the proxy stops.
CacheChanges(a) ==
    /\ cached' \in {cached \union {a}, cached \ {a}}
    /\ UNCHANGED <<discoveries, seen, seenPrev, searching, inflight, queue, fetching, dead, enabled,
                   quit>>

SwitchPrefetch ==
    /\ enabled' = ~enabled
    /\ UNCHANGED <<discoveries, seen, seenPrev, searching, inflight, queue, fetching, dead, cached,
                   quit>>

StopEngine ==
    /\ ~quit /\ quit' = TRUE
    /\ UNCHANGED <<discoveries, seen, seenPrev, searching, inflight, queue, fetching, dead, cached,
                   enabled>>

PrefetchNext ==
    \/ \E r \in Scripts : EnqueueDiscovery(r)
    \/ \E r \in GameData : EnqueueGameData(r)
    \/ Search \/ ClaimRef \/ EnqueueRef
    \/ \E p \in Prios : TakeTask(p)
    \/ LookFurther \/ EndFetching \/ ForegroundIdle \/ CheckTask \/ Fetch \/ FinishTask
    \/ \E a \in Assets : CheckRef(a) \/ Expire(a) \/ CacheChanges(a)
    \/ SwitchPrefetch \/ StopEngine

PrefetchSpec == PrefetchInit /\ [][PrefetchNext]_prefetchVars

-----------------------------------------------------------------------------
Current == (IF searching.at = "claimed" THEN {searching.asset} ELSE {})
           \union ({fetching.asset} \ {NoAsset})
Positions == {x \in Prios \X (1 .. QueueCap) : x[2] <= Len(queue[x[1]])}

\* The map holds exactly the keys that are queued, being fetched or about to be
\* queued, each of them once, although references are dropped at full queues and
\* fetches are skipped or fail: no key is stuck there, which would keep its asset
\* from ever being prefetched again, none is queued twice, and so the map never
\* grows to the limit at which it is thrown away with the keys under way.
InflightExact ==
    /\ inflight = Queued \union Current
    /\ Cardinality(inflight) = Cardinality(Positions) + Cardinality(Current)
    /\ Cardinality(inflight) <= 3 * QueueCap + 2
=============================================================================
