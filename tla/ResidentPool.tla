---------------------------- MODULE ResidentPool ----------------------------
(***************************************************************************)
(* The RAM Boost pool, the memory budget it shares with the segmented LRU  *)
(* cache, and the one prewarm run that fills it (engine/cache:             *)
(* resident_pool.go, ram_budget.go, boost.go), with what else changes      *)
(* them: stores, invalidations, the memory limit, and closing the pool.    *)
(*                                                                         *)
(* The budget counts bytes, and the pool holds the bytes; the two are kept *)
(* together by every step that reserves, releases, drops or resets.        *)
(*                                                                         *)
(* What is assumed: a directory has one file per pool key.  Tokens, files  *)
(* and the index are in CacheManager; here a token is only alive or not.   *)
(***************************************************************************)
EXTENDS SegmentedLRU

CONSTANTS PoolKeys,   \* names of cached files
          MaxSize,    \* their sizes are 1 .. MaxSize bytes
          Limits,     \* the memory limits a user may set
          MaxPoolGen, \* bound: how many pool generations begin
          None

ASSUME SizeAssumption == MaxSize \in Nat \ {0} /\ Limits \subseteq Nat \ {0}
ASSUME PoolAssumption == IsFiniteSet(PoolKeys) /\ None \notin PoolKeys
ASSUME PoolGenAssumption == MaxPoolGen \in Nat \ {0}

VARIABLES slru,      \* Manager.ramCache, a single shard
          total,     \* RAMBudget.totalBudget
          resident,  \* RAMBudget.residentBytes
          enabled,   \* ResidentPool.enabled
          gen,       \* ResidentPool.generation
          pool,      \* pool[k]: the size of the item in the pool, 0 for none
          run,       \* the prewarm run
          closing,   \* the user's handler that closes the pool
          limiting   \* the handler that changes the memory limit

budgetVars == <<slru, total, resident>>
poolVars == <<enabled, gen, pool>>
memoryVars == <<budgetVars, poolVars, run, closing, limiting>>

Sizes == 0 .. MaxSize

\* No prewarm run; a run is one of the cache tasks, of which there is one at a
\* time (tryBeginCacheTask).
NoRun == [at |-> "none", gen |-> 0, cancelled |-> FALSE, todo |-> [k \in PoolKeys |-> 0], key |-> None,
          held |-> 0, size |-> 0, live |-> FALSE]

Run == [at : {"none", "begun", "reset", "scan", "next", "read", "loaded", "commit"},
        gen : 0 .. MaxPoolGen, cancelled : BOOLEAN, todo : [PoolKeys -> Sizes],
        key : PoolKeys \cup {None}, held : Sizes, size : Sizes, live : BOOLEAN]

PoolTypeOK == /\ total \in Limits /\ resident \in Nat
          /\ enabled \in BOOLEAN /\ gen \in 1 .. MaxPoolGen
          /\ pool \in [PoolKeys -> Sizes]
          /\ run \in Run
          /\ closing \in {"no", "reset"}
          /\ limiting.at \in {"no", "close", "reset", "set"}

-----------------------------------------------------------------------------
(***************************************************************************)
(* RAMBudget.  Every operation ends by giving the LRU cache what the pool  *)
(* does not have (syncSLRULocked).                                         *)
(***************************************************************************)
Room(all, used) == IF used > all THEN 0 ELSE all - used

\* TryAcquireResident
Fits(bytes) == resident + slru.total + bytes <= total
Acquire(bytes) == /\ resident' = resident + bytes
                  /\ slru' = Resized(slru, Room(total, resident + bytes))

\* Faulty variants: a counter without its floor, and a release that leaves the
\* LRU cache as it is.
LeftBelow(bytes) == resident - bytes
ReleaseOnly(bytes) == resident' = resident - bytes /\ slru' = slru

\* ReleaseResident
Left(bytes) == Room(resident, bytes)
Release(bytes) == /\ resident' = Left(bytes)
                  /\ slru' = Resized(slru, Room(total, Left(bytes)))

\* ResetResident
Reset == resident' = 0 /\ slru' = Resized(slru, total)

-----------------------------------------------------------------------------
(***************************************************************************)
(* ResidentPool and the prewarm run.                                       *)
(***************************************************************************)

\* The pool was closed, or belongs to a later run.
Stopped == ~enabled \/ gen # run.gen

\* Faulty variant: a run that gives up keeps what it reserved.
KeepsReservation(bytes) == UNCHANGED budgetVars

\* ReleaseBudget: what a closed or restarted pool held was reset already.
ReleaseOfRun(bytes) ==
  IF Stopped THEN UNCHANGED budgetVars ELSE Release(bytes) /\ UNCHANGED total

\* handleCacheBoost starts the run.
Begin ==
  /\ run.at = "none"
  /\ gen < MaxPoolGen
  /\ run' = [NoRun EXCEPT !.at = "begun"]
  /\ UNCHANGED <<budgetVars, poolVars, closing, limiting>>

\* NextGeneration stops the workers of earlier generations.
TakeGeneration ==
  /\ run.at = "begun"
  /\ gen < MaxPoolGen
  /\ gen' = gen + 1
  /\ run' = [run EXCEPT !.at = "reset", !.gen = gen + 1]
  /\ UNCHANGED <<budgetVars, enabled, pool, closing, limiting>>

\* ResetForGen empties the pool and opens it, for this run.
ResetForGen ==
  /\ run.at = "reset"
  /\ gen' = run.gen
  /\ enabled' = TRUE
  /\ pool' = [k \in PoolKeys |-> 0]
  /\ Reset
  /\ run' = [run EXCEPT !.at = "scan"]
  /\ UNCHANGED <<total, closing, limiting>>

\* The first pass lists the files there are, and their sizes.
Scan(files) ==
  /\ run.at = "scan"
  /\ ~Stopped /\ ~run.cancelled
  /\ run' = [run EXCEPT !.at = "next", !.todo = files]
  /\ UNCHANGED <<budgetVars, poolVars, closing, limiting>>

\* The next file: its bytes are reserved before it is read.
Reserve(k) ==
  /\ run.at = "next" /\ run.todo[k] > 0
  /\ ~Stopped /\ ~run.cancelled
  /\ Fits(run.todo[k])
  /\ Acquire(run.todo[k])
  /\ run' = [run EXCEPT !.at = "read", !.todo[k] = 0, !.key = k,
                        !.held = run.todo[k], !.live = TRUE]
  /\ UNCHANGED <<total, poolVars, closing, limiting>>

\* The file is read and validated; it may have become another one, or be gone
\* or broken by now.
ReadFile(size) ==
  /\ run.at = "read"
  /\ \/ /\ ~Stopped
        /\ run' = [run EXCEPT !.at = "loaded", !.size = size]
        /\ UNCHANGED budgetVars
     \/ /\ ~Stopped
        /\ ReleaseOfRun(run.held)
        /\ run' = [run EXCEPT !.at = "next", !.held = 0]
     \/ /\ Stopped
        /\ run' = NoRun
        /\ UNCHANGED budgetVars
  /\ UNCHANGED <<poolVars, closing, limiting>>

\* The reservation is corrected to the bytes that were read.
Adjust ==
  /\ run.at = "loaded"
  /\ \/ /\ run.size <= run.held
        /\ ReleaseOfRun(run.held - run.size)
        /\ run' = [run EXCEPT !.at = "commit", !.held = run.size]
     \/ /\ run.size > run.held
        /\ ~Stopped /\ Fits(run.size - run.held)
        /\ Acquire(run.size - run.held)
        /\ run' = [run EXCEPT !.at = "commit", !.held = run.size]
        /\ UNCHANGED total
     \/ /\ run.size > run.held
        /\ Stopped \/ ~Fits(run.size - run.held)
        /\ ReleaseOfRun(run.held)
        /\ run' = NoRun
  /\ UNCHANGED <<poolVars, closing, limiting>>

\* SetWithGen under the token shard: the item enters the pool, unless its token
\* was revoked or the pool has gone on.
Commit ==
  /\ run.at = "commit"
  /\ \/ /\ run.live /\ ~Stopped
        /\ pool' = [pool EXCEPT ![run.key] = run.size]
        /\ run' = [run EXCEPT !.at = "next", !.held = 0]
        /\ UNCHANGED budgetVars
     \/ /\ ~run.live
        /\ ReleaseOfRun(run.size)
        /\ run' = [run EXCEPT !.at = "next", !.held = 0]
        /\ UNCHANGED pool
     \/ /\ run.live /\ Stopped
        /\ run' = NoRun
        /\ UNCHANGED <<budgetVars, pool>>
  /\ UNCHANGED <<enabled, gen, closing, limiting>>

\* The run ends: stopped, cancelled, out of budget, short of system memory, or
\* done.  The LRU cache gets what is left, once more.
End ==
  /\ run.at \in {"scan", "next"}
  /\ run' = NoRun
  /\ slru' = IF Stopped THEN slru ELSE Resized(slru, Room(total, resident))
  /\ UNCHANGED <<total, resident, poolVars, closing, limiting>>

-----------------------------------------------------------------------------
(***************************************************************************)
(* Everybody else.                                                         *)
(***************************************************************************)

\* ResidentPool.Delete: an open pool gives the bytes back.
Dropped(cache, k) ==
  /\ pool' = [pool EXCEPT ![k] = 0]
  /\ IF enabled /\ pool[k] > 0
       THEN /\ resident' = Left(pool[k])
            /\ slru' = Resized(cache, Room(total, Left(pool[k])))
       ELSE slru' = cache /\ UNCHANGED resident

\* saveRAMInternal puts the new payload into the LRU cache.
SaveRAM(k, size, protected) ==
  /\ Dropped(Stored(slru, k, size, protected), k)
  /\ UNCHANGED <<total, enabled, gen, run, closing, limiting>>

\* A read that missed fills the LRU cache again (GetWithNamespace).
Backfill(k, size) ==
  /\ slru' = Stored(slru, k, size, FALSE)
  /\ UNCHANGED <<total, resident, poolVars, run, closing, limiting>>

\* A read that finds the item in the LRU cache.
Hit(k) ==
  /\ Has(slru.prob \o slru.prot, k)
  /\ slru' = Touched(slru, k)
  /\ UNCHANGED <<total, resident, poolVars, run, closing, limiting>>

\* Invalidate drops both copies and revokes the token of a run
\* that is reading it.
Invalidate(k) ==
  /\ Dropped(Deleted(slru, k), k)
  /\ run' = IF run.key = k THEN [run EXCEPT !.live = FALSE] ELSE run
  /\ UNCHANGED <<total, enabled, gen, closing, limiting>>

\* ClearRAM
ClearRAM ==
  /\ slru.total > 0
  /\ slru' = Cleared(slru)
  /\ UNCHANGED <<total, resident, poolVars, run, closing, limiting>>

\* ResidentPool.Disable
Disable ==
  /\ gen < MaxPoolGen
  /\ gen' = gen + 1
  /\ enabled' = FALSE
  /\ pool' = [k \in PoolKeys |-> 0]
  /\ Reset

\* Manager.DisableBoost closes the pool, and then resets the budget again,
\* which is no longer under the pool's lock.  The handler of the user's request
\* has cancelled a run that is under way before.
DisableBoost ==
  /\ closing = "no"
  /\ Disable
  /\ closing' = "reset"
  /\ run' = [run EXCEPT !.cancelled = run.at # "none"]
  /\ UNCHANGED <<total, limiting>>
ResetBudget ==
  /\ closing = "reset"
  /\ Reset
  /\ closing' = "no"
  /\ UNCHANGED <<total, poolVars, run, limiting>>

\* SetRAMLimit: a limit below what the pool holds closes the pool first.
SetRAMLimit(bytes) ==
  /\ limiting.at = "no" /\ bytes # total
  /\ limiting' = [at |-> IF enabled /\ bytes < resident THEN "close" ELSE "set",
                  bytes |-> bytes]
  /\ UNCHANGED <<budgetVars, poolVars, run, closing>>
CloseForLimit ==
  /\ limiting.at = "close"
  /\ Disable
  /\ limiting' = [limiting EXCEPT !.at = "reset"]
  /\ UNCHANGED <<total, run, closing>>
ResetForLimit ==
  /\ limiting.at = "reset"
  /\ Reset
  /\ limiting' = [limiting EXCEPT !.at = "set"]
  /\ UNCHANGED <<total, poolVars, run, closing>>
SetTotalBudget ==
  /\ limiting.at = "set"
  /\ total' = limiting.bytes
  /\ slru' = Resized(slru, Room(limiting.bytes, resident))
  /\ limiting' = [at |-> "no", bytes |-> 0]
  /\ UNCHANGED <<resident, poolVars, run, closing>>

PoolInit ==
  /\ total \in Limits
  /\ slru = Empty(total)
  /\ resident = 0
  /\ enabled = FALSE /\ gen = 1
  /\ pool = [k \in PoolKeys |-> 0]
  /\ run = NoRun
  /\ closing = "no" /\ limiting = [at |-> "no", bytes |-> 0]

Prewarm == \/ Begin \/ TakeGeneration \/ ResetForGen
           \/ \E files \in [PoolKeys -> Sizes] : Scan(files)
           \/ \E k \in PoolKeys : Reserve(k)
           \/ \E size \in 1 .. MaxSize : ReadFile(size)
           \/ Adjust \/ Commit \/ End
Traffic == \/ \E k \in PoolKeys, size \in 1 .. MaxSize, protected \in BOOLEAN :
                SaveRAM(k, size, protected)
           \/ \E k \in PoolKeys, size \in 1 .. MaxSize : Backfill(k, size)
           \/ \E k \in PoolKeys : Hit(k) \/ Invalidate(k)
Control == \/ ClearRAM \/ DisableBoost \/ ResetBudget
           \/ \E bytes \in Limits : SetRAMLimit(bytes)
           \/ CloseForLimit \/ ResetForLimit \/ SetTotalBudget

PoolNext == Prewarm \/ Traffic \/ Control

PoolSpec == PoolInit /\ [][PoolNext]_memoryVars

-----------------------------------------------------------------------------
(***************************************************************************)
(* Properties.                                                             *)
(***************************************************************************)
\* A sum, by counting: the k-th of the numbers has f[k] units.
Sum(f) == Cardinality(UNION {{k} \X (1 .. f[k]) : k \in DOMAIN f})

\* What the pool holds, and what the run has reserved of the pool that is open.
InHand == IF Stopped THEN 0 ELSE run.held

\* The byte counters of the LRU cache are those of its lists, whatever mix of
\* promotions, demotions, evictions and resizes made them.
CountersExact == /\ slru.probBytes = Bytes(slru.prob)
                 /\ slru.protBytes = Bytes(slru.prot)
                 /\ slru.total = Used(slru)

\* A key is in the LRU cache once.
OneEntryPerKey ==
  LET all == slru.prob \o slru.prot
  IN \A i, j \in DOMAIN all : i # j => all[i].key # all[j].key

\* The LRU cache has the capacity that the pool leaves it, after any resets,
\* releases and changes of the limit, and keeps to it.
CapacityFollows == /\ slru.max = Room(total, resident)
                   /\ slru.max > 0 => slru.total <= slru.max

\* No bytes stay reserved that nobody holds: every path of a run that gives up
\* gives its reservation back, and no reset does it twice ("so no release is
\* performed", resident_pool.go).
NothingLeaks == resident <= Sum(pool) + InHand

\* Traffic that is seen once does not push out what is used: when a new key
\* enters the probationary list, the protected one stays as it is.  (An entry
\* larger than the protected share was stored as protected, and demoted.)
ScanResistant ==
  [][LET new == Head(slru'.prob)
     IN /\ slru'.prob # <<>>
        /\ ~Has(slru.prob \o slru.prot, new.key)
        /\ new.size <= ProtMax(slru.max)
        => slru'.prot = slru.prot]_memoryVars

\* What ram_budget.go promises: "actual_slru_bytes + resident_bytes <=
\* total_budget (converged invariant)", when no handler is half done.
WithinBudget ==
  run.at = "none" /\ closing = "no" /\ limiting.at = "no"
    => slru.total + Sum(pool) <= total
=============================================================================
