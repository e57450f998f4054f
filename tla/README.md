# GBF-Accelerator: models, model checking and proofs

This directory holds TLA+ models of the engine (`src/engine`, Go), the TLC
configurations that check them, and TLAPS proofs about them. The engine is a
local caching HTTP proxy for one game: it serves static assets from a disk and
RAM cache, fetches what is missing through an upstream proxy, prefetches what
it expects to be asked for, and is configured through a local web console.

## 1. The system

| Component | State it keeps | Operations | What makes it hard |
|---|---|---|---|
| operation tokens (`cache/breakdown.go`) | per shard: sequence number, map and ring of invalidations, `minValidSeq`; a generation | acquire, check, invalidate, clear | the ring is bounded and its slots are reused while operations run |
| cache manager (`cache/manager.go`, `boost.go`) | resident pool, SLRU, index of disk metadata, negative cache, files and `.ext` files, persist queue, switches | Get, Has, Save, streamed commit, Invalidate, ClearAll, SetCacheBase, switches, prewarm | reads take no lock while they read; every write-back must be refused when the key was invalidated meanwhile; crashes between two files |
| segmented LRU (`cache/lru.go`) | two lists per shard, byte counters | get, set, delete, resize | byte accounting at the limits |
| single flight (`cache/singleflight.go`) | call per key, waiter count | DoContext, Forget, Waiters | cancelled waiters, panics, a delete by key |
| resident pool and budget (`cache/resident_pool.go`, `ram_budget.go`) | items, generation, bytes | acquire, set, release, reset | acquire and release must match on every path |
| breakdown (`cache/breakdown.go`) | snapshots of the cache tree | scan, delete by category, delete old versions | verified deletion, long after the scan, while the cache is in use |
| validation (`cache/validator.go`, `confirm.go`) | none | verdicts on bytes | formats |
| asset serving (`proxy/proxy.go`) | request, flight, response | GET, HEAD, stream, fallback, retry | a leader streams to its own client inside the flight others wait for |
| failover (`proxy/failover.go`, `proxy.go`) | active route, failures, trial flag, timers | route, report, time out, configure | timers that fire while they are stopped; decisions applied late |
| dynamic API, plain proxy, tunnels (`proxy/proxy.go`) | connections | forward | mostly I/O |
| listener (`proxy/proxy.go`) | listener and its generation, tracked connections | start, reload, stop, accept | the socket is replaced while connections arrive, and the new one may fail |
| prefetch (`proxy/prefetch.go`) | discovery channel, three queues, in-flight map, dead filter | discover, enqueue, fetch, stop | a key claimed by one goroutine is freed by another, on every path |
| foreground gate, telemetry (`telemetry/telemetry.go`) | two counters, a channel | count, notify, wait | counters are read without the lock |
| control API (`control/control.go`, `breakdown_handlers.go`) | configuration, task flags | apply, clear, audit, prewarm, update | multi-step changes with rollback; tasks that outlive their handler |
| migration on macOS (`control/migrate_darwin.go`) | old, target, staging and set-aside directories | copy, set aside, place, commit, undo | every step may fail, its taking back too, and the program may die |
| updater (`updater/*.go`) | archive, program file, backup, helper process | download, verify, replace, start | two processes, crash between steps |
| configuration (`config/*.go`) | memory, snapshot, file | commit, update, load | memory changes before the file does |
| system proxy (`sysproxy/*.go`) | setting of the system, what was there before, a state file | enable, disable, clean up | others change the setting too; the program dies and is restarted |
| health (`health/*.go`) | none of its own | check, repair | a batch decides from a report that ages while it works |
| Android patcher (`control/control_patcher.go`, `patcher/*.go`) | jobs, uploads, tools | upload, patch, install, uninstall | three mutexes held for a moment only, work outside them |
| certificates, firewall, autostart, desktop, web console, Android shell | settings of the machine | wrappers | I/O, formats, user interface |

How they interact. The proxy asks the cache manager; on a miss it enters the
single flight with the prefetch workers as possible fellow callers; the leader
asks the failover manager for a route, fetches, saves to the cache manager or
streams to a temporary file that is committed. The cache manager guards every
write-back with an operation token. Prefetch and prewarm wait at the foreground
gate. The control API changes the configuration of all of them while they run,
under `applyMu`, and starts cache tasks that exclude each other by flags under
`cacheTaskMu`; the health repair holds `applyMu` and moves the same listener; the
tray starts and stops the proxy under neither.

`PROJECT.json` lists the components with their status, and under `hazards` the
places of the code that a test would hardly reach, each with the properties
that watch it.

## 2. The modules

| Module | Models | State and actions |
|---|---|---|
| `TokenPromise` | what a token promises, abstractly | a set of revoked tokens; `Acquire`, `Check`, `Revoke`, `Release` |
| `OpToken` | `breakdown.go:378-655` | `seq`, `invalidSeq`, `ring`, `ringPos`, `minValidSeq`, `generation`; `AcquireOpToken`, `CheckToken`, `BumpInvalidateToken`, `ClearTable` |
| `CacheManager` | the tiers of entries and every operation on them | `ram`, `resident`, `meta`, `missing`, `disk`, `ext`, `queue`, the shard locks, one record `op[a]` per goroutine; one action per critical section or file access: a lookup resolves its path (`GetLookup`, `HasLookup`, `BoostLookup`) and takes its token afterwards (`AcquireToken`) |
| `Breakdown` | scans, snapshots and the verified deletion of `breakdown.go` | `store` (stamps of files, metadata and directories), `mem`, downloads, the snapshot, one task; a step per file that is looked at, checked and removed; a read resolves its path (`Look`), loads with a token (`Load`) and writes back (`Backfill`) |
| `SingleFlight` | `singleflight.go` | `flight`, `outcome`, `done`, `waiters`; `Join`, `Lead`, `Return`, `Finish`, `Receive`, `Cancel`, `Leave`, `Forget` |
| `AssetFetch` | `serveStaticAssetCore`, `handleStaticAssetHeadMiss`, the follower fallback, a prefetch of the same asset | built on an instance of `SingleFlight`; one action per stage of a request |
| `Failover` | `failover.go` and `proxy.go:235-539` | manager, applied clients, a request and its watchdog timer; `Route`, `Watch`, `Pause`, `Resume`, `EndUpstream`, `Stop`, `Observe`, `ApplyRoute`, `TimerExpires`, `Fire`, `ObserveTimeout`, `UpdateClients`, ... |
| `IdleGate` | the foreground gate of `telemetry.go` | counters, channel, mutex; every load of a counter is a step |
| `SegmentedLRU` | one shard of `lru.go` | operators on a record: two lists, the byte counters kept beside them, the capacity |
| `ResidentPool` | `resident_pool.go`, `ram_budget.go`, the prewarm run of `boost.go`, `SetRAMLimit` | the LRU shard, the budget, the pool, one run, two handlers that close the pool or change the limit; a step per critical section |
| `CacheTasks` | the cache tasks of `control.go` and `breakdown_handlers.go` | flags, active task, cancel channel, the job of each task, the displayed summary, the pool's generation, requests that switch Boost off; `TryBegin`, `ShowStart`, `Work`, `Finish`, `CancelTask`, `CutBoost`, `ResetPool`, `StopServer`, ... |
| `ProxyListener` | `Start`, `ReloadListener`, `Stop`, the serve loop and `trackConn` of `proxy.go` | `sock`, `lgen`, the open sockets, one loop per generation, the connections; `StartProxy`, `ReloadListener`, `StopProxy`, `Accept`, `Track`, `AfterError`, ... |
| `HealthRepair` | `health/checker.go`, `health/repair.go` | extends `ProxyListener`: the state of the machine and one repair batch; an action per kind of repair |
| `SystemProxy` | `sysproxy/*.go` | operators on a record: the setting, the variables of the process, the state file |
| `ControlConfig` | the configuration requests of `control.go`, `config.go`, start and end of `main.go` | extends `SystemProxy`: memory and file, two ports, directory, autostart, one transaction with the step it is at, what `main` has still to set; `BeginApply`, `Save`, `ReloadProxy`, `CommitBack`, `SetPAC`, `PutBack`, `TrayStarts`, `Crash`, `Exit`, `Restart`, `FollowPAC`, ... |
| `Prefetch` | `prefetch.go` | discovery channel, `seen` and `seenPrev`, `inflight`, three queues, the dead filter, the two workers |
| `CacheMigration` | `migrate_darwin.go` | the directories as sets of files, the configuration, one migration with the step it is at; a step per move, each with its failure, and `DieAndRestart` |
| `SelfUpdate` | `updater/*.go` and the update handlers | download, parent, helper, program, backup and staged file; a step per file operation of the helper, `Halt` |
| `AndroidTools` | `control_patcher.go` and `patcher/*.go` | the jobs and the goroutines behind them, uploads, output, the tools and whether they are unpacked, the replacing of the module step by step (`EnsureModule`, then `CopyModule` or `FetchModule`) |
| `Tables_proofs` | | theorems about `OpToken`, and about `ResidentPool` with `SegmentedLRU` |
| `SingleFlight_proofs`, `Failover_proofs`, `CacheManager_proofs`, `Breakdown_proofs`, `AssetFetch_proofs` | | theorems about the module of that name |
| `Control_proofs` | | theorems about `CacheTasks`, `CacheMigration`, `ControlConfig` with `SystemProxy`, `SelfUpdate`, `AndroidTools` |
| `Proxy_proofs` | | theorems about `ProxyListener`, `HealthRepair`, `IdleGate`, `Prefetch` |
| `MC*` | | values for TLC. `MCTables`, `MCBreakdown`, `MCWaiting`, `MCServices` and `MCConsole` hold several systems that share no state: a behaviour is one of a single system, and the others rest in one initial state. `MCCachePair` takes the cache with both names in one directory or with one name in several, `MCConsole` of the Android tools the packages or the tools, one part in a behaviour |

Composition. `AssetFetch` instantiates `SingleFlight` and drives its actions;
`AssetFetch_proofs` instantiates `SingleFlight_proofs` in the same way and uses
its lemmas for them.
`OpToken` implements `TokenPromise` (checked and proved), and `CacheManager`
uses tokens only through that promise: a token is refused for ever once its key
was invalidated, and a live one may be refused only if the table forgets
(`MayForget`). A persistent task and a temporary file carry their token along.
`HealthRepair` takes the actions of `ProxyListener` as its repairs: the batch and
the tray act on the same listener. `ControlConfig` is built on the operators of
`SystemProxy`. `ResidentPool` runs `SegmentedLRU`. `Breakdown` relies on the
exclusion that `CacheTasks` proves.

Abstractions, and why they keep what matters:

* A payload stands for its bytes, its size and modification time and the ETag
  it came with. An item pairs bytes with the ETag they are served under, so that
  mixing two payloads is visible.
* The path of a name is the name. Names of two namespaces that share a file
  under `hosts/`, and the ownership checks that go with them, are not modelled
  (one namespace); neither is the quarantine of tampered scripts.
* The SLRU cache may drop an entry at any moment. The negative cache never
  overflows: forgetting a miss only repeats a lookup.
* `ResidentPool` has one LRU shard and one file per pool key; a change of the
  limit and a closing of the pool are one handler each. When the pool takes
  exactly the whole limit the LRU shard gets the capacity 0, which it reads as
  "no limit" (`lru.go:150-169`); `CapacityFollows` allows for it, and only
  `WithinBudget` speaks about the sum.
* A change of the cache directory does not overlap the start of a prewarm in
  `CacheManager`: both are cache tasks of the control API (`SwitchedAlone`). A
  health repair sets the directory without being one, to the directory already in
  use. A read overlaps it at every step: it may have the path from before and the
  token from after, and then writes a payload of the directory left behind into
  memory. `InvalidatedStaysGone` allows that (the history `stray`), up to the next
  invalidation of the key; `OldDirectoryLeft` is the statement without it.
* In `Breakdown` the identity of a file (size, time, `os.SameFile`) is a stamp,
  new for each file that is written; every file of the tree is one the program
  attributes to itself, and which category a path belongs to is given.
* In `Failover` a GET that is retried behaves as a request that was routed
  earlier, and requests other than GET and HEAD, which neither take a trial nor
  report, are left out. The cooldown and the elapsed times are choices.
* In `AssetFetch` the cache is a flag that says whether the asset is served from
  it; a HEAD request uses a flight of its own. Range requests and conditional
  answers are not modelled.
* In `CacheTasks` the work of a task is its outcome; a boost opens the pool, puts
  one item into it at a time and looks at the generation, as the worker does.
* Whether `net.Listen`, a rename, a write to the registry, a checksum, Java or
  the device succeeds is a choice at every call. `ControlConfig` counts its faults
  (`MaxFaults`); the others do not. Reading the setting of the system does not
  fail, and neither do reading and writing the state file beside it.
* Every call of `ControlConfig` that writes the setting or the entry may fail: in
  a configuration request, in the requests of the console that set them, when they
  are put back, when `main` follows what it loaded, and at the end of the program.
  The proxy is started and stopped from the tray between any two steps.
* In `ControlConfig` a listener moves to another port; that a rebinding of the
  same port may leave none is in `ProxyListener`. A failed `DisablePAC` with a
  change of the port leaves the old address with a warning only
  (`control.go:1307-1330`); that is told. What a property leaves out is a history
  variable of the model and named in the comment of the property:
  `AppliedTogether` leaves out a taking back or a start of `main` that failed, which
  was reported (`told`); for the port of the proxy a start from the tray on a port
  that was then taken back (`early`); for the address and the entry a request that
  came before `main` had set what it loaded (`overtaken`) and a crash.
  `TheirsGivenBack` leaves out an address that somebody set over ours, a crash and
  a last writing that failed (`spoiled`), and an address that was changed while the
  program remembered an earlier one, which an enabling that failed leaves behind
  (`stale`). The run `proxy_left` shows what a crash can do; the statements without
  the other unreported exceptions are `PortTakenBack`, `AddressConfigured` and
  `LatestGivenBack` (section 5).
* In `HealthRepair` a check is one step; items that nothing in the program
  changes are left out.
* In `CacheMigration` a directory is the set of its files or `Missing`, and what
  the walks make of a file is the set it belongs to (`Cached`, `Named`,
  `Residue`, `Own`).
* In `AndroidTools` a caller of `EnsureCanonicalModule` looks at the module, then
  downloads or copies another one, and then replaces whatever is in its place by
  then: emptying and writing, or removing and renaming. `ReportedIsThere` leaves the
  module out while that goes on and after it failed (`misplaced`), and everything
  after a removal (`torn`). A behaviour of the run patches packages or installs
  tools; in both the module is replaced, by requests and by the jobs there are. The proofs are
  about all of it together.
* Faulty variants of definitions (marked so) are used to see each property fail.

## 3. The runs

| Run | Instance and bounds | What it shows |
|---|---|---|
| `tables` | tokens: 3 keys in 2 shards, 2 operations, ring of 2, `MaxSeq` 5, `MaxGen` 2; or pool: 2 keys, sizes 1 and 2, limits 3 and 4, 3 generations | no revoked token is accepted, also after slots were reused and the table cleared, no live one refused inside the window, the promise is implemented; byte counters are exact, no reservation leaks, the LRU cache has what the pool leaves it, traffic seen once does not evict what is used |
| `cache_pair` | a name and its fallback alias in 1 directory, or one of them with 2 directories and changes between them; 1 payload, 1 client, 1 worker, queue of 1, a table that may forget, crashes (1,179,264 states) | nothing invalidated comes back, nor what was in a directory that was left, but for a path older and a token younger than the change; RAM and Boost stay off |
| `fetch` | a GET, a HEAD and a prefetch; everything may fail once | one response, one upstream request each, 502 only with a foreground cause, everyone answered |
| `waiting` | single flight: 3 goroutines, 2 keys, `Forget` on one, one outcome (nothing depends on which); or the gate: a dynamic and an asset request, 2 waiters | one execution, nobody stranded, no lost wakeup; every caller and every waiter returns |
| `failover_live` | 2 requests, limit 1, stalling clients | every trial is decided |
| `breakdown` | deletion: 3 files (one of a category, one each of two versions), 2 directories, 2 stamps, 2 generations; or a `hosts/` name with 2 payloads, 2 clients and a failing disk | a deletion removes only what its scan saw, nothing deleted comes back from memory, no directory goes from under a download, "completed" is true, a stale snapshot is refused; bytes and metadata of different payloads are never paired |
| `services` | listener: 2 ports, one of them also on all interfaces, 2 connections, 4 generations; health over the same; tasks: 2 tasks of 6 kinds, 1 disabler; prefetch: 3 assets, queues of 1, dead filter of 1; migration: one file of each sort, 2 migrations, 1 death; update: 2 downloads, 1 halt; upstreams: 2 requests, 5 settings (2,785,023 states) | tasks exclude each other; Boost switched off stays off; one listener; a stop cuts everybody; what repair reports as fixed serves; the in-flight map is exact; migration and self-update lose nothing; the trial flag is never leaked, the count stays below the limit, no activation of clients that are gone |
| `console` | configuration: 2 ports, 2 directories, 1 fault, 1 crash, 1 foreign change, 2 requests, the tray at any moment; or packages: 2 of them, 2 requests and 2 jobs; or tools: 2 installations of a plain component and an archive, 1 removal, 1 request that replaces the module (3,764,417 states) | configurations are applied as a whole or taken back, alone on the directory; a foreign PAC address is given back; what a job or an installation reports is there; no upload directory is forgotten |
| `cache_shadowed` | 1 name, 2 payloads, 2 clients | **violation**: a commit does not revoke the tokens of readers it overtakes; the old payload is put back into RAM, the pool, or hidden by a miss |
| `pool_budget` | the pool with 3 generations | **violation**: closing the pool resets the budget a second time, under a new prewarm |
| `proxy_left` | the configuration of `console`, without faults and foreign changes | **violation**: after a crash between the saving of a port and the PAC address, the next program takes the old address for somebody else's and puts it back at its end |
| `directory_left` | 1 name, 2 directories, 1 client | **violation**: a lookup with its path from before a change of directory and its token from after it brings the payload of the old directory into memory |

Why the bounds are enough. Two payloads are enough to mix up two; one payload is
enough for what must not come back, since an invalidated payload may return only
by being written again. Two actors (a client and a worker, or two clients) give
every pairwise race between a read, a write and a control operation; control
operations are atomic in the code (they hold the write side of `persistMu` or a
shard lock) and may come between any two steps. The ring of two slots wraps
several times within `MaxSeq`. Two requests are enough for a failover trial and
what overtakes it. A queue of one is full after one task.
Two sizes and limits of 3 and 4 make an item fit, not fit, and fit only after an
eviction; three generations are one prewarm with a closing on either side. Two
directories and one name give every change of directory under a lookup, a write
and a queued task; two names need one directory, and `CacheManager_proofs` has both
for any number of each.
Two stamps are a file and the newer one that replaces it; two generations of the
cache are the one a scan has seen and the one after a clear or a switch. Four
generations of the listener are a start, a move, a failed rebinding with its way
back, and a start after a stop. Two tasks are one and the one that begins after
it; two of the six kinds meet in every order. One fault and one crash in a
configuration are enough to take back every step once; a fault while taking back
needs a second one and is the case `AppliedTogether` excludes (it is reported).
The proofs have any number of them. Two jobs and two requests are one that works
and one that asks or reports late; one removal and two installations let a report
stand while something else comes.
Two transactions are one and another that starts from what it left. Queues and
filters of one are full at once, while three assets still wait. One file of each
sort is enough for a directory that may, must or must not be replaced, and two
migrations for one that finds what another left.

The `VIEW` of the cache runs leaves out a history that no action and none of the
run's properties reads; that of `breakdown`, `services` and `console` the parts that
rest. `breakdown` starts the deletion in one of its two directories, which are alike.

`SYMMETRY` is used in runs that check invariants and action properties, and in
`tables` a refinement whose variables the symmetric values do not occur in; in no
run with fairness.
`CHECK_DEADLOCK FALSE` is set where the system really stops: the requests of
`AssetFetch` are served once each; in `CacheManager` a run may end with no
operation possible for a client that has every answer in memory; the tables, the
tasks and services end when their bounds on what begins are used up.
`waiting` and `failover_live` check for deadlock.

Fairness. `SingleFlight`, `AssetFetch`: a goroutine that can take a step does,
and the fetched function ends, because every upstream client has a timeout of 45
seconds (`buildUpstreamClients`, `proxy.go:134-233`). A write to a client has no
deadline, so a client may stall for ever (`MayStall`) and the liveness
properties say "unless a client stopped reading". `Failover`: goroutines and
timer callbacks run; a request ends (strong fairness: its body may pause and
resume any number of times before). `IdleGate`: goroutines run, the Go mutex
does not starve a waiter, and a select over several ready channels chooses at
random, hence strong fairness of its stop branch; nothing is assumed about
requests ending, nor about requests that compete for the mutex. Nothing is assumed about operators, users or cancellation. The
services are checked for safety only: what they wait for (a user, a file, a
network, a device) has no deadline in the code.

## 4. The proofs

All theorems hold for every value of the constants under the `ASSUME`s of the
modules, which TLC evaluates in each run.

* `Tables_proofs`, one section for each table.
  *Tokens.* The inductive invariant `IndInv` relates map, ring and
  `minValidSeq`: every map entry is in the ring at its position, entries that
  left the ring are at most `minValidSeq`, and a revoked token is either at most
  `minValidSeq` or below the entry of its key. `RevokedNeverValid` alone is not
  inductive: reusing a slot removes the entry that refused a token, and only the
  relation to `minValidSeq` says that it is refused still. From it follow that
  refusal is final, that a token is exact within the window, that the map is
  bounded, and that the table implements `TokenPromise`.
  *Memory.* The bytes of a list are a recursive function over its positions, the
  sum over the pool is the cardinality of a set of units. What they need of
  induction is proved without an operator to instantiate, from the strict
  subsets of a finite set being well-founded (`MinimalSet`, `SmallestOf`,
  `EveryNumber`). On that rest the lemmas about lists (bytes and keys of a
  concatenation, `Cut`, `WithoutIs`, what popping down to a share keeps: `KeptIs`,
  `Popped`) and those about the operations of the shard: each leaves it `Sound`,
  that is with exact counters, every key once, within its capacity, and the
  protected list within its share. The inductive invariant `MemoryInv` adds that
  the capacity is what the pool leaves (`CacheOK`), what a run holds at each of its
  stages (`RunOK`), and `FreshOK`: a file that the run has still to read, or has
  at hand, is not in the pool yet, and a pool that is closed is empty. Without it
  `NothingLeaks` is not inductive: `Commit` writes the file's place, and what it
  wrote over would be reserved and in nobody's hands. `ScanResistant` holds of
  every operation of the shard by itself (`Resists`); that a store is followed by
  a growth of the capacity in one step is `ResistsWithMore`.
* `SingleFlight_proofs`. `IInv` adds to the properties who owns a call (`Owned`),
  that its outcome is stored before its channel is closed (`Stored`), who
  attends a waiter (`Attended`) and that the counter equals the followers while
  the call is open (`Counts`, by cardinalities of finite sets).
* `Failover_proofs`. The safety properties are proved together, as one invariant
  with the types: that a trial is still going to be reported needs to know what
  its request and its watchdog are doing, that only one request owns it, and that
  a manager that left the backup has ended its trial.
* `CacheManager_proofs`. `InvalidatedStaysGone` looks at tiers and files at rest;
  what makes it inductive is a bound on what is under way. A write or a queued
  task whose token is alive works on the directory in use, with a payload that is
  still legitimate there (`Fresh`, `FreshTask`); a read whose token is alive works
  there or in a directory that is recorded as one it strayed to (`stray`, set by
  `AcquireToken` where path and token differ), with a payload legitimate there; an operation that has
  renamed its file holds the shard lock until its metadata are written, so no
  invalidation of its key fits between the two (`Locked`); and a name and the
  alias it is read through share one token key (`CanonAssumption`). A payload is
  legitimate for a key from the moment it is handed to the cache (a save, or a
  download that starts) until an invalidation of the key, a clear or, for the
  directory left behind, for good. `SwitchesHold` proves that the off switches
  hold against whatever was under way.
  `PairsAlwaysAgree` proves `SharedPairsAgree` of names under `hosts/` while the
  process lives. Its invariant (`Together`) follows the pair from the file to the
  answer: a file and its `.ext` belong together unless somebody holds the shard
  lock of the name (`FilesPaired`), who is just going to write the metadata
  (`LocksHeld`) of a file that is still there or was damaged (`WrittenThere`);
  what an operation has read under that lock belongs together (`PairRead`). A
  name under `hosts/` has no alias, so that its lock is its own (`SharedAlone`).
* `Breakdown_proofs`. Everything rests on stamps, which stand for the identity of
  a file: the one that a download will give its file is nobody's yet
  (`StampsOK`), and a payload is in one directory only and nowhere once a task has
  deleted it (`StampsUnique`), nor in memory or in the hands of a reader
  (`MemoryOK`), whatever directory the reader's path is of. A download whose token is valid works in the directory in use,
  whose files it holds (`WriterOK`). Between the steps of a task the file whose
  locks it holds is still the recorded one or gone (`Locked`), what it has done
  with is not the recorded one any more (`Processed`), and neither the snapshot
  nor the scan that makes the next one lists what was deleted (`Remembered`).
  Five properties follow; `TasksSpareNewer` is the action property that a task
  removes nothing but what it had seen.
* `AssetFetch_proofs`. A request is at a place of its handler and, within it, at a
  place of `DoContext`; `Placed` says which pairs there are. The invariant of
  `SingleFlight_proofs` is a part of this one, through the instance; added is
  what the two make of each other: callers of one call asked for the same key
  (`Agreed`); what a flight may hand over, above all that an error comes from a
  client (`Told`); that a client has a response when its streaming has begun or
  it is done, and then one (`Written`); and that a request which has sent its
  upstream request comes to an end with what it gave (`Spent`). The last is the
  one that `OneUpstreamEach` needs: a leader must not find a "nothing" that is its
  own and fall back to a second request.
* `Control_proofs`, one section for each module.
  *Tasks.* `OneTask` counts the running tasks; inductive is that the task that has
  not finished is the one `activeTaskID` names (`Exclusive`), so that a late
  `finishCacheTask` cannot clear the flags of another. That Boost stays off needs
  that the channel in place is the one of the active task or closed (`Reachable`)
  and that the handler closes it before it closes the pool (`ClosedFirst`): a
  boost that opens the pool later looks at its channel first.
  *Migration.* `NothingLost` speaks about every moment; the proof says for each
  stage where the old files are: in the target (`Untouched`), in the target or
  aside (`Somewhere`), all aside (`AllAside`); that what stays aside while
  something takes its place are assets only (`OnlyAssetsAside`), which is why the
  directory is looked at a second time after its renaming; and what the saved
  configuration implies (`Committed`, `AtRest`).
  *Configuration.* `AppliedTogether` looks at the moments without a transaction.
  In between, the transaction explains every difference: for each stage of it and
  each thing that follows the configuration (the file, the two listeners, the
  directory, the entry of the system, the address) the invariant names the
  settings, old or new, that this thing is at (`KindOfStage`, `MemoryAndFile`,
  `ProxyAt`, `ControlAt`, `EntryAt`, `AddressAt`). What `main` still has to set is
  what the configuration says, unless a request overtook it (`BootAt`); it counts as
  set for the entry (`EntryOf`), and until then the process need not know an
  address that its predecessor left (`AddressAt`). `TheirsGivenBack`
  needs that an address of ours in the system is one this process knows and that
  what it remembers is never ours (`OursKnown`, `OthersKept`); until somebody
  interferes the PAC state is one of two, `Untaken`, where a failed enabling may
  have left the address of somebody else in the memory, or `Taken`. That a switch of the directory is alone is
  `ClaimHeld`.
  *Update.* Where the helper stands says where the old and the new program are
  (`OldInPlace`, `NewStaged`, `OldAside`, `NewInPlace`) and that it starts one only
  at the end (`StartedLast`); `LeftOver` is what a helper that gave up leaves.
  *Android.* `running` stands for one job, the last, or for one request that may
  begin one (`OneJob`); `Made` follows the output of that job from its bundling to
  the result that is shown, `Installed` the components that an installation has
  behind it, each of them `Standing`: there, or the module while whoever holds
  `canonicalModuleMu` replaces it and after that failed. The holder is a request or
  a job that waits for it (`HolderWaits`). `UploadsAccounted` needs that the
  directory of the upload under way is on the disk and not registered yet
  (`UploadIInv`).
* `Proxy_proofs`, likewise.
  *Listener.* `OneListener` needs that a running proxy knows the socket it must
  close (`HasSocket`). `StopCutsAll` needs the moment at which a connection becomes
  tracked, which is under `s.mu` and only while the proxy runs: a proxy that has
  stopped has taken all it tracked (`RestsCut`).
  *Repair.* The listener's invariant holds under the repairs, because they are its
  actions. `FixedPlaneServes` needs what a batch still has to do: no check finds
  the code of the endpoint, so that its reload never follows a repair of the plane
  (`EndpointAlone`), and a stopped proxy is started by one item (`StoppedFound`).
  All three speak of batches without the tray in between, as the property does.
  *Gate.* `NoLostWakeup` needs that the counters are exactly the numbers of
  requests being served (`Exact`): then a load above zero witnesses a request that
  still has to leave and will look again.
  *Prefetch.* `InflightExact` needs that a key under way is at one place, one
  position of one queue or with one worker (`OnePlace`). That the map never
  grows over its limit, where the code replaces it by an empty one and forgets
  what is under way (`prefetch.go:635`), is a bijection between the keys that are
  queued and the positions they sit at.

Assumptions on constants. They name what the code fixes: placeholders for "none"
are none of the values (`AddrAssumption`, `NoTxAssumption`, `PlaceholderAssumption`,
`OutcomeAssumption`, `MissingAssumption`, `FileAssumption`), bounds and ring sizes
are numbers, limits of the memory are positive (`SizeAssumption`), goroutines and
the files of the pool are finitely many (`PoolAssumption`). Those with a content are:
`AddressAssumption`, the address of somebody else is not one of ours;
`SettingsAssumption`, either switch may be set whatever the rest of a
configuration is; `PrefetchAssumption`, the map's limit is above what the three
queues hold (2000 and three times 256 in `prefetch.go`); `ProxiesAssumption`, a
download tries at least one way; `ComponentsAssumption`, the two components that
patching uses are plain files; `AliasAssumption` and `CanonAssumption`, a name and
its alias fall back to each other and no other two names share a token key, and
a name under `hosts/` has no alias.

What the proofs corrected in the models. Two attempts failed because a model
allowed too much, and TLC had not seen it. `EnterDir` of `Breakdown` could be
taken by a live slim, whose walk is another loop. `ControlConfig` set the
directory and reloaded the control server also where the transaction changes
neither, which the code leaves out (`control.go` compares first): a second fault
could then undo what was never done, and the runs have one. `ConfigIInv` was
checked by TLC with two faults before it was proved, as the other inductive
invariants were with the bounds of their runs. The two sums of the memory were
folds before; as a recursive function and as a cardinality they mean the same and
can be reasoned about.

Only model-checked:

* liveness and every statement about `ENABLED`: `waiting`, `fetch` and
  `failover_live` check it; the installed provers do not reason about fairness;
* the violations, which are counterexamples. One of them, `WithinBudget`, is the
  bound that the exact counters do not give: the pool and the shard each keep to
  their share, but a share of 0 is read as "no limit".

The library's induction theorems take an operator as a parameter, which the
installed provers cannot instantiate; where a proof needs induction it is stated
about sets of numbers, as in `Tables_proofs`. No module with a theorem declares a
`RECURSIVE` operator or reaches one. Every invariant of the passing runs is stated
by a theorem.

## 5. What the models found

Four disagreements are kept as runs that expect a violation; `findings` in
`PROJECT.json` quotes the lines. In the cache, `cache_shadowed` and
`directory_left`: a read that overlaps a commit, or a change of the directory, puts
back what it found before. In the memory, `pool_budget`: a budget that is reset
twice. At the end of the program, `proxy_left`: an address that a crash left is
taken for somebody else's. TLC also contradicts the following statements, which are
defined in the modules and in no configuration:

* `ControlConfig.PortTakenBack` ("proxy is unexpectedly still listening on port %d
  after rollback", `control_test.go:817`): a request moves both ports of a stopped
  proxy and the console cannot be moved (`control.go:1275`). The proxy is started
  from the tray, which takes no lock of the configuration (`main.go:41-43`), before
  the old configuration is back in memory (1280), and stays on the port that was
  taken back, with nothing reported.
* `ControlConfig.AddressConfigured` ("the port read, the system side effect and the
  commit must be one unit", `control.go:2502`): the console already answers when
  `main` sets the address that it loaded (`main.go:337`); a request in between that
  moved the port or switched the PAC off is overwritten.
* `ControlConfig.LatestGivenBack` ("CleanupOnExit safely restores system proxy
  settings", `sysproxy.go:154`): an enabling that fails keeps the address it found
  (`sysproxy_windows.go:53-55`). The user changes his address, a later enabling
  succeeds without looking again, and a proper end writes the older one back.
* `AndroidTools.PlacedAtomically` ("atomically places it into toolsDir",
  `components.go:967-968`): the module is removed before the download takes its name
  (1024-1026), under an installation that put a good one there and was shown as done.
* `AndroidTools.DoneIsSetUp` ("downloads, validates, and sets up all components",
  `components.go:1087`): an archive whose checksum matches is skipped with its
  unpacking (426), also when an unpacking failed before.
* `ProxyListener.StoppedServesNobody` ("Stop must terminate already-accepted
  client connections too", `proxy.go:828`): after a reload that could bind
  neither address `running` is false, so `Stop` returns early (`proxy.go:805`)
  and leaves what was accepted before.
* `CacheTasks.DisabledIsEmpty`: between the handler's look at the flags and its
  closing of the pool another boost can begin; its pool stays filled while the
  console shows Boost as disabled.
* `Failover.CountedOnce`: a watchdog that fires while its request stops it counts
  the request a second time; the backup only comes earlier.

Read in the code while modelling, and kept in the models as they are: a failed
`ReloadListener` of the endpoint repair is dropped (`repair.go:642`), so
`FixedPlaneServes` speaks only of batches without a failed item; the search for
what a dead migration left (`migrate_darwin.go:567-616`) is called by tests only;
a file that the user puts into the new directory between the renaming and a
failing commit is removed with it; uninstalling the tools releases its lock
before it removes them (`control_patcher.go:1506-1518`).

## 6. Not modelled

* Certificates (`cert`): cryptography and the stores of the system. The console,
  windows and menus (`web`, `desktop`, `ui`), logging and statistics: they show
  state and keep none. The Android application is a shell around the same engine.
* Byte formats and their validation, HTTP headers, range and conditional answers,
  the body copying of dynamic requests and tunnels, the regular expressions of
  the discovery, the rules that put a path into a category, the release query,
  the generated PAC script, the formats of packages, the dialogue with adb: pure
  functions or I/O, whose outcomes the models choose.
* In the cache manager: `GetMetadata`, `VerifyAndGetMetadata`, `OpenDiskStream`,
  `GetFallback`, `Warmup`, `AuditAndRepair`, the registry of temporary-file
  tokens, names of two namespaces that share a file.

## 7. Plan

Done, in this order: tokens, single flight, the core of the cache manager, asset
serving, failover, the gate, the pool with its budget and the LRU shard; then the
deletion of the breakdown, the cache tasks, the listener, health repair, the
configuration with the PAC address, prefetch, migration, self-update, the Android
tools. Left, the most important first:

1. Proofs: `WithinBudget` as it does hold, for a pool that does not take the whole
   limit; the histories behind the other finding runs.
2. `CacheManager`: the reads and repairs named above, and the pairing of payload
   and metadata of `hosts/` names across a restart.
3. Statements that wait for a run: that an item outside `hosts/` is served with
   its own metadata (payload and `.ext` are read one after the other without a
   lock), that one GET of two fetches upstream when nothing fails (the lookup
   before `DoContext` is not repeated), that a trial is ended only by its own
   request (settings applied during a trial), that nothing uses the backup once
   failover is disabled (late activation), that budget is released only once, that the Android tools are not removed
   while a job patches with them.
4. The services composed with each other: a configuration request on the listener
   of `ProxyListener`, with a repair waiting for `applyMu`.
