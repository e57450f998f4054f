---------------------------- MODULE CacheManager ----------------------------
(***************************************************************************)
(* The cache manager of engine/cache/manager.go: one entry seen through    *)
(* its tiers (resident pool, RAM, index of verified metadata, negative     *)
(* cache, disk file and its .ext metadata file), read, written and         *)
(* invalidated by concurrent operations that each take several steps.      *)
(*                                                                         *)
(* A payload is a member of Contents and stands for its bytes, its size    *)
(* and modification time, and the ETag it was fetched with; an item pairs  *)
(* the bytes with the ETag they are served under.  A metadata record pairs *)
(* the file identity it vouches for with the ETag it gives that file.      *)
(*                                                                         *)
(* A token is what TokenPromise says of it: it dies when its key is        *)
(* invalidated, and a live one may be refused only if the table forgets.   *)
(***************************************************************************)
EXTENDS Integers, Sequences, FiniteSets

CONSTANTS Names,     \* clean keys
          Alt,       \* Alt[n]: gbfFallbackCleanKey(n), or NoName
          Canon,     \* Canon[n]: canonicalTokenKey(n)
          Shared,    \* names under hosts/, whose file is read under the lock
          Contents,  \* payloads
          Bases,     \* cache directories
          Clients,   \* goroutines that call the manager
          Workers,   \* persist workers (4 in the code)
          QueueCap,  \* capacity of persistQueue (1024 in the code)
          MayForget, \* whether the token table may refuse a live token
          DiskFails, \* whether writing or renaming a file may fail
          RepairModes, \* the settings of auto_repair to start with
          NoName, None, Corrupt

ASSUME NameAssumption == /\ NoName \notin Names
                         /\ Alt \in [Names -> Names \cup {NoName}]
                         /\ DOMAIN Canon = Names
                         /\ Shared \subseteq Names
ASSUME AliasAssumption == \A n \in Names : Alt[n] # NoName =>
                            /\ Alt[Alt[n]] = n
                            /\ Canon[Alt[n]] = Canon[n]
                            /\ n \notin Shared
\* Two names have the same token key only if they fall back to each other.
ASSUME CanonAssumption ==
  \A m, n \in Names : Canon[m] = Canon[n] => m = n \/ m = Alt[n]
ASSUME PayloadAssumption == {None, Corrupt} \cap Contents = {} /\ None # Corrupt
ASSUME ActorAssumption == None \notin Clients \cup Workers
ASSUME ModeAssumption == /\ {MayForget, DiskFails} \subseteq BOOLEAN
                         /\ RepairModes \subseteq BOOLEAN
ASSUME QueueAssumption == QueueCap \in Nat \ {0}

VARIABLES base,        \* Manager.cacheBase
          ramEnabled,  \* Manager.ramEnabled
          autoRepair,  \* Manager.autoRepair
          disk,        \* disk[b][n] : the payload file of n under base b
          ext,         \* ext[b][n]  : its .ext file
          meta,        \* meta[n]    : the in-memory index of verified metadata
          missing,     \* names in the negative cache
          ram,         \* ram[n]     : the item in the SLRU cache
          resident,    \* resident[n]: the item in the resident pool
          boost,       \* the resident pool is enabled
          queue,       \* persistQueue
          lock,        \* lock[k] : who holds the token shard mutex of key k
          op,          \* op[a]   : what actor a is doing
          legit,       \* history: payloads handed to the cache for a key
                       \* since its entry was last removed
          latest,      \* history: the payload written last under a name
          stray        \* history: stray[k]: directories left behind that
                       \* operations on key k have gone to with a new token

tierVars == <<disk, ext, meta, missing, ram, resident>>
modeVars == <<base, ramEnabled, autoRepair, boost>>
histVars == <<legit, latest, stray>>
vars == <<tierVars, modeVars, queue, lock, op, histVars>>

Actors == Clients \cup Workers
CacheKeys == {Canon[n] : n \in Names}
NoItem == [data |-> None, etag |-> None]
Items == [data : Contents, etag : Contents] \cup {NoItem}
Item(c, e) == [data |-> c, etag |-> e]

Steps == {"idle", "lookup", "stat", "open", "ext", "judge", "index", "found", "failed", "queue",
          "persist", "rename", "fill", "temp", "written"}
Kinds == {"none", "get", "boost", "has", "save", "temp"}

\* name: the key asked for; file: the key whose file is being read;
\* live: the token is not revoked; pool: the boost run was not stopped;
\* verified: the metadata vouch for the bytes (extVerified); unindexed: the
\* index does not know them (needsIndexSave).
Op == [at : Steps, kind : Kinds, name : Names \cup {NoName},
       file : Names \cup {NoName}, dir : Bases, live : BOOLEAN, pool : BOOLEAN,
       data : Contents \cup {None, Corrupt}, etag : Contents \cup {None},
       verified : BOOLEAN, unindexed : BOOLEAN]
Idle == [at |-> "idle", kind |-> "none", name |-> NoName, file |-> NoName,
         dir |-> CHOOSE b \in Bases : TRUE, live |-> FALSE, pool |-> FALSE,
         data |-> None, etag |-> None, verified |-> FALSE,
         unindexed |-> FALSE]
Task == [name : Names, dir : Bases, live : BOOLEAN, data : Contents]

TypeOK == /\ base \in Bases /\ ramEnabled \in BOOLEAN /\ boost \in BOOLEAN
          /\ autoRepair \in BOOLEAN
          /\ disk \in [Bases -> [Names -> Contents \cup {None, Corrupt}]]
          /\ ext \in [Bases -> [Names -> Items]]
          /\ meta \in [Names -> Items]
          /\ missing \subseteq Names
          /\ ram \in [Names -> Items] /\ resident \in [Names -> Items]
          /\ queue \in Seq(Task) /\ Len(queue) <= QueueCap
          /\ lock \in [CacheKeys -> Actors \cup {None}]
          /\ op \in [Actors -> Op]
          /\ legit \in [Bases -> [CacheKeys -> SUBSET Contents]]
          /\ latest \in [Names -> Contents \cup {None}]
          /\ stray \in [CacheKeys -> SUBSET Bases]

Becomes(a, o) == op' = [op EXCEPT ![a] = o]
Free(n) == lock[Canon[n]] = None
Start(kind, at, n) ==
  [Idle EXCEPT !.at = at, !.kind = kind, !.name = n, !.file = n, !.dir = base,
               !.live = TRUE, !.pool = TRUE]

\* The load of operation o ended: with an item, or with an error.
Succeeds(o) == [o EXCEPT !.at = "found", !.verified = FALSE, !.unindexed = FALSE]
Fails(o) == [Succeeds(o) EXCEPT !.at = "failed", !.data = None, !.etag = None]

\* Whether the token of operation o may be found valid, or refused.
Accepts(o) == o.live
Refuses(o) == ~o.live \/ MayForget

-----------------------------------------------------------------------------
(***************************************************************************)
(* Reading.                                                                *)
(***************************************************************************)

\* A lookup that has the path of its file, and no token yet.
Lookup(kind, n) == [Start(kind, "lookup", n) EXCEPT !.live = FALSE]

\* Nothing in memory answers for n, the negative cache included.
NotInMemory(n) == /\ ~(boost /\ resident[n] # NoItem)
                  /\ ~(ramEnabled /\ ram[n] # NoItem)
                  /\ n \notin missing

\* GetWithNamespace up to the resolving of the path.  A hit, or a name in the
\* negative cache, changes nothing here.
GetLookup(a, n) ==
  /\ op[a] = Idle
  /\ NotInMemory(n)
  /\ Becomes(a, Lookup("get", n))
  /\ UNCHANGED <<tierVars, modeVars, queue, lock, histVars>>

\* HasCacheWithNamespace likewise.
HasLookup(a, n) ==
  /\ op[a] = Idle
  /\ NotInMemory(n)
  /\ Becomes(a, Lookup("has", n))
  /\ UNCHANGED <<tierVars, modeVars, queue, lock, histVars>>

\* PrewarmBoostPoolWithProgress takes the next candidate file, under the path
\* that its scan has found, after a look at the generation of the pool.
BoostLookup(a, n) ==
  /\ op[a] = Idle
  /\ boost
  /\ disk[base][n] # None
  /\ resident[n].data # disk[base][n]
  /\ Becomes(a, Lookup("boost", n))
  /\ UNCHANGED <<tierVars, modeVars, queue, lock, histVars>>

\* acquireOpToken: a token of the generation that there is now, whatever
\* directory the path was resolved in.
AcquireToken(a) ==
  LET o == op[a]
      k == Canon[o.name]
  IN /\ o.at = "lookup"
     /\ Free(o.name)
     /\ Becomes(a, [o EXCEPT !.at = IF o.kind = "has" THEN "stat" ELSE "open",
                             !.live = TRUE])
     /\ stray' = [stray EXCEPT ![k] = IF o.dir = base THEN @ ELSE @ \cup {o.dir}]
     /\ UNCHANGED <<tierVars, modeVars, queue, lock, legit, latest>>

\* Faulty variant: a hosts/ file is read without the lock.
ReadsUnlocked(n) == TRUE

\* When the file of n may be opened: a hosts/ name takes the shard lock.
MayRead(n) == n \in Shared => Free(n)

\* A file without .ext gets an ETag made from its own size and time.
OwnEtag(c) == IF c \in Contents THEN c ELSE None

\* loadAndValidateDiskItemWithToken opens and reads the payload file.  A name
\* under hosts/ reads the file and its .ext under the shard lock; any other
\* name takes no lock and looks at the metadata afterwards.
LoadFile(a) ==
  LET o == op[a]
      c == disk[o.dir][o.file]
      e == ext[o.dir][o.file]
  IN /\ o.at = "open" /\ o.kind \in {"get", "boost"}
     /\ MayRead(o.file)
     /\ IF c = None
          THEN /\ meta' = [meta EXCEPT ![o.file] = NoItem]
               /\ Becomes(a, Fails(o))
          ELSE /\ Becomes(a,
                    IF o.file \in Shared
                      THEN [o EXCEPT !.at = "judge", !.data = c,
                              !.etag = IF e = NoItem THEN OwnEtag(c) ELSE e.etag,
                              !.verified = (e.data = c),
                              !.unindexed = (meta[o.file].data # c)]
                      ELSE [o EXCEPT !.at = "ext", !.data = c])
               /\ UNCHANGED meta
     /\ UNCHANGED <<disk, ext, missing, ram, resident, modeVars, queue, lock, histVars>>

\* The rest of the metadata for an unlocked name: the index if it vouches for
\* the bytes that were read, else the .ext file as it is by now.  The ETag of
\* a .ext that vouches for other bytes is used all the same.
LoadMetadata(a) ==
  LET o == op[a]
      known == IF meta[o.file].data = o.data THEN meta[o.file]
                                             ELSE ext[o.dir][o.file]
  IN /\ o.at = "ext"
     /\ Becomes(a, [o EXCEPT !.at = "judge",
                      !.etag = IF known # NoItem THEN known.etag
                                                 ELSE OwnEtag(o.data),
                      !.verified = (known.data = o.data),
                      !.unindexed = (meta[o.file].data # o.data)])
     /\ UNCHANGED <<tierVars, modeVars, queue, lock, histVars>>

\* IsValidCacheContent on the bytes that were read.  Invalid ones are dropped
\* from the index and, with autoRepair, the file is removed: whatever file has
\* that path by now, and without asking the token.
JudgeContent(a) ==
  LET o == op[a]
  IN /\ o.at = "judge"
     /\ IF o.data = Corrupt
          THEN /\ meta' = [meta EXCEPT ![o.file] = NoItem]
               /\ IF autoRepair
                    THEN /\ disk' = [disk EXCEPT ![o.dir][o.file] = None]
                         /\ ext' = [ext EXCEPT ![o.dir][o.file] = NoItem]
                         /\ resident' = [resident EXCEPT ![o.file] = NoItem]
                    ELSE UNCHANGED <<disk, ext, resident>>
               /\ Becomes(a, Fails(o))
          ELSE /\ Becomes(a, [o EXCEPT !.at = "index"])
               /\ UNCHANGED <<disk, ext, meta, resident>>
     /\ UNCHANGED <<missing, ram, modeVars, queue, lock, histVars>>

\* The index, and the .ext file if it does not vouch for these bytes yet, are
\* written under the shard lock if the token still holds.  A hosts/ name
\* first makes sure that the file is still the one it read.
IndexFile(a) ==
  LET o == op[a]
      record == Item(o.data, o.etag)
  IN /\ o.at = "index"
     /\ Free(o.file)
     /\ \/ /\ Accepts(o)
           /\ o.unindexed \/ ~o.verified
           /\ IF o.file \in Shared /\ disk[o.dir][o.file] # o.data
                THEN /\ meta' = [meta EXCEPT ![o.file] = NoItem]
                     /\ Becomes(a, Fails(o))
                     /\ UNCHANGED ext
                ELSE /\ meta' = [meta EXCEPT ![o.file] = record]
                     /\ ext' = IF o.verified THEN ext
                               ELSE [ext EXCEPT ![o.dir][o.file] = record]
                     /\ Becomes(a, Succeeds(o))
        \/ /\ Refuses(o) \/ (~o.unindexed /\ o.verified)
           /\ Becomes(a, Succeeds(o))
           /\ UNCHANGED <<meta, ext>>
     /\ UNCHANGED <<disk, missing, ram, resident, modeVars, queue, lock, histVars>>

\* Faulty variants of the write-backs below: ones that forget the token, the
\* RAM switch or the boost run.
BackfillAnyway(o) == TRUE
RAMAlways == TRUE
PoolAlways(o) == TRUE

\* The write-back of a loaded item into RAM, under the shard lock.
MayBackfill(o) == Accepts(o)
RAMAdmits == ramEnabled

\* SetWithGen: the pool is enabled and still in the generation of the run.
PoolAccepts(o) == o.pool /\ boost

\* The end of GetWithNamespace: backfill RAM, and the index of an alias that
\* was served from its fallback file, if the token still holds.
GetFinish(a) ==
  LET o == op[a]
  IN /\ o.at = "found" /\ o.kind = "get"
     /\ Free(o.name)
     /\ \/ /\ MayBackfill(o)
           /\ ram' = IF RAMAdmits
                       THEN [ram EXCEPT ![o.name] = Item(o.data, o.etag)]
                       ELSE ram
           /\ meta' = IF o.file # o.name /\ meta[o.file] # NoItem
                        THEN [meta EXCEPT ![o.name] =
                                Item(meta[o.file].data, o.etag)]
                        ELSE meta
        \/ /\ Refuses(o)
           /\ UNCHANGED <<ram, meta>>
     /\ Becomes(a, Idle)
     /\ UNCHANGED <<disk, ext, missing, resident, modeVars, queue, lock, histVars>>

\* A file that could not be served: try the fallback key once, then record
\* the miss if the token still holds (markMissingIfTokenValid).
GetFailed(a) ==
  LET o == op[a]
  IN /\ o.at = "failed" /\ o.kind = "get"
     /\ \/ /\ o.file = o.name /\ Alt[o.name] # NoName
           /\ Becomes(a, [o EXCEPT !.at = "open", !.file = Alt[o.name],
                                   !.dir = base])
           /\ UNCHANGED missing
        \/ /\ o.file # o.name \/ Alt[o.name] = NoName
           /\ Free(o.name)
           /\ \/ Accepts(o) /\ missing' = missing \cup {o.name}
              \/ Refuses(o) /\ UNCHANGED missing
           /\ Becomes(a, Idle)
     /\ UNCHANGED <<disk, ext, meta, ram, resident, modeVars, queue, lock, histVars>>

\* The end of a prewarm read: SetWithGen under the shard lock, unless the
\* token was revoked or the boost run was stopped meanwhile.
BoostFinish(a) ==
  LET o == op[a]
  IN /\ o.at \in {"found", "failed"} /\ o.kind = "boost"
     /\ \/ /\ o.at = "found" /\ Accepts(o) /\ PoolAccepts(o)
           /\ Free(o.name)
           /\ resident' = [resident EXCEPT ![o.name] = Item(o.data, o.etag)]
        \/ /\ o.at = "failed" \/ Refuses(o) \/ ~PoolAccepts(o)
           /\ UNCHANGED resident
     /\ Becomes(a, Idle)
     /\ UNCHANGED <<disk, ext, meta, missing, ram, modeVars, queue, lock, histVars>>

\* HasCacheWithNamespace stats the file, then that of the fallback key.
HasStat(a) ==
  LET o == op[a]
      c == disk[o.dir][o.file]
  IN /\ o.at = "stat"
     /\ \/ c # None /\ Becomes(a, [o EXCEPT !.at = "found", !.data = c])
        \/ /\ c = None /\ o.file = o.name /\ Alt[o.name] # NoName
           /\ Becomes(a, [o EXCEPT !.file = Alt[o.name], !.dir = base])
        \/ /\ c = None /\ (o.file # o.name \/ Alt[o.name] = NoName)
           /\ Becomes(a, [o EXCEPT !.at = "failed"])
     /\ UNCHANGED <<tierVars, modeVars, queue, lock, histVars>>

\* Its answer is recorded under the shard lock if the token still holds: a
\* file that is there drops metadata about another one (recordDiskPresence), a
\* file that is not leaves a negative entry, and so does one under hosts/ that
\* is another one by now.
HasFinish(a) ==
  LET o == op[a]
      there == /\ o.at = "found"
               /\ o.file \in Shared => disk[o.dir][o.file] = o.data
  IN /\ o.at \in {"found", "failed"} /\ o.kind = "has"
     /\ Free(o.name)
     /\ \/ /\ Accepts(o)
           /\ meta' = IF there /\ meta[o.name].data = o.data THEN meta
                      ELSE [meta EXCEPT ![o.name] = NoItem]
           /\ missing' = IF there THEN missing ELSE missing \cup {o.name}
        \/ /\ Refuses(o)
           /\ UNCHANGED <<meta, missing>>
     /\ Becomes(a, Idle)
     /\ UNCHANGED <<disk, ext, ram, resident, modeVars, queue, lock, histVars>>

-----------------------------------------------------------------------------
(***************************************************************************)
(* Writing.                                                                *)
(***************************************************************************)
Aliases(n) == {n} \cup ({Alt[n]} \ {NoName})
Cleared(f, ns) == [n \in Names |-> IF n \in ns THEN NoItem ELSE f[n]]
\* The histories: payload c of n was handed to the cache, and was committed.
Handed(n, c) == legit' = [legit EXCEPT ![base][Canon[n]] = @ \cup {c}]
Committed(n, c) == latest' = [latest EXCEPT ![n] = c]

\* saveRAMInternal: one critical section of the shard.  The token it takes has
\* the sequence number the shard has anyway: a write does not revoke the
\* tokens of operations that are reading the old payload.
SaveRAM(a, n, c, at) ==
  /\ op[a] = Idle
  /\ Free(n)
  /\ ram' = LET gone == Cleared(ram, Aliases(n) \ {n})
            IN IF ramEnabled THEN [gone EXCEPT ![n] = Item(c, c)] ELSE gone
  /\ resident' = Cleared(resident, Aliases(n))
  /\ missing' = missing \ Aliases(n)
  /\ Handed(n, c) /\ Committed(n, c)
  /\ Becomes(a, [Start("save", at, n) EXCEPT !.data = c])
  /\ UNCHANGED <<disk, ext, meta, modeVars, queue, lock, stray>>

\* Faulty variant: a queue without a bound.
RoomAlways == TRUE

\* persistQueue takes another task.
HasRoom == Len(queue) < QueueCap

\* saveRAMWithNamespaceAndValidation hands the payload to the persist workers,
\* or drops it when the queue is full or the manager is stopping.
EnqueuePersist(a) ==
  LET o == op[a]
  IN /\ o.at = "queue"
     /\ \/ /\ HasRoom
           /\ queue' = Append(queue, [name |-> o.name, dir |-> o.dir,
                                      live |-> o.live, data |-> o.data])
        \/ /\ ~HasRoom
           /\ UNCHANGED queue
     /\ Becomes(a, Idle)
     /\ UNCHANGED <<tierVars, modeVars, lock, histVars>>

\* A persist worker takes the oldest task.
TakeTask(w) ==
  /\ op[w] = Idle
  /\ queue # <<>>
  /\ LET t == Head(queue)
     IN Becomes(w, [Idle EXCEPT !.at = "persist", !.kind = "save",
                      !.name = t.name, !.file = t.name, !.dir = t.dir,
                      !.live = t.live, !.data = t.data])
  /\ queue' = Tail(queue)
  /\ UNCHANGED <<tierVars, modeVars, lock, histVars>>

\* saveToDiskWithNSAndToken takes persistMu, checks generation and token and
\* writes the payload to a temporary file, which may fail.
PersistBegin(a) ==
  LET o == op[a]
  IN /\ o.at = "persist"
     /\ Free(o.name)
     /\ \/ /\ Accepts(o)
           /\ Becomes(a, [o EXCEPT !.at = "rename"])
           /\ UNCHANGED meta
        \/ /\ Accepts(o) /\ DiskFails
           /\ meta' = [meta EXCEPT ![o.name] = NoItem]
           /\ Becomes(a, Idle)
        \/ /\ Refuses(o)
           /\ Becomes(a, Idle)
           /\ UNCHANGED meta
     /\ UNCHANGED <<disk, ext, missing, ram, resident, modeVars, queue, lock, histVars>>

\* Under the shard lock, which it keeps: check the token again and rename the
\* temporary file over the payload file.  Either may fail.
PersistRename(a) ==
  LET o == op[a]
  IN /\ o.at = "rename"
     /\ Free(o.name)
     /\ \/ /\ Accepts(o)
           /\ disk' = [disk EXCEPT ![o.dir][o.name] = o.data]
           /\ lock' = [lock EXCEPT ![Canon[o.name]] = a]
           /\ Becomes(a, [o EXCEPT !.at = "written"])
           /\ UNCHANGED meta
        \/ /\ Accepts(o) /\ DiskFails
           /\ meta' = [meta EXCEPT ![o.name] = NoItem]
           /\ Becomes(a, Idle)
           /\ UNCHANGED <<disk, lock>>
        \/ /\ Refuses(o)
           /\ Becomes(a, Idle)
           /\ UNCHANGED <<disk, lock, meta>>
     /\ UNCHANGED <<ext, missing, ram, resident, modeVars, queue, histVars>>

\* The .ext file and the index follow the renamed payload.  When the .ext file
\* cannot be written, it stays as it was.
RecordWritten(o) ==
  /\ \/ ext' = [ext EXCEPT ![o.dir][o.name] = Item(o.data, o.data)]
     \/ DiskFails /\ o.name \notin Shared /\ UNCHANGED ext
  /\ meta' = [meta EXCEPT ![o.name] = Item(o.data, o.data)]
  /\ UNCHANGED disk

\* A hosts/ name is not kept without its .ext file: both are removed.
RecordRefused(o) ==
  /\ DiskFails /\ o.name \in Shared
  /\ disk' = [disk EXCEPT ![o.dir][o.name] = None]
  /\ ext' = [ext EXCEPT ![o.dir][o.name] = NoItem]
  /\ meta' = [meta EXCEPT ![o.name] = NoItem]

\* Still under that lock: the metadata.
PersistMetadata(a) ==
  LET o == op[a]
  IN /\ o.at = "written" /\ o.kind = "save"
     /\ RecordWritten(o) \/ RecordRefused(o)
     /\ lock' = [lock EXCEPT ![Canon[o.name]] = None]
     /\ Becomes(a, Idle)
     /\ UNCHANGED <<missing, ram, resident, modeVars, queue, histVars>>

\* CreateDiskTempFile: a large download goes straight to a temporary file.
CreateTemp(a, n, c) ==
  /\ op[a] = Idle
  /\ Free(n)
  /\ Becomes(a, [Start("temp", "temp", n) EXCEPT !.data = c])
  /\ Handed(n, c)
  /\ UNCHANGED <<tierVars, modeVars, queue, lock, latest, stray>>

\* DiscardDiskTempFile: the download failed.
DiscardTemp(a) ==
  /\ op[a].at = "temp"
  /\ Becomes(a, Idle)
  /\ UNCHANGED <<tierVars, modeVars, queue, lock, histVars>>

\* CommitDiskTempFile up to the rename, which may fail; the shard lock is kept.
CommitRename(a) ==
  LET o == op[a]
  IN /\ o.at = "temp"
     /\ Free(o.name)
     /\ \/ /\ Accepts(o)
           /\ disk' = [disk EXCEPT ![o.dir][o.name] = o.data]
           /\ lock' = [lock EXCEPT ![Canon[o.name]] = a]
           /\ Becomes(a, [o EXCEPT !.at = "written"])
           /\ Committed(o.name, o.data)
           /\ UNCHANGED meta
        \/ /\ Accepts(o) /\ DiskFails
           /\ meta' = [meta EXCEPT ![o.name] = NoItem]
           /\ Becomes(a, Idle)
           /\ UNCHANGED <<disk, lock, latest>>
        \/ /\ Refuses(o)
           /\ Becomes(a, Idle)
           /\ UNCHANGED <<disk, lock, meta, latest>>
     /\ UNCHANGED <<ext, missing, ram, resident, modeVars, queue, legit, stray>>

\* The rest of CommitDiskTempFile: metadata, then every copy in memory of the
\* entry and of its alias, and their negative entries, are dropped; a commit
\* whose file had to be removed again drops none of them.
CommitMetadata(a) ==
  LET o == op[a]
  IN /\ o.at = "written" /\ o.kind = "temp"
     /\ \/ /\ RecordWritten(o)
           /\ ram' = Cleared(ram, Aliases(o.name))
           /\ resident' = Cleared(resident, Aliases(o.name))
           /\ missing' = missing \ Aliases(o.name)
           /\ UNCHANGED latest
        \/ /\ RecordRefused(o)
           /\ latest' = [latest EXCEPT ![o.name] = None]
           /\ UNCHANGED <<ram, resident, missing>>
     /\ lock' = [lock EXCEPT ![Canon[o.name]] = None]
     /\ Becomes(a, Idle)
     /\ UNCHANGED <<modeVars, queue, legit, stray>>

-----------------------------------------------------------------------------
(***************************************************************************)
(* Invalidating.                                                           *)
(***************************************************************************)
RevokeKeys(ks) ==
  /\ op' = [a \in Actors |->
       IF op[a].name \in Names /\ Canon[op[a].name] \in ks
         THEN [op[a] EXCEPT !.live = FALSE] ELSE op[a]]
  /\ queue' = [i \in DOMAIN queue |->
       IF Canon[queue[i].name] \in ks THEN [queue[i] EXCEPT !.live = FALSE]
                                      ELSE queue[i]]

\* Faulty variant: an invalidation that forgets the fallback key.
OnlyItself(n) == {n}

\* The names whose state and files an invalidation of n removes.
Removed(n) == Aliases(n)

\* Invalidate: one critical section of the shard.
Invalidate(n) ==
  /\ Free(n)
  /\ RevokeKeys({Canon[n]})
  /\ meta' = Cleared(meta, Removed(n))
  /\ ram' = Cleared(ram, Removed(n))
  /\ resident' = Cleared(resident, Removed(n))
  /\ missing' = missing \ Removed(n)
  /\ disk' = [disk EXCEPT ![base] = [m \in Names |->
                IF m \in Removed(n) THEN None ELSE disk[base][m]]]
  /\ ext' = [ext EXCEPT ![base] = Cleared(ext[base], Removed(n))]
  /\ legit' = [legit EXCEPT ![base][Canon[n]] = {}]
  /\ latest' = [m \in Names |-> IF m \in Aliases(n) THEN None ELSE latest[m]]
  /\ stray' = [stray EXCEPT ![Canon[n]] = {}]
  /\ UNCHANGED <<modeVars, lock>>

\* persistMu is write-locked only when no operation holds it for reading.
PersistMuFree == \A a \in Actors : op[a].at \notin {"rename", "written"}

\* DisableBoost: the pool is emptied and the running prewarm is stopped.
StopBoost(ops) ==
  [a \in Actors |-> IF ops[a].kind = "boost" THEN [ops[a] EXCEPT !.pool = FALSE]
                                             ELSE ops[a]]
MemoryCleared == /\ meta' = [n \in Names |-> NoItem]
                 /\ ram' = [n \in Names |-> NoItem]
                 /\ resident' = [n \in Names |-> NoItem]
                 /\ missing' = {}
AllRevoked == /\ op' = StopBoost([a \in Actors |-> [op[a] EXCEPT !.live = FALSE]])
              /\ queue' = [i \in DOMAIN queue |-> [queue[i] EXCEPT !.live = FALSE]]

\* ClearAllWithError, under the write side of persistMu.
ClearAll ==
  /\ PersistMuFree
  /\ AllRevoked
  /\ MemoryCleared
  /\ boost' = FALSE
  /\ disk' = [disk EXCEPT ![base] = [n \in Names |-> None]]
  /\ ext' = [ext EXCEPT ![base] = [n \in Names |-> NoItem]]
  /\ legit' = [legit EXCEPT ![base] = [k \in CacheKeys |-> {}]]
  /\ latest' = [n \in Names |-> None]
  /\ stray' = [k \in CacheKeys |-> {}]
  /\ UNCHANGED <<base, ramEnabled, autoRepair, lock>>

\* SetCacheBase, under the write side of persistMu.
SetCacheBase(b) ==
  /\ PersistMuFree
  /\ AllRevoked
  /\ MemoryCleared
  /\ boost' = FALSE
  /\ base' = b
  /\ latest' = [n \in Names |-> None]
  /\ stray' = [k \in CacheKeys |-> {}]
  /\ UNCHANGED <<disk, ext, ramEnabled, autoRepair, lock, legit>>

\* SetRAMEnabled, under the write side of persistMu.
SetRAMEnabled(on) ==
  /\ PersistMuFree
  /\ ramEnabled # on
  /\ ramEnabled' = on
  /\ ram' = IF on THEN ram ELSE [n \in Names |-> NoItem]
  /\ UNCHANGED <<disk, ext, meta, missing, resident, base, autoRepair, boost,
                 queue, lock, op, histVars>>

\* A prewarm starts: ResetForGen empties and enables the pool, and the run that
\* was under way notices that its pool generation is over.
EnableBoost ==
  /\ boost' = TRUE
  /\ resident' = [n \in Names |-> NoItem]
  /\ op' = StopBoost(op)
  /\ UNCHANGED <<disk, ext, meta, missing, ram, base, ramEnabled, autoRepair,
                 queue, lock, histVars>>

DisableBoost ==
  /\ boost
  /\ boost' = FALSE
  /\ resident' = [n \in Names |-> NoItem]
  /\ op' = StopBoost(op)
  /\ UNCHANGED <<disk, ext, meta, missing, ram, base, ramEnabled, autoRepair,
                 queue, lock, histVars>>

\* The SLRU cache makes room.
EvictRAM(n) ==
  /\ ram[n] # NoItem
  /\ ram' = [ram EXCEPT ![n] = NoItem]
  /\ UNCHANGED <<disk, ext, meta, missing, resident, modeVars, queue, lock, op,
                 histVars>>

-----------------------------------------------------------------------------
(***************************************************************************)
(* The environment.                                                        *)
(***************************************************************************)

\* Something outside the program damages a payload file.
DamageFile(n) ==
  /\ disk[base][n] \in Contents
  /\ disk' = [disk EXCEPT ![base][n] = Corrupt]
  /\ UNCHANGED <<ext, meta, missing, ram, resident, modeVars, queue, lock, op,
                 histVars>>

\* The process dies and is started again: only files survive.
Crash ==
  /\ MemoryCleared
  /\ boost' = FALSE
  /\ queue' = <<>>
  /\ lock' = [k \in CacheKeys |-> None]
  /\ op' = [a \in Actors |-> Idle]
  /\ latest' = [n \in Names |-> None]
  /\ stray' = [k \in CacheKeys |-> {}]
  /\ UNCHANGED <<disk, ext, base, ramEnabled, autoRepair, legit>>

\* A directory that the cache finds when it starts: files it wrote earlier,
\* files without .ext that another accelerator left, or nothing.
Found(b) ==
  \A n \in Names :
    \/ disk[b][n] = None /\ ext[b][n] = NoItem
    \/ disk[b][n] \in Contents /\ ext[b][n] \in {NoItem, Item(disk[b][n], disk[b][n])}

Init ==
  /\ base \in Bases /\ ramEnabled \in BOOLEAN /\ autoRepair \in RepairModes
  /\ disk \in [Bases -> [Names -> Contents \cup {None}]]
  /\ ext \in [Bases -> [Names -> Items]]
  /\ \A b \in Bases : Found(b)
  /\ meta = [n \in Names |-> NoItem]
  /\ ram = [n \in Names |-> NoItem]
  /\ resident = [n \in Names |-> NoItem]
  /\ missing = {}
  /\ boost = FALSE
  /\ queue = <<>>
  /\ lock = [k \in CacheKeys |-> None]
  /\ op = [a \in Actors |-> Idle]
  /\ legit = [b \in Bases |-> [k \in CacheKeys |->
                {disk[b][n] : n \in {m \in Names : Canon[m] = k}} \ {None}]]
  /\ latest = [n \in Names |-> None]
  /\ stray = [k \in CacheKeys |-> {}]

Read(a) == \/ \E n \in Names : GetLookup(a, n) \/ HasLookup(a, n)
           \/ AcquireToken(a) \/ HasStat(a)
           \/ LoadFile(a) \/ LoadMetadata(a) \/ JudgeContent(a) \/ IndexFile(a)
           \/ GetFinish(a) \/ GetFailed(a) \/ HasFinish(a)
Prewarm(a) == (\E n \in Names : BoostLookup(a, n)) \/ BoostFinish(a)
Save(a) == \/ \E n \in Names, c \in Contents : \/ SaveRAM(a, n, c, "queue")
                                               \/ SaveRAM(a, n, c, "persist")
           \/ EnqueuePersist(a)
Persist(a) == PersistBegin(a) \/ PersistRename(a) \/ PersistMetadata(a)
Stream(a) == \/ \E n \in Names, c \in Contents : CreateTemp(a, n, c)
             \/ DiscardTemp(a) \/ CommitRename(a) \/ CommitMetadata(a)
Control == \/ \E n \in Names : Invalidate(n) \/ EvictRAM(n)
           \/ ClearAll
           \/ \E b \in Bases : SetCacheBase(b)
           \/ \E on \in BOOLEAN : SetRAMEnabled(on)
           \/ EnableBoost \/ DisableBoost

Alive == \/ \E a \in Clients : Read(a) \/ Prewarm(a) \/ Save(a) \/ Stream(a)
         \/ \E w \in Workers : TakeTask(w)
         \/ \E a \in Actors : Persist(a)
         \/ Control
         \/ \E n \in Names : DamageFile(n)

Next == Alive \/ Crash

Spec == Init /\ [][Next]_vars

\* One life of the process.
SpecAlive == Init /\ [][Alive]_vars

-----------------------------------------------------------------------------
(***************************************************************************)
(* Properties.                                                             *)
(***************************************************************************)
Tiers == {ram, resident, meta}
Pairs == Tiers \cup {ext[b] : b \in Bases}
Agrees(item) == item.data = item.etag
Quiet == queue = <<>> /\ \A a \in Actors : op[a] = Idle

\* The payloads that n may have in memory: those legitimate in the directory in
\* use, and in one that a lookup has gone to with a path it had resolved before
\* the directory changed.
Legal(n) == LET k == Canon[n]
            IN {c \in Contents : \E b \in {base} \cup stray[k] : c \in legit[b][k]}

\* What an invalidation or a clear removed does not come back by itself: no
\* read, prewarm, queued persist task or download that was under way then writes
\* the old payload into any tier, under the key or its alias, in this directory
\* or another ("MUST NOT backfill stale state into RAM or diskMeta",
\* manager.go).  Nor does a payload of a directory that was left, unless a
\* lookup took its path before the change and its token after it; the next
\* invalidation removes that as well.
InvalidatedStaysGone ==
  \A n \in Names :
    /\ \A tier \in Tiers : tier[n].data \in Legal(n) \cup {None}
    /\ \A b \in Bases : disk[b][n] \in legit[b][Canon[n]] \cup {None, Corrupt}

\* A reader that misses the moment RAM was switched off does not refill it.
RAMOffStaysEmpty == ~ramEnabled => \A n \in Names : ram[n] = NoItem

\* A prewarm that was reading when Boost was switched off, or when the cache
\* was cleared or moved, does not refill the pool.
BoostOffStaysEmpty == ~boost => \A n \in Names : resident[n] = NoItem

\* Both: what the user switched off holds nothing, whatever was under way.
OffStaysEmpty == RAMOffStaysEmpty /\ BoostOffStaysEmpty

\* A name under hosts/ never has the bytes of one payload served, indexed or
\* recorded under the ETag of another, while the process lives: its file and
\* its .ext are read together under the lock that writes them, and compared
\* again before the index is written.
SharedPairsAgree == \A n \in Shared, records \in Pairs : Agrees(records[n])

(***************************************************************************)
(* What comments and tests of the code say of every name, and what some    *)
(* interleaving of the code above contradicts: a write does not revoke the *)
(* tokens of the reads it overtakes.                                       *)
(***************************************************************************)

\* Once nothing is under way, no tier in memory holds another payload than the
\* last one that was committed, nor says that it is missing (boost_test.go:
\* "Subsequent GetWithNamespace must NOT return stale oldPng from RAM";
\* boost_lifecycle_test.go: "expected updated item to not come from stale
\* RAM-BOOST snapshot"; CommitDiskTempFile "clears any negative cache entry").
CommittedIsServed ==
  Quiet => \A n \in Names : latest[n] # None =>
    /\ ram[n].data \in {None, latest[n]}
    /\ resident[n].data \in {None, latest[n]}
    /\ disk[base][n] = latest[n] => n \notin missing

\* After a change of directory nothing in memory is of the old one
\* (disk_meta_test.go: "diskMetaIndex must be cleared and HasCacheWithNamespace
\* must report false").  A lookup whose path is older than the change and whose
\* token is younger brings a payload of the old one.
OldDirectoryLeft ==
  \A n \in Names, tier \in Tiers : tier[n].data \in legit[base][Canon[n]] \cup {None}
=============================================================================
