----------------------------- MODULE Breakdown -----------------------------
(***************************************************************************)
(* The cache breakdown and controlled deletion of engine/cache             *)
(* (breakdown.go): a scan walks the cache directory without any lock and   *)
(* records the identity of every file, metadata file and directory it      *)
(* finds; a later task deletes a category, or the old versions, file by    *)
(* file, and only what still is what the scan recorded.  Meanwhile the     *)
(* proxy downloads, reads and invalidates, files vanish, and the cache     *)
(* directory is cleared or switched.                                       *)
(*                                                                         *)
(* The identity of a file (size, modification time, os.SameFile) is a      *)
(* stamp.  The files of a version are in the directory of that number, all *)
(* other files in directory 0.  Every file is one the program attributes   *)
(* to itself, and the cache root keeps its identity.                       *)
(*                                                                         *)
(* What is assumed: one task at a time (tryBeginCacheTask).                *)
(***************************************************************************)
EXTENDS Integers, FiniteSets

CONSTANTS Files,
          VersionOf,  \* VersionOf[f]: the version directory of f, 0 for none
          Keep,       \* how many versions a slim task keeps
          CacheBases, \* the cache directories the user may choose
          TaskKinds,  \* the tasks that may be started
          Busy,       \* the files that are downloaded, read and invalidated
          MaxStamp,   \* bound: how many stamps there are
          MaxGen,     \* bound: how many cache generations begin
          NoFile

ASSUME VersionAssumption == VersionOf \in [Files -> Nat] /\ Keep \in Nat \ {0}
ASSUME KindAssumption == TaskKinds \subseteq {"scan", "clear", "slim", "both", "live"}
ASSUME FileAssumption == NoFile \notin Files \cup CacheBases /\ Busy \subseteq Files
ASSUME BoundAssumption == {MaxStamp, MaxGen} \subseteq Nat \ {0}

VARIABLES store,    \* store[b]: what is in cache directory b
          mem,      \* mem[f]: the stamp of the payload of f in memory, or 0
          gen, cacheBase,
          clock,    \* the last stamp given
          snap,     \* Manager.lastSnapshot; Untaken once it is stale
          task,     \* the one task that runs
          writer,   \* a download to a temporary file
          reader,   \* a lookup that has missed memory
          deleted   \* history: the stamps of files that a task has deleted

deletionVars == <<store, mem, gen, cacheBase, clock, snap, task, writer, reader, deleted>>

Dirs == {VersionOf[f] : f \in Files}
Entries == Files \X {"data", "ext"}
Stamps == 0 .. MaxStamp
Stores == [data : [Files -> Stamps], ext : [Files -> Stamps], dir : [Dirs -> Stamps]]

Nothing == [data |-> [f \in Files |-> 0], ext |-> [f \in Files |-> 0],
            dir |-> [d \in Dirs |-> 0]]
Untaken == [valid |-> FALSE, gen |-> 0, base |-> NoFile, seen |-> Nothing]
NoTask == [kind |-> "none", at |-> "idle", gen |-> 0, base |-> NoFile, seen |-> Nothing,
         names |-> {}, dirs |-> {}, dir |-> 0, todo |-> {}, chosen |-> {},
         file |-> NoFile, touched |-> {}, res |-> {}]
NoWriter == [at |-> "idle", file |-> NoFile, base |-> NoFile, gen |-> 0, live |-> FALSE]
NoReader == [file |-> NoFile, base |-> NoFile, stamp |-> 0, live |-> FALSE]

DeletionKinds == {"none", "scan", "clear", "slim", "both", "live"}
Places == {"idle", "walk", "slim", "next", "remove", "ext"}
Results == {"deleted", "dir", "missing", "skipped", "failed"}

Tasks == [kind : DeletionKinds, at : Places, gen : Nat, base : CacheBases \cup {NoFile},
          seen : Stores, names : SUBSET Entries, dirs : SUBSET Dirs, dir : Dirs \cup {0},
          todo : SUBSET Files, chosen : SUBSET Files, file : Files \cup {NoFile},
          touched : SUBSET Dirs, res : SUBSET Results]
Snapshots == [valid : BOOLEAN, gen : Nat, base : CacheBases \cup {NoFile}, seen : Stores]
Writers == [at : {"idle", "made", "temp"}, file : Files \cup {NoFile},
            base : CacheBases \cup {NoFile}, gen : Nat, live : BOOLEAN]
Readers == [file : Files \cup {NoFile}, base : CacheBases \cup {NoFile}, stamp : Stamps,
            live : BOOLEAN]

DeletionTypeOK ==
  /\ store \in [CacheBases -> Stores]
  /\ mem \in [Files -> Stamps]
  /\ gen \in 1 .. MaxGen /\ cacheBase \in CacheBases /\ clock \in 1 .. MaxStamp
  /\ snap \in Snapshots /\ task \in Tasks
  /\ writer \in Writers /\ reader \in Readers
  /\ deleted \in [Files -> SUBSET Stamps]

\* The files are cached, each in its directory, with or without metadata; nothing
\* was scanned yet.
DeletionInit ==
  /\ cacheBase \in CacheBases
  /\ \E meta \in {{}, Files} :
       store = [b \in CacheBases |->
         IF b # cacheBase THEN Nothing
         ELSE [data |-> [f \in Files |-> 1],
               ext |-> [f \in Files |-> IF f \in meta THEN 1 ELSE 0],
               dir |-> [d \in Dirs |-> 1]]]
  /\ mem = [f \in Files |-> 0]
  /\ gen = 1 /\ clock = 1
  /\ snap = Untaken /\ task = NoTask
  /\ writer = NoWriter /\ reader = NoReader
  /\ deleted = [f \in Files |-> {}]

-----------------------------------------------------------------------------
(***************************************************************************)
(* Locks.  persistMu is held for reading by a deletion of one file and by  *)
(* a download that makes its directory; switching, clearing and removing   *)
(* directories hold it for writing.  A deletion holds the shard of its     *)
(* file.                                                                   *)
(***************************************************************************)

Deleting == task.at \in {"remove", "ext"}
ShardFree(f) == ~(Deleting /\ task.file = f)
PersistMuIdle == ~Deleting /\ writer.at # "made"

\* Faulty variant: directories are removed whoever makes them.
PersistMuIgnored == TRUE

\* persistMu.Lock of the removal of a directory.
MayRemoveDirs == PersistMuIdle

\* Faulty variant: the tokens of f stay valid.
NotRevoked(op, f) == op

\* The token of every operation on f that is under way is revoked.
Revoked(op, f) == IF op.file = f THEN [op EXCEPT !.live = FALSE] ELSE op

\* bumpInvalidateTokenLocked and clearKeyMemoryState.
Forget(f) == /\ mem' = [mem EXCEPT ![f] = 0]
             /\ writer' = Revoked(writer, f)
             /\ reader' = Revoked(reader, f)

Current == gen = task.gen /\ cacheBase = task.base

-----------------------------------------------------------------------------
(***************************************************************************)
(* The rest of the program.                                                *)
(***************************************************************************)

\* CreateDiskTempFile: a token, the directory ...
MakeDir(f) ==
  /\ writer.at = "idle"
  /\ clock < MaxStamp
  /\ store' = [store EXCEPT ![cacheBase].dir[VersionOf[f]] = IF @ = 0 THEN clock + 1 ELSE @]
  /\ clock' = clock + 1
  /\ writer' = [at |-> "made", file |-> f, base |-> cacheBase, gen |-> gen, live |-> TRUE]
  /\ UNCHANGED <<mem, gen, cacheBase, snap, task, reader, deleted>>

\* ... and the temporary file beside the file to come.
MakeTemp ==
  /\ writer.at = "made"
  /\ writer' = [writer EXCEPT !.at = "temp"]
  /\ UNCHANGED <<store, mem, gen, cacheBase, clock, snap, task, reader, deleted>>

\* CommitDiskTempFile, or DiscardDiskTempFile: rename, then the metadata, whose
\* writing may fail; memory gives the new payload up to the next reader.
EndDownload ==
  LET f == writer.file
  IN /\ writer.at = "temp" /\ ShardFree(f)
     /\ writer' = NoWriter
     /\ \/ UNCHANGED <<store, mem>>
        \/ /\ writer.live
           /\ \E e \in {clock, store[cacheBase].ext[f]} :
                store' = [store EXCEPT ![cacheBase].data[f] = clock, ![cacheBase].ext[f] = e]
           /\ mem' = [mem EXCEPT ![f] = 0]
     /\ UNCHANGED <<gen, cacheBase, clock, snap, task, reader, deleted>>

\* GetWithNamespace finds nothing in memory and resolves the path ...
Look(f) ==
  /\ reader = NoReader
  /\ mem[f] = 0
  /\ reader' = [NoReader EXCEPT !.file = f, !.base = cacheBase]
  /\ UNCHANGED <<store, mem, gen, cacheBase, clock, snap, task, writer, deleted>>

\* ... takes a token, of the generation there is by now, and loads the file
\* without a lock; one that has gone, or is another, since the token counts for
\* nothing ...
Load ==
  LET found == store[reader.base].data[reader.file]
  IN /\ reader.file # NoFile /\ reader.stamp = 0
     /\ reader' = IF found = 0 THEN NoReader
                  ELSE [reader EXCEPT !.stamp = found, !.live = TRUE]
     /\ UNCHANGED <<store, mem, gen, cacheBase, clock, snap, task, writer, deleted>>

\* ... and puts it into memory if the token is still valid.
Backfill ==
  /\ reader.stamp # 0 /\ ShardFree(reader.file)
  /\ mem' = IF reader.live THEN [mem EXCEPT ![reader.file] = reader.stamp] ELSE mem
  /\ reader' = NoReader
  /\ UNCHANGED <<store, gen, cacheBase, clock, snap, task, writer, deleted>>

\* Invalidate, without its fallback alias.
InvalidateFile(f) ==
  /\ ShardFree(f)
  /\ store' = [store EXCEPT ![cacheBase].data[f] = 0, ![cacheBase].ext[f] = 0]
  /\ Forget(f)
  /\ snap' = Untaken
  /\ UNCHANGED <<gen, cacheBase, clock, task, deleted>>

\* A file goes without any lock: a reader repairs it (auto_repair), or the user.
Vanish(f) ==
  /\ store[cacheBase].data[f] # 0
  /\ store' = [store EXCEPT ![cacheBase].data[f] = 0]
  /\ UNCHANGED <<mem, gen, cacheBase, clock, snap, task, writer, reader, deleted>>

\* What both ClearAllWithError and SetCacheBase do, holding persistMu.
NewGeneration ==
  /\ PersistMuIdle /\ gen < MaxGen
  /\ gen' = gen + 1
  /\ mem' = [f \in Files |-> 0]
  /\ snap' = Untaken
  /\ writer' = [writer EXCEPT !.live = FALSE]
  /\ reader' = [reader EXCEPT !.live = FALSE]
  /\ UNCHANGED <<clock, task, deleted>>

ClearAllWithError ==
  /\ NewGeneration
  /\ store' = [store EXCEPT ![cacheBase] = Nothing]
  /\ UNCHANGED cacheBase

\* SetCacheBase.
SwitchCacheBase(b) ==
  /\ NewGeneration
  /\ b # cacheBase
  /\ cacheBase' = b
  /\ UNCHANGED store

-----------------------------------------------------------------------------
(***************************************************************************)
(* ScanBreakdownWithProgress.                                              *)
(***************************************************************************)

Goes(t) == /\ task' = t
           /\ UNCHANGED <<store, mem, gen, cacheBase, clock, snap, writer, reader, deleted>>

There(b, n) == store[b][n[2]][n[1]] # 0

\* The names that a directory lists, the data file before its metadata.
Listed(b, d) == {n \in Entries : VersionOf[n[1]] = d /\ There(b, n)}

BeginScan ==
  /\ task.at = "idle" /\ "scan" \in TaskKinds
  /\ Goes([NoTask EXCEPT !.kind = "scan", !.at = "walk", !.gen = gen, !.base = cacheBase,
                       !.dirs = Dirs])

\* WalkDir enters a directory: its identity and its list.
EnterDir(d) ==
  /\ task.at = "walk" /\ task.kind = "scan" /\ task.names = {} /\ d \in task.dirs
  /\ \A c \in task.dirs : d <= c
  /\ Goes([task EXCEPT !.dirs = @ \ {d}, !.seen.dir[d] = store[task.base].dir[d],
                       !.names = Listed(task.base, d)])

\* WalkDir visits a name it has listed; one that is gone is an error to count.
Visit(n) ==
  /\ task.at = "walk" /\ n \in task.names
  /\ n[2] = "ext" => <<n[1], "data">> \notin task.names
  /\ Goes([task EXCEPT !.names = @ \ {n},
                       !.seen = IF There(task.base, n)
                                  THEN [@ EXCEPT ![n[2]][n[1]] = store[task.base][n[2]][n[1]]]
                                  ELSE @,
                       !.res = IF There(task.base, n) \/ task.kind = "scan" THEN @
                               ELSE @ \cup {"failed"}])

\* Cancelled, or the generation or directory is another one by now.
AbortWalk ==
  /\ task.at = "walk" /\ task.kind = "scan"
  /\ Goes(NoTask)

\* The snapshot that a finished walk makes; its statistics are left out.
Taken(t) == [valid |-> TRUE, gen |-> t.gen, base |-> t.base, seen |-> t.seen]

\* The walk is over: the snapshot is published only if nothing was cleared or
\* switched.
PublishScan ==
  /\ task.at = "walk" /\ task.kind = "scan" /\ task.dirs = {} /\ task.names = {}
  /\ snap' = IF Current THEN Taken(task) ELSE snap
  /\ task' = NoTask
  /\ UNCHANGED <<store, mem, gen, cacheBase, clock, writer, reader, deleted>>

-----------------------------------------------------------------------------
(***************************************************************************)
(* Which files a task is to delete.                                        *)
(***************************************************************************)

\* Faulty variant: a snapshot of an earlier generation is accepted.
ValidWhenever == snap.valid

\* getValidatedSnapshot.
SnapshotValid == snap.valid /\ snap.gen = gen /\ snap.base = cacheBase

\* The versions v of which at least Keep newer ones are in vs.
Stale(vs) == {v \in vs : Cardinality({w \in vs : w > v}) >= Keep}

\* The versions of which the scan has recorded a file.
SeenVersions(seen) == {VersionOf[f] : f \in {g \in Files : seen.data[g] # 0}} \ {0}

FilesOf(seen, d) == {f \in Files : VersionOf[f] = d /\ seen.data[f] # 0}

\* ClearCategoriesAndSlimWithProgress: the recorded files of the categories.
BeginClear(kind) ==
  /\ task.at = "idle" /\ kind \in TaskKinds \cap {"clear", "both"}
  /\ SnapshotValid
  /\ Goes([NoTask EXCEPT !.kind = kind, !.at = "next", !.gen = snap.gen,
             !.base = snap.base, !.seen = snap.seen,
             !.todo = FilesOf(snap.seen, 0), !.chosen = FilesOf(snap.seen, 0)])

\* PruneStaleVersionsDetailed with a snapshot: its stale versions.
BeginSlim ==
  /\ task.at = "idle" /\ "slim" \in TaskKinds
  /\ SnapshotValid
  /\ Goes([NoTask EXCEPT !.kind = "slim", !.at = "slim", !.gen = snap.gen,
             !.base = snap.base, !.seen = snap.seen,
             !.dirs = Stale(SeenVersions(snap.seen))])

\* Without one: the stale version directories there are, whatever is in them.
BeginLive ==
  /\ task.at = "idle" /\ "live" \in TaskKinds
  /\ Goes([NoTask EXCEPT !.kind = "live", !.at = "slim", !.gen = gen, !.base = cacheBase,
             !.seen.dir = store[cacheBase].dir,
             !.dirs = Stale({d \in Dirs \ {0} : store[cacheBase].dir[d] # 0})])

\* The newest directory d of a stale version is next: it may be gone, or another one.
SlimDir(d) ==
  LET found == store[task.base].dir[d]
      rest == [task EXCEPT !.dirs = @ \ {d}]
      files == FilesOf(task.seen, d)
  IN /\ task.at = "slim" /\ d \in task.dirs /\ Current
     /\ \A c \in task.dirs : c <= d
     /\ \/ /\ found = 0
           /\ Goes([rest EXCEPT !.res = IF files = {} THEN @ ELSE @ \cup {"missing"}])
        \/ /\ found \notin {0, task.seen.dir[d]}
           /\ Goes([rest EXCEPT !.res = @ \cup {"failed"}])
        \/ /\ found # 0 /\ found = task.seen.dir[d] /\ task.kind # "live"
           /\ Goes([rest EXCEPT !.at = "next", !.dir = d, !.todo = files,
                                !.chosen = @ \cup files, !.touched = {d}])
        \/ /\ found # 0 /\ found = task.seen.dir[d] /\ task.kind = "live"
           /\ Goes([rest EXCEPT !.at = "walk", !.dir = d, !.names = Listed(task.base, d)])

\* The walk of a live slim over one directory; one without files stays.
WalkedLive ==
  LET files == FilesOf(task.seen, task.dir)
  IN /\ task.at = "walk" /\ task.kind = "live" /\ task.names = {}
     /\ Goes(IF files = {} THEN [task EXCEPT !.at = "slim"]
             ELSE [task EXCEPT !.at = "next", !.todo = files,
                               !.chosen = @ \cup files, !.touched = {task.dir}])

-----------------------------------------------------------------------------
(***************************************************************************)
(* deleteSingleVerifiedEntryWithDirInfos: one file, under persistMu and    *)
(* its shard.                                                              *)
(***************************************************************************)

Ext(f) == store[task.base].ext[f]

\* isPairedExtChangedSinceSnapshot.
ExtChanged(f) == Ext(f) # task.seen.ext[f]

\* Faulty variant: any file of that name is taken for the recorded one.
AnyFile(f) == store[task.base].data[f] # 0

\* The file is what the scan recorded.
Unchanged(f) == store[task.base].data[f] = task.seen.data[f]

Ends(f, result) == [task EXCEPT !.at = "next", !.todo = @ \ {f}, !.file = NoFile,
                                !.res = @ \cup {result}]

\* There is nothing to delete, by what is found in the place of f ...
DirGone(f) == store[task.base].dir[VersionOf[f]] = 0
Gone(f) == \/ DirGone(f)
           \/ store[task.base].data[f] = 0 /\ (Ext(f) = 0 \/ ~ExtChanged(f))
DirOther(f) == ~DirGone(f)
               /\ store[task.base].dir[VersionOf[f]] # task.seen.dir[VersionOf[f]]

\* ... so that only memory is cleared, or f is left alone.
DeleteGone(f) ==
  /\ task.at = "next" /\ f \in task.todo /\ Current
  /\ ~DirOther(f) /\ Gone(f)
  /\ Forget(f)
  /\ task' = Ends(f, "missing")
  /\ UNCHANGED <<store, gen, cacheBase, clock, snap, deleted>>

DeleteChanged(f) ==
  /\ task.at = "next" /\ f \in task.todo /\ Current
  /\ \/ DirOther(f) /\ Goes(Ends(f, "failed"))
     \/ /\ ~DirOther(f) /\ ~Gone(f) /\ ~Unchanged(f)
        /\ Goes(Ends(f, "skipped"))

\* It is the recorded file: the locks are kept.
DeleteCheck(f) ==
  /\ task.at = "next" /\ f \in task.todo /\ Current
  /\ ~DirOther(f) /\ ~Gone(f) /\ Unchanged(f)
  /\ Goes([task EXCEPT !.at = "remove", !.file = f])

\* Remove, and the memory of f; or f has gone in the meantime, which is noticed
\* by the second look at it or by Remove; or it cannot be removed.
Remove ==
  LET f == task.file
  IN /\ task.at = "remove"
     /\ \/ /\ store[task.base].data[f] # 0
           /\ store' = [store EXCEPT ![task.base].data[f] = 0]
           /\ deleted' = [deleted EXCEPT ![f] = @ \cup {store[task.base].data[f]}]
           /\ Forget(f)
           /\ task' = [task EXCEPT !.at = "ext", !.res = @ \cup {"deleted"},
                                   !.touched = @ \cup {VersionOf[f]}]
        \/ /\ store[task.base].data[f] = 0
           /\ Forget(f)
           /\ task' = Ends(f, "missing")
           /\ UNCHANGED <<store, deleted>>
        \/ /\ task' = Ends(f, IF store[task.base].data[f] = 0 THEN "skipped" ELSE "failed")
           /\ UNCHANGED <<store, mem, writer, reader, deleted>>
     /\ UNCHANGED <<gen, cacheBase, clock, snap>>

\* The metadata of f, unless it is not what the scan recorded.
RemoveExt ==
  LET f == task.file
      done == [task EXCEPT !.at = "next", !.todo = @ \ {f}, !.file = NoFile]
  IN /\ task.at = "ext"
     /\ \/ /\ Ext(f) # 0 /\ ExtChanged(f)
           /\ task' = Ends(f, "skipped")
           /\ UNCHANGED store
        \/ /\ Ext(f) # 0 /\ ~ExtChanged(f)
           /\ store' = [store EXCEPT ![task.base].ext[f] = 0]
           /\ task' = done
        \/ /\ task' = IF Ext(f) = 0 THEN done ELSE Ends(f, "failed")
           /\ UNCHANGED store
     /\ UNCHANGED <<mem, gen, cacheBase, clock, snap, writer, reader, deleted>>

-----------------------------------------------------------------------------
(***************************************************************************)
(* What follows the files.                                                 *)
(***************************************************************************)

\* Faulty variant: only what was deleted makes the snapshot stale.
OnlyIfCompleted(res) == IF "cancelled" \in res THEN snap ELSE Untaken

\* invalidateSnapshots, if the task has found anything not to be as recorded, or
\* has changed it.
Invalidated(res) ==
  IF res \cap {"deleted", "dir", "missing", "skipped"} = {} THEN snap
  ELSE Untaken

\* Whether anything is in directory d, temporary files included.
Empty(b, d) == /\ Listed(b, d) = {}
               /\ ~(writer.at = "temp" /\ writer.base = b /\ VersionOf[writer.file] = d)

\* removeVerifiedEmptyDir, holding persistMu: an empty directory, and the one
\* the scan recorded.
RemoveDir(d) ==
  LET b == task.base
      mine == store[b].dir[d] # 0 /\ store[b].dir[d] = task.seen.dir[d] /\ Empty(b, d)
      found == store[b].dir[d]
      slim == task.kind \in {"slim", "live"}
  IN /\ task.at = "next" /\ task.todo = {} /\ d \in task.touched
     /\ Current /\ MayRemoveDirs
     /\ store' = IF mine THEN [store EXCEPT ![b].dir[d] = 0] ELSE store
     /\ task' = [task EXCEPT !.touched = @ \ {d},
                   !.res = CASE mine \/ (slim /\ found = 0) -> @ \cup {"dir"}
                             [] slim /\ found \notin {0, task.seen.dir[d]} -> @ \cup {"failed"}
                             [] OTHER -> @]
     /\ UNCHANGED <<mem, gen, cacheBase, clock, snap, writer, reader, deleted>>

\* The files and their directories are done.
Pruned == task.at = "next" /\ task.todo = {} /\ task.touched = {}

\* A slim goes on with the next version.
NextVersion == /\ Pruned /\ task.kind \in {"slim", "live"}
               /\ Goes([task EXCEPT !.at = "slim"])

\* A category deletion that was asked to slim as well does, on the same snapshot.
ThenSlim ==
  /\ Pruned /\ task.kind = "both"
  /\ snap' = Invalidated(task.res)
  /\ task' = IF Current
       THEN [task EXCEPT !.kind = "slim", !.at = "slim",
                         !.dirs = Stale(SeenVersions(task.seen))]
       ELSE [task EXCEPT !.kind = "clear", !.res = @ \cup {"failed"}]
  /\ UNCHANGED <<store, mem, gen, cacheBase, clock, writer, reader, deleted>>

\* Faulty variant: files that could not be deleted are not told.
FailuresUntold(res) == IF "cancelled" \in res THEN "cancelled" ELSE "completed"

\* DeleteResult.Status, where "failed" stands for partial_failed as well.
Status(res) ==
  CASE "cancelled" \in res -> "cancelled"
    [] "cancelled" \notin res /\ "failed" \in res -> "failed"
    [] OTHER -> "completed"

\* The task has done all it had to.
Over == \/ Pruned /\ task.kind = "clear"
        \/ task.at = "slim" /\ task.dirs = {}

\* It ends: what it has done makes the snapshot stale.
Ended(res) == /\ snap' = Invalidated(res)
              /\ task' = NoTask
              /\ UNCHANGED <<store, mem, gen, cacheBase, clock, writer, reader, deleted>>

Finish == Over /\ Ended(task.res)

\* It was cancelled, or the generation or directory is another one.
Cancel == /\ task.at \in {"slim", "next"} \/ (task.at = "walk" /\ task.kind = "live")
          /\ Ended(task.res \cup {"cancelled"})

Others == \/ \E f \in Busy : MakeDir(f) \/ Look(f) \/ InvalidateFile(f) \/ Vanish(f)
          \/ MakeTemp \/ EndDownload \/ Load \/ Backfill
          \/ ClearAllWithError
          \/ \E b \in CacheBases : SwitchCacheBase(b)

Scan == \/ BeginScan \/ AbortWalk \/ PublishScan
        \/ \E d \in Dirs : EnterDir(d)
        \/ \E n \in Entries : Visit(n)

Delete == \/ BeginClear("clear") \/ BeginClear("both") \/ BeginSlim \/ BeginLive
          \/ \E d \in Dirs : SlimDir(d) \/ RemoveDir(d)
          \/ \E f \in Files : DeleteGone(f) \/ DeleteChanged(f) \/ DeleteCheck(f)
          \/ WalkedLive \/ Remove \/ RemoveExt
          \/ NextVersion \/ ThenSlim \/ Cancel \/ Finish

DeletionNext == Others \/ Scan \/ Delete

DeletionSpec == DeletionInit /\ [][DeletionNext]_deletionVars

-----------------------------------------------------------------------------
(***************************************************************************)
(* Properties.                                                             *)
(***************************************************************************)

\* A task removes a file or its metadata only from the directory that is in use,
\* and only the very one that the scan recorded: what was downloaded since, or
\* is in a directory the user has switched to, survives ("was modified or
\* replaced after the snapshot was taken: skip deleting the disk file").
OnlyTheRecorded ==
  task' # task =>
    \A b \in CacheBases, n \in Entries :
      store'[b][n[2]][n[1]] # store[b][n[2]][n[1]] =>
        /\ b = cacheBase /\ b = task.base
        /\ n[1] \in task.chosen
        /\ store[b][n[2]][n[1]] = task.seen[n[2]][n[1]]

\* As a property of every step.
NewerSurvives == [][OnlyTheRecorded]_deletionVars

\* A file that a task has deleted does not come back from memory, although a
\* lookup had loaded it before and ends afterwards.
DeletedStaysGone == \A f \in Files : mem[f] \notin deleted[f]

\* The directory that a download has made, or has its temporary file in, is not
\* removed as empty before the file is renamed into it.
DirectoryHeld ==
  writer.at # "idle" /\ writer.gen = gen =>
    store[writer.base].dir[VersionOf[writer.file]] # 0

\* A deletion that reports to be completed leaves none of the recorded files: the
\* ones that it skipped are newer ones.
CompletedMeansGone ==
  Over /\ Status(task.res) = "completed" =>
    \A f \in task.chosen : store[task.base].data[f] # task.seen.data[f]

\* Once a task is over, however it ended, a snapshot that lists a file it has
\* deleted is not accepted any more.
SnapshotForgetsDeleted ==
  task.at = "idle" /\ SnapshotValid =>
    \A f \in Files : snap.seen.data[f] \notin deleted[f]
=============================================================================
