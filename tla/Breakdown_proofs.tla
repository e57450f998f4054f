-------------------------- MODULE Breakdown_proofs --------------------------
(***************************************************************************)
(* Proofs about Breakdown, for every set of files, versions, directories   *)
(* and kinds of task, and any number of downloads and generations.         *)
(*                                                                         *)
(* The properties look at a task that is over, or at one step of it; the   *)
(* invariant says what holds between its steps: that the file it holds the *)
(* locks of is still the recorded one or gone (Locked), that what it has   *)
(* done with is not the recorded one any more (Processed), and what the    *)
(* snapshot may still list (Remembered).  All of them rest on stamps: the  *)
(* one a download will give its file is nobody's yet (StampsOK), and no    *)
(* two directories share one (StampsUnique).                               *)
(***************************************************************************)
EXTENDS Breakdown, TLAPS

\* The stamps that were given before the download that is under way.
Before == IF writer.at = "idle" THEN clock ELSE clock - 1

Bounded(tree) == \A f \in Files : tree.data[f] <= Before

StampsOK ==
  /\ \A b \in CacheBases : Bounded(store[b])
  /\ Bounded(snap.seen)
  /\ \A f \in Files : \A s \in deleted[f] : s # 0 /\ s <= Before

\* A payload is in one directory only, and nowhere once a task has deleted it.
StampsUnique ==
  /\ \A b, c \in CacheBases, f \in Files :
       store[b].data[f] = store[c].data[f] => b = c \/ store[b].data[f] = 0
  /\ \A b \in CacheBases, f \in Files : store[b].data[f] \notin deleted[f]

\* Nor in memory, now or after the lookup that is under way.
MemoryOK ==
  /\ \A f \in Files : mem[f] \notin deleted[f]
  /\ reader.file # NoFile => reader.base \in CacheBases
  /\ reader.live => reader.file \in Files /\ reader.stamp \notin deleted[reader.file]

\* A download whose token is valid is in the directory in use, which is held.
WriterOK ==
  /\ writer.at # "idle" => writer.file \in Files /\ writer.base \in CacheBases
  /\ writer.gen <= gen
  /\ writer.live => writer.gen = gen /\ writer.base = cacheBase
  /\ DirectoryHeld

\* Where a file is, its directory is.
DirsOK == \A b \in CacheBases, f \in Files :
            store[b].data[f] # 0 => store[b].dir[VersionOf[f]] # 0

\* What the stages of a task t imply.
Stage(t) ==
  /\ t.at = "idle" => t = NoTask
  /\ t.at # "idle" => t.base \in CacheBases
  /\ t.at \in {"idle", "slim", "walk"} => t.todo = {}
  /\ t.at = "walk" => t.kind \in {"scan", "live"}
  /\ t.kind = "scan" => t.at = "walk" /\ t.chosen = {} /\ t.res = {}

\* What it has chosen, it has seen; a live slim never sees it again.
Chosen(t) ==
  /\ Bounded(t.seen)
  /\ t.todo \subseteq t.chosen
  /\ \A f \in t.chosen : t.seen.data[f] # 0
  /\ t.kind = "live" =>
       /\ \A f \in t.chosen : VersionOf[f] \notin t.dirs
       /\ t.at = "walk" =>
            /\ t.dir \notin t.dirs
            /\ \A f \in t.chosen : VersionOf[f] # t.dir
            /\ \A n \in t.names : VersionOf[n[1]] = t.dir

\* The file whose locks it holds.
Locked(t) ==
  t.at \in {"remove", "ext"} =>
    /\ t.file \in t.todo
    /\ gen = t.gen /\ cacheBase = t.base
    /\ t.at = "remove" => store[t.base].data[t.file] \in {0, t.seen.data[t.file]}
    /\ t.at = "ext" => store[t.base].data[t.file] # t.seen.data[t.file]

\* The files it is done with.
Processed(t) ==
  \/ "failed" \in t.res
  \/ \A f \in t.chosen \ t.todo : store[t.base].data[f] # t.seen.data[f]

\* What the snapshot, and the one that a scan makes, may list.
Remembered(t) ==
  /\ snap.valid => \/ "deleted" \in t.res
                   \/ \A f \in Files : snap.seen.data[f] \notin deleted[f]
  /\ t.kind = "scan" => \A f \in Files : t.seen.data[f] \notin deleted[f]

TaskOK(t) == /\ t \in Tasks
             /\ Stage(t) /\ Chosen(t) /\ Locked(t) /\ Processed(t) /\ Remembered(t)

\* All but the task.
World == /\ store \in [CacheBases -> Stores]
         /\ mem \in [Files -> Stamps]
         /\ gen \in 1 .. MaxGen /\ cacheBase \in CacheBases /\ clock \in 1 .. MaxStamp
         /\ snap \in Snapshots /\ writer \in Writers /\ reader \in Readers
         /\ deleted \in [Files -> SUBSET Stamps]
         /\ StampsOK /\ StampsUnique /\ MemoryOK /\ WriterOK /\ DirsOK

IInv == World /\ TaskOK(task)

-----------------------------------------------------------------------------
(***************************************************************************)
(* Facts that the steps below use.                                         *)
(***************************************************************************)
LEMMA VersionInDirs == \A f \in Files : VersionOf[f] \in Dirs
BY DEF Dirs

LEMMA NothingIn == Nothing \in Stores /\ \A f \in Files : Nothing.data[f] = 0
<1>1. 0 \in Stamps
  BY BoundAssumption DEF Stamps
<1> QED BY <1>1 DEF Nothing, Stores

LEMMA NoTaskIn == NoTask \in Tasks
BY NothingIn DEF NoTask, Tasks, DeletionKinds, Places

\* The parts of the invariant, and the types, as the steps need them.
LEMMA Kept ==
  ASSUME IInv
  PROVE  /\ World /\ StampsOK /\ StampsUnique /\ MemoryOK /\ WriterOK /\ DirsOK
         /\ task \in Tasks /\ Stage(task) /\ Chosen(task) /\ Locked(task)
         /\ Processed(task) /\ Remembered(task)
         /\ store \in [CacheBases -> Stores]
         /\ gen \in Nat /\ cacheBase \in CacheBases /\ clock \in Nat /\ clock # 0
         /\ snap \in Snapshots /\ writer \in Writers /\ reader \in Readers
BY BoundAssumption DEF IInv, World, TaskOK

LEMMA NoTaskOK ==
  ASSUME World, snap.valid => \A f \in Files : snap.seen.data[f] \notin deleted[f]
  PROVE  TaskOK(NoTask)
<1>1. NoTask \in Tasks
  BY NoTaskIn
<1>2. Bounded(NoTask.seen)
  BY NothingIn DEF Bounded, NoTask, World, StampsOK, Before
<1> QED BY <1>1, <1>2 DEF TaskOK, Stage, Chosen, Locked, Processed, Remembered, NoTask

LEMMA InitIInv == DeletionInit => IInv
<1> SUFFICES ASSUME DeletionInit PROVE IInv
  OBVIOUS
<1>1. /\ 0 \in Stamps /\ 1 \in Stamps /\ 1 \in 1 .. MaxGen /\ 1 \in 1 .. MaxStamp
  BY BoundAssumption DEF Stamps
<1>2. /\ store \in [CacheBases -> Stores]
      /\ \A b \in CacheBases, f \in Files :
           /\ store[b].data[f] = IF b = cacheBase THEN 1 ELSE 0
           /\ b = cacheBase => store[b].dir[VersionOf[f]] = 1
  BY <1>1, NothingIn, VersionInDirs DEF DeletionInit, Stores
<1>3. /\ mem \in [Files -> Stamps] /\ deleted \in [Files -> SUBSET Stamps]
      /\ snap \in Snapshots /\ writer \in Writers /\ reader \in Readers
      /\ ~snap.valid /\ reader = NoReader /\ writer = NoWriter /\ snap.seen = Nothing
      /\ \A f \in Files : deleted[f] = {}
      /\ cacheBase \in CacheBases /\ gen = 1 /\ clock = 1 /\ task = NoTask
  BY <1>1, NothingIn DEF DeletionInit, Snapshots, Writers, Readers, Untaken, NoWriter, NoReader
<1>4. StampsOK
  BY <1>2, <1>3, NothingIn DEF StampsOK, Bounded, Before, NoWriter
<1>5. StampsUnique /\ DirsOK
  BY <1>2, <1>3 DEF StampsUnique, DirsOK
<1>6. MemoryOK /\ WriterOK
  <2>1. MemoryOK
    BY <1>1, <1>3 DEF MemoryOK, NoReader, DeletionInit
  <2>2. WriterOK
    BY <1>3 DEF WriterOK, DirectoryHeld, NoWriter
  <2> QED BY <2>1, <2>2
<1>7. World
  BY <1>1, <1>2, <1>3, <1>4, <1>5, <1>6 DEF World
<1> QED BY <1>3, <1>7, NoTaskOK DEF IInv

-----------------------------------------------------------------------------
(***************************************************************************)
(* Steps of a task that change nothing else.                               *)
(***************************************************************************)
LEMMA GoesIInv ==
  ASSUME IInv, NEW t, Goes(t), TaskOK(t)
  PROVE  IInv'
<1>1. /\ task' = t
      /\ UNCHANGED <<store, mem, gen, cacheBase, clock, snap, writer, reader, deleted>>
  BY DEF Goes
<1>2. World'
  BY <1>1 DEF IInv, World, StampsOK, Bounded, Before, StampsUnique, MemoryOK, WriterOK,
     DirectoryHeld, DirsOK
<1>3. TaskOK(task)'
  BY <1>1 DEF TaskOK, Stage, Chosen, Bounded, Before, Locked, Processed, Remembered
<1> QED BY <1>2, <1>3 DEF IInv

LEMMA BeginScanIInv == ASSUME IInv, BeginScan PROVE IInv'
<1> DEFINE t == [NoTask EXCEPT !.kind = "scan", !.at = "walk", !.gen = gen,
                               !.base = cacheBase, !.dirs = Dirs]
<1>1. Goes(t) /\ task = NoTask
  BY Kept DEF BeginScan, Stage
<1>2. /\ t \in Tasks /\ t.kind = "scan" /\ t.at = "walk" /\ t.base = cacheBase
      /\ t.seen = NoTask.seen /\ t.todo = NoTask.todo /\ t.chosen = NoTask.chosen
      /\ t.res = NoTask.res
  BY NoTaskIn, Kept DEF Tasks, DeletionKinds, Places
<1>3. /\ t.seen = Nothing /\ t.todo = {} /\ t.chosen = {} /\ t.res = {} /\ task.res = {}
      /\ cacheBase \in CacheBases
  BY <1>1, <1>2, Kept DEF NoTask
<1> HIDE DEF t
<1>4. Stage(t) /\ Locked(t) /\ Processed(t)
  BY <1>2, <1>3 DEF Stage, Locked, Processed
<1>5. Chosen(t)
  BY <1>2, <1>3, NothingIn, Kept DEF Chosen, Bounded, Before, StampsOK
<1>6. Remembered(t)
  BY <1>2, <1>3, NothingIn, Kept DEF Remembered, StampsOK
<1> QED BY <1>1, <1>2, <1>4, <1>5, <1>6, GoesIInv DEF TaskOK

\* A task that changes neither what it has chosen nor what it has seen of files.
LEMMA Steady ==
  ASSUME IInv, task.at # "idle", NEW t, t \in Tasks, Stage(t), Locked(t),
         t.base = task.base, t.kind = task.kind, t.seen.data = task.seen.data,
         t.chosen = task.chosen, task.res \subseteq t.res, t.todo \subseteq task.todo,
         t.dirs \subseteq task.dirs,
         t.kind = "live" /\ t.at = "walk" =>
           task.at = "walk" /\ t.dir = task.dir /\ t.names \subseteq task.names,
         \A f \in task.todo \ t.todo :
           "failed" \in t.res \/ store[task.base].data[f] # task.seen.data[f]
  PROVE  TaskOK(t)
<1>1. Chosen(t)
  BY Kept DEF Chosen, Bounded
<1>2. Processed(t)
  BY Kept DEF Processed
<1>3. Remembered(t)
  BY Kept DEF Remembered
<1> QED BY <1>1, <1>2, <1>3 DEF TaskOK

LEMMA EnterDirIInv == ASSUME IInv, NEW d \in Dirs, EnterDir(d) PROVE IInv'
<1> DEFINE seen == [task.seen EXCEPT !.dir[d] = store[task.base].dir[d]]
           t == [task EXCEPT !.dirs = @ \ {d}, !.seen.dir[d] = store[task.base].dir[d],
                             !.names = Listed(task.base, d)]
<1>1. Goes(t) /\ task.at = "walk" /\ task.kind = "scan" /\ task \in Tasks
      /\ task.base \in CacheBases /\ store[task.base] \in Stores /\ Stage(task)
  BY Kept DEF EnterDir, Stage
<1>2. seen \in Stores /\ seen.data = task.seen.data
  BY <1>1 DEF Stores, Tasks
<1>3. t.seen = seen
  BY <1>1 DEF Tasks, Stores
<1>4. /\ t \in Tasks /\ t.at = task.at /\ t.kind = task.kind /\ t.base = task.base
      /\ t.chosen = task.chosen /\ t.res = task.res /\ t.todo = task.todo
      /\ t.dirs \subseteq task.dirs /\ t.seen.data = task.seen.data
  <2>1. Listed(task.base, d) \subseteq Entries
    BY DEF Listed
  <2> HIDE DEF seen
  <2> QED BY <1>1, <1>2, <1>3, <2>1 DEF Tasks
<1> HIDE DEF t
<1>5. Stage(t) /\ Locked(t)
  BY <1>1, <1>4 DEF Stage, Locked, NoTask
<1>6. TaskOK(t)
  BY <1>1, <1>4, <1>5, Steady
<1> QED BY <1>1, <1>6, GoesIInv

\* A visit records what there is, of a file that the task has not chosen.
LEMMA VisitIInv == ASSUME IInv, NEW n \in Entries, Visit(n) PROVE IInv'
<1> DEFINE seen == IF There(task.base, n)
                     THEN [task.seen EXCEPT ![n[2]][n[1]] = store[task.base][n[2]][n[1]]]
                     ELSE task.seen
           res == IF There(task.base, n) \/ task.kind = "scan" THEN task.res
                  ELSE task.res \cup {"failed"}
           t == [task EXCEPT !.names = @ \ {n}, !.seen = seen, !.res = res]
<1>1. Goes(t) /\ task.at = "walk" /\ n \in task.names /\ task \in Tasks
      /\ task.base \in CacheBases /\ store[task.base] \in Stores /\ task.seen \in Stores
      /\ Stage(task) /\ Chosen(task) /\ Processed(task) /\ Remembered(task)
  BY Kept DEF Visit, Stage, Tasks
<1>2. /\ seen \in Stores
      /\ \A f \in Files : \/ seen.data[f] = task.seen.data[f]
                          \/ f = n[1] /\ seen.data[f] = store[task.base].data[f]
  <2>1. n[1] \in Files /\ n[2] \in {"data", "ext"}
    BY DEF Entries
  <2>2. CASE n[2] = "data"
    <3>1. [task.seen EXCEPT !["data"][n[1]] = store[task.base]["data"][n[1]]] \in Stores
      BY <1>1, <2>1 DEF Stores
    <3> QED BY <1>1, <2>1, <2>2, <3>1 DEF Stores
  <2>3. CASE n[2] = "ext"
    <3>1. [task.seen EXCEPT !["ext"][n[1]] = store[task.base]["ext"][n[1]]] \in Stores
      BY <1>1, <2>1 DEF Stores
    <3> QED BY <1>1, <2>1, <2>3, <3>1 DEF Stores
  <2> QED BY <2>1, <2>2, <2>3
<1>3. /\ t \in Tasks /\ t.at = task.at /\ t.kind = task.kind /\ t.base = task.base
      /\ t.chosen = task.chosen /\ t.todo = task.todo /\ t.dirs = task.dirs
      /\ t.dir = task.dir /\ t.names \subseteq task.names /\ t.seen = seen /\ t.res = res
  <2>1. res \subseteq Results
    BY <1>1 DEF Tasks, Results
  <2> HIDE DEF seen, res
  <2> QED BY <1>1, <1>2, <2>1 DEF Tasks
<1>4. task.res \subseteq res /\ (task.kind = "scan" => res = task.res)
  OBVIOUS
<1> HIDE DEF t, seen, res
<1>5. \A f \in Files : t.seen.data[f] \in {task.seen.data[f], store[task.base].data[f]}
  BY <1>2, <1>3
<1>6. \A f \in task.chosen : t.seen.data[f] = task.seen.data[f]
  <2> SUFFICES ASSUME NEW f \in task.chosen PROVE f \in Files /\ f # n[1]
    BY <1>2, <1>3
  <2>1. task.kind = "live"
    BY <1>1 DEF Stage
  <2> QED BY <1>1, <2>1 DEF Chosen, Tasks
<1>7. Stage(t) /\ Locked(t) /\ Processed(t)
  BY <1>1, <1>3, <1>4, <1>6 DEF Stage, Locked, Processed, NoTask
<1>8. Chosen(t)
  BY <1>1, <1>3, <1>5, <1>6, Kept DEF Chosen, Bounded, StampsOK
<1>9. Remembered(t)
  BY <1>1, <1>3, <1>4, <1>5, Kept DEF Remembered, StampsUnique
<1> QED BY <1>1, <1>3, <1>7, <1>8, <1>9, GoesIInv DEF TaskOK

LEMMA AbortWalkIInv == ASSUME IInv, AbortWalk PROVE IInv'
<1>1. snap.valid => \A f \in Files : snap.seen.data[f] \notin deleted[f]
  BY Kept DEF AbortWalk, Stage, Remembered
<1> QED BY <1>1, Kept, NoTaskOK, GoesIInv DEF AbortWalk

\* A task that begins, from the snapshot or from nothing.
LEMMA Begun ==
  ASSUME IInv, task = NoTask, NEW t \in Tasks, t.at \in {"slim", "next"},
         t.kind \in {"clear", "slim", "both", "live"},
         t.base = cacheBase, t.todo = t.chosen, t.res = {}, Bounded(t.seen),
         t.chosen = {} \/ (t.at = "next" /\ t.chosen = FilesOf(t.seen, 0) /\ t.kind # "live")
  PROVE  TaskOK(t)
<1>1. task.res = {} /\ cacheBase \in CacheBases
  BY Kept DEF NoTask
<1>2. Stage(t) /\ Locked(t) /\ Processed(t)
  BY <1>1 DEF Stage, Locked, Processed
<1>3. Chosen(t)
  BY DEF Chosen, FilesOf
<1>4. Remembered(t)
  BY <1>1, Kept DEF Remembered
<1> QED BY <1>2, <1>3, <1>4 DEF TaskOK

LEMMA BeginClearIInv ==
  ASSUME IInv, NEW kind, BeginClear(kind) PROVE IInv'
<1> DEFINE chosen == FilesOf(snap.seen, 0)
           t == [NoTask EXCEPT !.kind = kind, !.at = "next", !.gen = snap.gen,
                   !.base = snap.base, !.seen = snap.seen, !.todo = chosen, !.chosen = chosen]
<1>1. Goes(t) /\ task = NoTask /\ snap.base = cacheBase /\ kind \in {"clear", "both"}
  BY Kept DEF BeginClear, Stage, SnapshotValid
<1>2. chosen \subseteq Files /\ snap.seen \in Stores /\ snap.gen \in Nat /\ Bounded(snap.seen)
  BY Kept DEF FilesOf, Snapshots, StampsOK
<1>3. NoTask.res = {}
  BY DEF NoTask
<1> HIDE DEF chosen
<1>4. /\ t \in Tasks /\ t.at = "next" /\ t.kind = kind /\ t.base = cacheBase
      /\ t.todo = chosen /\ t.chosen = chosen /\ t.seen = snap.seen /\ t.res = {}
  BY <1>1, <1>2, <1>3, NoTaskIn, Kept DEF Tasks, DeletionKinds, Places
<1>5. t.chosen = FilesOf(t.seen, 0)
  BY <1>4 DEF chosen
<1> HIDE DEF t
<1>6. TaskOK(t)
  BY <1>1, <1>2, <1>4, <1>5, Begun
<1> QED BY <1>1, <1>6, GoesIInv

LEMMA StaleIn == ASSUME NEW vs, NEW S, vs \subseteq S PROVE Stale(vs) \subseteq S
BY DEF Stale

LEMMA SeenVersionsIn == \A seen : SeenVersions(seen) \subseteq Dirs /\ 0 \notin SeenVersions(seen)
BY DEF SeenVersions, Dirs

LEMMA BeginSlimIInv == ASSUME IInv, BeginSlim PROVE IInv'
<1> DEFINE dirs == Stale(SeenVersions(snap.seen))
           t == [NoTask EXCEPT !.kind = "slim", !.at = "slim", !.gen = snap.gen,
                   !.base = snap.base, !.seen = snap.seen, !.dirs = dirs]
<1>1. Goes(t) /\ task = NoTask /\ snap.base = cacheBase
  BY Kept DEF BeginSlim, Stage, SnapshotValid
<1>2. snap.seen \in Stores /\ snap.gen \in Nat /\ Bounded(snap.seen) /\ dirs \subseteq Dirs
  BY Kept, StaleIn, SeenVersionsIn DEF Snapshots, StampsOK
<1>3. NoTask.res = {} /\ NoTask.todo = {} /\ NoTask.chosen = {}
  BY DEF NoTask
<1> HIDE DEF dirs
<1>4. /\ t \in Tasks /\ t.at = "slim" /\ t.kind = "slim" /\ t.base = cacheBase
      /\ t.todo = {} /\ t.chosen = {} /\ t.seen = snap.seen /\ t.res = {}
  BY <1>1, <1>2, <1>3, NoTaskIn, Kept DEF Tasks, DeletionKinds, Places
<1> HIDE DEF t
<1>5. TaskOK(t)
  BY <1>1, <1>2, <1>4, Begun
<1> QED BY <1>1, <1>5, GoesIInv

LEMMA BeginLiveIInv == ASSUME IInv, BeginLive PROVE IInv'
<1> DEFINE seen == [NoTask.seen EXCEPT !.dir = store[cacheBase].dir]
           dirs == Stale({d \in Dirs \ {0} : store[cacheBase].dir[d] # 0})
           t == [NoTask EXCEPT !.kind = "live", !.at = "slim", !.gen = gen,
                   !.base = cacheBase, !.seen.dir = store[cacheBase].dir, !.dirs = dirs]
<1>1. Goes(t) /\ task = NoTask
  BY Kept DEF BeginLive, Stage
<1>2. /\ seen \in Stores /\ \A f \in Files : seen.data[f] = 0
      /\ dirs \subseteq Dirs
  BY NothingIn, Kept, StaleIn DEF NoTask, Stores
<1>3. NoTask.res = {} /\ NoTask.todo = {} /\ NoTask.chosen = {}
  BY DEF NoTask
<1>4. t.seen = seen
  BY NoTaskIn DEF Tasks, Stores
<1> HIDE DEF dirs, seen
<1>5. /\ t \in Tasks /\ t.at = "slim" /\ t.kind = "live" /\ t.base = cacheBase
      /\ t.todo = {} /\ t.chosen = {} /\ t.res = {}
  BY <1>2, <1>3, <1>4, NoTaskIn, Kept DEF Tasks, DeletionKinds, Places
<1> HIDE DEF t
<1>6. Bounded(t.seen)
  BY <1>2, <1>4, Kept DEF Bounded, Before
<1>7. TaskOK(t)
  BY <1>1, <1>5, <1>6, Begun
<1> QED BY <1>1, <1>7, GoesIInv

\* A task that chooses files of one more version.
LEMMA Chooses ==
  ASSUME IInv, task.at \in {"slim", "walk"}, task.kind # "scan",
         NEW t \in Tasks, NEW d, NEW files, t.at = "next",
         files = FilesOf(task.seen, d), t.todo = files, t.chosen = task.chosen \cup files,
         t.base = task.base, t.kind = task.kind, t.seen = task.seen, t.res = task.res,
         t.dirs \subseteq task.dirs, d \notin t.dirs
  PROVE  TaskOK(t)
<1>1. /\ task.base \in CacheBases /\ task.chosen \subseteq Files
      /\ files \subseteq Files /\ \A f \in files : VersionOf[f] = d /\ task.seen.data[f] # 0
  BY Kept DEF Stage, NoTask, Tasks, FilesOf
<1>2. Stage(t) /\ Locked(t)
  BY <1>1 DEF Stage, Locked
<1>3. Chosen(t)
  BY <1>1, Kept DEF Chosen, Bounded
<1>4. Processed(t) /\ Remembered(t)
  BY <1>1, Kept DEF Processed, Remembered, Stage
<1> QED BY <1>2, <1>3, <1>4 DEF TaskOK

LEMMA SlimDirIInv == ASSUME IInv, NEW d \in Dirs, SlimDir(d) PROVE IInv'
<1> DEFINE found == store[task.base].dir[d]
           files == FilesOf(task.seen, d)
           rest == [task EXCEPT !.dirs = @ \ {d}]
<1>1. /\ task.at = "slim" /\ d \in task.dirs /\ task \in Tasks
      /\ task.kind # "scan" /\ task.todo = {} /\ task.base \in CacheBases
      /\ Chosen(task)
  BY Kept DEF SlimDir, Stage
<1>2. files \subseteq Files
  BY DEF FilesOf
<1>3. CASE \E r \in {{}, {"missing"}, {"failed"}} : Goes([rest EXCEPT !.res = @ \cup r])
  <2>1. PICK r \in {{}, {"missing"}, {"failed"}} : Goes([rest EXCEPT !.res = @ \cup r])
    BY <1>3
  <2> DEFINE t == [rest EXCEPT !.res = @ \cup r]
  <2>2. /\ t \in Tasks /\ t.at = task.at /\ t.kind = task.kind /\ t.base = task.base
        /\ t.chosen = task.chosen /\ t.todo = task.todo /\ t.seen = task.seen
        /\ t.dirs \subseteq task.dirs /\ task.res \subseteq t.res
    BY <1>1 DEF Tasks, Results
  <2> HIDE DEF t
  <2>3. Stage(t) /\ Locked(t)
    BY <1>1, <2>2 DEF Stage, Locked
  <2>4. TaskOK(t)
    BY <1>1, <2>2, <2>3, Steady
  <2> QED BY <2>1, <2>4, GoesIInv DEF t
<1>4. CASE /\ task.kind # "live"
           /\ Goes([rest EXCEPT !.at = "next", !.dir = d, !.todo = files,
                                !.chosen = @ \cup files, !.touched = {d}])
  <2> DEFINE t == [rest EXCEPT !.at = "next", !.dir = d, !.todo = files,
                               !.chosen = @ \cup files, !.touched = {d}]
  <2> HIDE DEF files
  <2>1. /\ t \in Tasks /\ t.at = "next" /\ t.kind = task.kind /\ t.base = task.base
        /\ t.chosen = task.chosen \cup files /\ t.todo = files /\ t.seen = task.seen
        /\ t.dirs = task.dirs \ {d} /\ t.res = task.res
    BY <1>1, <1>2 DEF Tasks, Places
  <2>2. files = FilesOf(task.seen, d)
    BY DEF files
  <2> HIDE DEF t
  <2>3. TaskOK(t)
    BY <1>1, <2>1, <2>2, Chooses
  <2> QED BY <1>4, <2>3, GoesIInv DEF t
<1>5. CASE /\ task.kind = "live"
           /\ Goes([rest EXCEPT !.at = "walk", !.dir = d, !.names = Listed(task.base, d)])
  <2> DEFINE t == [rest EXCEPT !.at = "walk", !.dir = d, !.names = Listed(task.base, d)]
  <2>1. /\ Listed(task.base, d) \subseteq Entries
        /\ \A n \in Listed(task.base, d) : VersionOf[n[1]] = d
    BY DEF Listed
  <2>2. /\ t \in Tasks /\ t.at = "walk" /\ t.kind = task.kind /\ t.base = task.base
        /\ t.chosen = task.chosen /\ t.todo = task.todo /\ t.seen = task.seen
        /\ t.dirs = task.dirs \ {d} /\ t.res = task.res /\ t.dir = d
        /\ t.names = Listed(task.base, d)
    BY <1>1, <2>1 DEF Tasks, Places
  <2> HIDE DEF t
  <2>3. Stage(t) /\ Locked(t)
    BY <1>1, <1>5, <2>2 DEF Stage, Locked
  <2>4. Chosen(t)
    BY <1>1, <1>5, <2>1, <2>2 DEF Chosen, Bounded
  <2>5. Processed(t) /\ Remembered(t)
    BY <1>1, <2>2, Kept DEF Processed, Remembered
  <2>6. TaskOK(t)
    BY <2>2, <2>3, <2>4, <2>5 DEF TaskOK
  <2> QED BY <1>5, <2>6, GoesIInv DEF t
<1>6. \/ \E r \in {{}, {"missing"}} : Goes([rest EXCEPT !.res = @ \cup r])
      \/ Goes([rest EXCEPT !.res = @ \cup {"failed"}])
      \/ /\ task.kind # "live"
         /\ Goes([rest EXCEPT !.at = "next", !.dir = d, !.todo = files,
                              !.chosen = @ \cup files, !.touched = {d}])
      \/ /\ task.kind = "live"
         /\ Goes([rest EXCEPT !.at = "walk", !.dir = d, !.names = Listed(task.base, d)])
  <2>1. [rest EXCEPT !.res = IF files = {} THEN @ ELSE @ \cup {"missing"}]
          = [rest EXCEPT !.res = @ \cup (IF files = {} THEN {} ELSE {"missing"})]
    OBVIOUS
  <2> QED BY <2>1 DEF SlimDir
<1> QED BY <1>3, <1>4, <1>5, <1>6

LEMMA WalkedLiveIInv == ASSUME IInv, WalkedLive PROVE IInv'
<1> DEFINE files == FilesOf(task.seen, task.dir)
<1>1. /\ task.at = "walk" /\ task.kind = "live" /\ task \in Tasks
      /\ task.todo = {} /\ task.base \in CacheBases /\ task.dir \notin task.dirs
  BY Kept DEF WalkedLive, Stage, Chosen
<1>2. files \subseteq Files /\ files = FilesOf(task.seen, task.dir)
      /\ (files # {} => task.dir \in Dirs)
  BY DEF FilesOf, Dirs
<1>3. \/ files = {} /\ Goes([task EXCEPT !.at = "slim"])
      \/ files # {} /\ Goes([task EXCEPT !.at = "next", !.todo = files,
                               !.chosen = @ \cup files, !.touched = {task.dir}])
  BY DEF WalkedLive
<1> HIDE DEF files
<1>4. CASE Goes([task EXCEPT !.at = "slim"])
  <2> DEFINE t == [task EXCEPT !.at = "slim"]
  <2>1. /\ t \in Tasks /\ t.at = "slim" /\ t.kind = task.kind /\ t.base = task.base
        /\ t.chosen = task.chosen /\ t.todo = task.todo /\ t.seen = task.seen
        /\ t.dirs = task.dirs /\ t.res = task.res
    BY <1>1 DEF Tasks, Places
  <2> HIDE DEF t
  <2>2. Stage(t) /\ Locked(t)
    BY <1>1, <2>1 DEF Stage, Locked
  <2>3. TaskOK(t)
    BY <1>1, <2>1, <2>2, Steady
  <2> QED BY <1>4, <2>3, GoesIInv DEF t
<1>5. CASE files # {} /\ Goes([task EXCEPT !.at = "next", !.todo = files,
                                 !.chosen = @ \cup files, !.touched = {task.dir}])
  <2> DEFINE t == [task EXCEPT !.at = "next", !.todo = files, !.chosen = @ \cup files,
                               !.touched = {task.dir}]
  <2>1. /\ t \in Tasks /\ t.at = "next" /\ t.kind = task.kind /\ t.base = task.base
        /\ t.chosen = task.chosen \cup files /\ t.todo = files /\ t.seen = task.seen
        /\ t.dirs = task.dirs /\ t.res = task.res
    BY <1>1, <1>2, <1>5 DEF Tasks, Places
  <2> HIDE DEF t
  <2>2. TaskOK(t)
    BY <1>1, <1>2, <2>1, Chooses
  <2> QED BY <1>5, <2>2, GoesIInv DEF t
<1> QED BY <1>3, <1>4, <1>5

\* A file that the task is done with.
LEMMA EndsFile ==
  ASSUME task \in Tasks, NEW f \in Files, NEW result \in Results
  PROVE  /\ Ends(f, result) \in Tasks /\ Ends(f, result).at = "next"
         /\ Ends(f, result).kind = task.kind /\ Ends(f, result).base = task.base
         /\ Ends(f, result).seen = task.seen /\ Ends(f, result).chosen = task.chosen
         /\ Ends(f, result).todo = task.todo \ {f} /\ Ends(f, result).dirs = task.dirs
         /\ Ends(f, result).res = task.res \cup {result}
BY DEF Ends, Tasks, Places

\* ... because it is not the recorded file, or with a failure.
LEMMA EndsOK ==
  ASSUME IInv, NEW f \in task.todo, NEW result \in Results,
         result = "failed" \/ store[task.base].data[f] # task.seen.data[f]
  PROVE  TaskOK(Ends(f, result))
<1>1. /\ task \in Tasks /\ f \in Files /\ task.at \notin {"idle", "slim", "walk"}
      /\ task.base \in CacheBases /\ task.kind # "scan"
  BY Kept DEF Tasks, Stage
<1>2. Stage(Ends(f, result)) /\ Locked(Ends(f, result))
  BY <1>1, EndsFile DEF Stage, Locked
<1> QED BY <1>1, <1>2, EndsFile, Steady

LEMMA DeleteChangedIInv == ASSUME IInv, NEW f, DeleteChanged(f) PROVE IInv'
<1>1. f \in task.todo
  BY DEF DeleteChanged
<1>2. CASE Goes(Ends(f, "failed"))
  BY <1>1, <1>2, EndsOK, GoesIInv DEF Results
<1>3. CASE ~Unchanged(f) /\ Goes(Ends(f, "skipped"))
  BY <1>1, <1>3, EndsOK, GoesIInv DEF Results, Unchanged
<1> QED BY <1>2, <1>3 DEF DeleteChanged

LEMMA DeleteCheckIInv == ASSUME IInv, NEW f, DeleteCheck(f) PROVE IInv'
<1> DEFINE t == [task EXCEPT !.at = "remove", !.file = f]
<1>1. /\ Goes(t) /\ f \in task.todo /\ f \in Files /\ task.at = "next" /\ task \in Tasks
      /\ gen = task.gen /\ cacheBase = task.base
      /\ store[task.base].data[f] = task.seen.data[f]
  BY Kept DEF DeleteCheck, Current, Unchanged, Tasks
<1>2. /\ t \in Tasks /\ t.at = "remove" /\ t.file = f /\ t.kind = task.kind
      /\ t.base = task.base /\ t.gen = task.gen /\ t.seen = task.seen /\ t.dirs = task.dirs
      /\ t.chosen = task.chosen /\ t.todo = task.todo /\ t.res = task.res
  BY <1>1 DEF Tasks, Places
<1> HIDE DEF t
<1>3. Stage(t) /\ Locked(t)
  BY <1>1, <1>2, Kept DEF Stage, Locked
<1>4. TaskOK(t)
  BY <1>1, <1>2, <1>3, Steady
<1> QED BY <1>1, <1>4, GoesIInv

LEMMA NextVersionIInv == ASSUME IInv, NextVersion PROVE IInv'
<1> DEFINE t == [task EXCEPT !.at = "slim"]
<1>1. /\ Goes(t) /\ task.at = "next" /\ task.todo = {} /\ task \in Tasks
      /\ task.kind \in {"slim", "live"}
  BY Kept DEF NextVersion, Pruned
<1>2. /\ t \in Tasks /\ t.at = "slim" /\ t.kind = task.kind
      /\ t.base = task.base /\ t.seen = task.seen /\ t.dirs = task.dirs
      /\ t.chosen = task.chosen /\ t.todo = task.todo /\ t.res = task.res
  BY <1>1 DEF Tasks, Places
<1> HIDE DEF t
<1>3. Stage(t) /\ Locked(t)
  BY <1>1, <1>2, Kept DEF Stage, Locked
<1>4. TaskOK(t)
  BY <1>1, <1>2, <1>3, Steady
<1> QED BY <1>1, <1>4, GoesIInv

-----------------------------------------------------------------------------
(***************************************************************************)
(* Steps that change the snapshot.                                         *)
(***************************************************************************)
LEMMA SnapshotIInv ==
  ASSUME IInv, UNCHANGED <<store, mem, gen, cacheBase, clock, writer, reader, deleted>>,
         NEW s \in Snapshots, snap' = s, Bounded(s.seen),
         NEW t \in Tasks, task' = t, t.kind # "scan",
         Stage(t), Chosen(t), Locked(t), Processed(t),
         s.valid /\ "deleted" \notin t.res => \A f \in Files : s.seen.data[f] \notin deleted[f]
  PROVE  IInv'
<1>1. StampsOK'
  BY Kept DEF StampsOK, Bounded, Before
<1>2. World'
  BY <1>1, Kept DEF World, StampsUnique, MemoryOK, WriterOK, DirectoryHeld, DirsOK
<1>3. Stage(task)' /\ Chosen(task)' /\ Locked(task)' /\ Processed(task)'
  BY DEF Stage, Chosen, Bounded, Before, Locked, Processed
<1>4. Remembered(task)'
  BY DEF Remembered
<1> QED BY <1>2, <1>3, <1>4 DEF IInv, TaskOK

LEMMA UntakenIn == Untaken \in Snapshots /\ ~Untaken.valid /\ Untaken.seen = Nothing
BY NothingIn DEF Untaken, Snapshots

LEMMA InvalidatedIs ==
  ASSUME IInv, NEW res
  PROVE  /\ Invalidated(res) \in Snapshots /\ Bounded(Invalidated(res).seen)
         /\ Invalidated(res) = snap \/ ~Invalidated(res).valid
         /\ "deleted" \in res => ~Invalidated(res).valid
<1>1. Bounded(Nothing)
  BY NothingIn, Kept DEF Bounded, Before
<1>2. Bounded(snap.seen) /\ snap \in Snapshots
  BY Kept DEF StampsOK
<1>3. CASE res \cap {"deleted", "dir", "missing", "skipped"} = {}
  BY <1>2, <1>3 DEF Invalidated
<1>4. CASE res \cap {"deleted", "dir", "missing", "skipped"} # {}
  BY <1>1, <1>4, UntakenIn DEF Invalidated
<1> QED BY <1>3, <1>4

\* After a task has deleted a file, its end makes the snapshot stale.
LEMMA EndedIInv == ASSUME IInv, NEW res, task.res \subseteq res, Ended(res) PROVE IInv'
<1> DEFINE s == Invalidated(res)
<1>1. /\ s \in Snapshots /\ Bounded(s.seen) /\ (s = snap \/ ~s.valid)
      /\ "deleted" \in res => ~s.valid
  BY InvalidatedIs
<1>2. /\ snap' = s /\ task' = NoTask
      /\ UNCHANGED <<store, mem, gen, cacheBase, clock, writer, reader, deleted>>
  BY DEF Ended
<1> HIDE DEF s
<1>3. s.valid => \A f \in Files : s.seen.data[f] \notin deleted[f]
  BY <1>1, Kept DEF Remembered
<1>4. /\ NoTask \in Tasks /\ NoTask.kind # "scan" /\ Stage(NoTask)
      /\ Locked(NoTask) /\ Processed(NoTask)
  BY NoTaskIn DEF NoTask, Stage, Locked, Processed
<1>5. Chosen(NoTask)
  BY NothingIn, Kept DEF NoTask, Chosen, Bounded, Before
<1> QED BY <1>1, <1>2, <1>3, <1>4, <1>5, SnapshotIInv

LEMMA PublishScanIInv == ASSUME IInv, PublishScan PROVE IInv'
<1> DEFINE s == IF Current THEN Taken(task) ELSE snap
<1>1. /\ snap' = s /\ task' = NoTask /\ task.kind = "scan"
      /\ UNCHANGED <<store, mem, gen, cacheBase, clock, writer, reader, deleted>>
  BY DEF PublishScan
<1>2. /\ Taken(task) \in Snapshots /\ Taken(task).seen = task.seen
  BY Kept DEF Taken, Snapshots, Tasks
<1>3. /\ s \in Snapshots /\ Bounded(s.seen)
      /\ s.valid => \A f \in Files : s.seen.data[f] \notin deleted[f]
  <2>1. Bounded(task.seen) /\ \A f \in Files : task.seen.data[f] \notin deleted[f]
    BY <1>1, Kept DEF Chosen, Remembered
  <2>2. /\ Bounded(snap.seen) /\ snap \in Snapshots
        /\ snap.valid => \A f \in Files : snap.seen.data[f] \notin deleted[f]
    BY <1>1, Kept DEF StampsOK, Remembered, Stage
  <2> QED BY <1>2, <2>1, <2>2
<1>4. /\ NoTask \in Tasks /\ NoTask.kind # "scan" /\ Stage(NoTask)
      /\ Locked(NoTask) /\ Processed(NoTask)
  BY NoTaskIn DEF NoTask, Stage, Locked, Processed
<1>5. Chosen(NoTask)
  BY NothingIn, Kept DEF NoTask, Chosen, Bounded, Before
<1> HIDE DEF s
<1> QED BY <1>1, <1>3, <1>4, <1>5, SnapshotIInv

LEMMA ThenSlimIInv == ASSUME IInv, ThenSlim PROVE IInv'
<1> DEFINE s == Invalidated(task.res)
           dirs == Stale(SeenVersions(task.seen))
           slim == [task EXCEPT !.kind = "slim", !.at = "slim", !.dirs = dirs]
           fails == [task EXCEPT !.kind = "clear", !.res = @ \cup {"failed"}]
<1>1. /\ s \in Snapshots /\ Bounded(s.seen) /\ (s = snap \/ ~s.valid)
      /\ "deleted" \in task.res => ~s.valid
  BY InvalidatedIs
<1>2. /\ snap' = s /\ task' \in {slim, fails}
      /\ task.at = "next" /\ task.todo = {} /\ task.kind = "both" /\ task \in Tasks
      /\ UNCHANGED <<store, mem, gen, cacheBase, clock, writer, reader, deleted>>
  BY Kept DEF ThenSlim, Pruned
<1>3. dirs \subseteq Dirs
  BY StaleIn, SeenVersionsIn
<1> HIDE DEF s, dirs
<1>4. PICK t \in {slim, fails} : task' = t
  BY <1>2
<1>5. /\ t \in Tasks /\ t.at \in {"slim", "next"} /\ t.kind \in {"slim", "clear"}
      /\ t.base = task.base /\ t.seen = task.seen /\ t.chosen = task.chosen
      /\ t.todo = task.todo /\ task.res \subseteq t.res
      /\ "deleted" \in t.res => "deleted" \in task.res
  <2>1. CASE t = slim
    BY <1>2, <1>3, <2>1 DEF Tasks, DeletionKinds, Places
  <2>2. CASE t = fails
    BY <1>2, <2>2 DEF Tasks, DeletionKinds, Results
  <2> QED BY <1>4, <2>1, <2>2
<1> HIDE DEF slim, fails
<1>6. Stage(t) /\ Locked(t) /\ Chosen(t) /\ Processed(t)
  BY <1>2, <1>5, Kept DEF Stage, Locked, Chosen, Bounded, Processed
<1>7. s.valid => \A f \in Files : s.seen.data[f] \notin deleted[f]
  BY <1>1, Kept DEF Remembered
<1> QED BY <1>1, <1>2, <1>4, <1>5, <1>6, <1>7, SnapshotIInv

-----------------------------------------------------------------------------
(***************************************************************************)
(* Steps of the rest of the program.                                       *)
(***************************************************************************)
LEMMA BeforeNat == ASSUME IInv PROVE Before \in Nat /\ Before <= clock
BY Kept DEF Before

\* Files go or are replaced by ones with a new stamp, not the one that is locked.
LEMMA TaskKept ==
  ASSUME IInv, UNCHANGED <<task, deleted>>, snap' = snap \/ ~snap'.valid,
         Before' \in Nat, Before <= Before',
         \A b \in CacheBases, f \in Files :
           \/ store'[b].data[f] \in {0, store[b].data[f]}
           \/ store'[b].data[f] > Before /\ ~(Deleting /\ f = task.file),
         Deleting => UNCHANGED <<gen, cacheBase>>
  PROVE  TaskOK(task)'
<1>1. /\ task \in Tasks /\ Stage(task) /\ Chosen(task) /\ Locked(task)
      /\ Processed(task) /\ Remembered(task) /\ Before \in Nat
  BY Kept, BeforeNat
<1>2. \A f \in Files : task.seen.data[f] \in Nat /\ task.seen.data[f] <= Before
  BY <1>1, BoundAssumption DEF Tasks, Stores, Stamps, Chosen, Bounded
<1>3. Chosen(task)'
  <2>1. Bounded(task.seen)'
    BY <1>1, <1>2 DEF Bounded
  <2> QED BY <1>1, <2>1 DEF Chosen
<1>4. Locked(task)'
  <2> SUFFICES ASSUME Deleting PROVE Locked(task)'
    BY DEF Deleting, Locked
  <2>1. /\ task.base \in CacheBases /\ task.file \in Files /\ task.file \in task.todo
        /\ task.seen.data[task.file] # 0
    BY <1>1 DEF Deleting, Stage, Locked, Chosen, Tasks
  <2>2. store'[task.base].data[task.file] \in {0, store[task.base].data[task.file]}
    BY <2>1
  <2> QED BY <1>1, <2>1, <2>2 DEF Locked
<1>5. Processed(task)'
  <2> SUFFICES ASSUME NEW f \in task.chosen \ task.todo,
                      store[task.base].data[f] # task.seen.data[f]
               PROVE  store'[task.base].data[f] # task.seen.data[f]
    BY <1>1 DEF Processed
  <2>1. task.base \in CacheBases /\ f \in Files /\ task.seen.data[f] # 0
    BY <1>1 DEF Stage, NoTask, Chosen, Tasks
  <2> QED BY <1>1, <1>2, <2>1
<1>6. Stage(task)' /\ Remembered(task)'
  BY <1>1 DEF Stage, Remembered
<1> QED BY <1>1, <1>3, <1>4, <1>5, <1>6 DEF TaskOK

\* Files only go.
LEMMA FilesGo ==
  ASSUME IInv, UNCHANGED <<clock, deleted>>, Before' = Before,
         snap' = snap \/ snap' = Untaken,
         \A b \in CacheBases, f \in Files : store'[b].data[f] \in {0, store[b].data[f]}
  PROVE  StampsOK' /\ StampsUnique'
<1>1. StampsOK /\ StampsUnique /\ Before \in Nat
  BY Kept, BeforeNat
<1>2. StampsOK'
  <2>1. \A b \in CacheBases : Bounded(store[b])'
    BY <1>1 DEF StampsOK, Bounded
  <2>2. Bounded(snap.seen)'
    BY <1>1, UntakenIn, NothingIn DEF StampsOK, Bounded
  <2> QED BY <1>1, <2>1, <2>2 DEF StampsOK
<1>3. StampsUnique'
  BY <1>1, Kept DEF StampsUnique, StampsOK
<1> QED BY <1>2, <1>3

LEMMA MakeDirIInv == ASSUME IInv, NEW f \in Busy, MakeDir(f) PROVE IInv'
<1>1. f \in Files /\ VersionOf[f] \in Dirs /\ store[cacheBase] \in Stores
  BY FileAssumption, VersionInDirs, Kept
<1>2. /\ writer.at = "idle" /\ clock' = clock + 1 /\ clock' \in 1 .. MaxStamp
      /\ writer' = [at |-> "made", file |-> f, base |-> cacheBase, gen |-> gen, live |-> TRUE]
      /\ UNCHANGED <<mem, gen, cacheBase, snap, task, reader, deleted>>
  BY Kept, BoundAssumption DEF MakeDir
<1>3. /\ store' \in [CacheBases -> Stores]
      /\ \A b \in CacheBases :
           /\ store'[b].data = store[b].data
           /\ \A d \in Dirs : store[b].dir[d] # 0 => store'[b].dir[d] # 0
      /\ store'[cacheBase].dir[VersionOf[f]] # 0
  <2> DEFINE dir == [store[cacheBase].dir EXCEPT
                       ![VersionOf[f]] = IF @ = 0 THEN clock + 1 ELSE @]
             there == [store[cacheBase] EXCEPT !.dir = dir]
  <2>1. clock + 1 \in Stamps /\ clock + 1 # 0
    BY <1>2, Kept, BoundAssumption DEF Stamps
  <2>2. dir \in [Dirs -> Stamps] /\ dir[VersionOf[f]] # 0
        /\ \A d \in Dirs : store[cacheBase].dir[d] # 0 => dir[d] # 0
    BY <1>1, <2>1 DEF Stores
  <2>3. store' = [store EXCEPT ![cacheBase] = there]
    BY DEF MakeDir
  <2> HIDE DEF dir
  <2>4. there \in Stores /\ there.data = store[cacheBase].data /\ there.dir = dir
    BY <1>1, <2>2 DEF Stores
  <2> HIDE DEF there
  <2> QED BY <2>2, <2>3, <2>4, Kept, <1>1
<1>4. Before' = Before /\ Before \in Nat
  BY <1>2, Kept DEF Before
<1>5. StampsOK' /\ StampsUnique'
  BY <1>2, <1>3, <1>4, Kept DEF StampsOK, Bounded, StampsUnique
<1>6. MemoryOK' /\ DirsOK'
  BY <1>2, <1>3, VersionInDirs, Kept DEF MemoryOK, DirsOK
<1>7. WriterOK' /\ writer' \in Writers
  BY <1>1, <1>2, <1>3, Kept DEF WriterOK, DirectoryHeld, Writers
<1>8. World'
  BY <1>2, <1>3, <1>5, <1>6, <1>7 DEF World, IInv
<1>9. TaskOK(task)'
  BY <1>2, <1>3, <1>4, TaskKept
<1> QED BY <1>8, <1>9 DEF IInv

LEMMA MakeTempIInv == ASSUME IInv, MakeTemp PROVE IInv'
<1>1. /\ writer.at = "made" /\ writer' = [writer EXCEPT !.at = "temp"] /\ writer \in Writers
      /\ UNCHANGED <<store, mem, gen, cacheBase, clock, snap, task, reader, deleted>>
  BY Kept DEF MakeTemp
<1>2. /\ writer' \in Writers /\ writer'.at = "temp" /\ writer'.file = writer.file
      /\ writer'.base = writer.base /\ writer'.gen = writer.gen /\ writer'.live = writer.live
  BY <1>1 DEF Writers
<1>3. Before' = Before /\ Before \in Nat
  BY <1>1, <1>2, Kept DEF Before
<1>4. World'
  BY <1>1, <1>2, <1>3
     DEF IInv, World, StampsOK, Bounded, StampsUnique, MemoryOK, WriterOK, DirectoryHeld, DirsOK
<1>5. TaskOK(task)'
  BY <1>1, <1>3, TaskKept
<1> QED BY <1>4, <1>5 DEF IInv

-----------------------------------------------------------------------------
(***************************************************************************)
(* Writing and removing the data of a file and its metadata.               *)
(***************************************************************************)
\* r is s with x for the data, or the metadata, of f in directory b.
DataPut(r, s, b, f, x) ==
  /\ r \in [CacheBases -> Stores]
  /\ \A c \in CacheBases : r[c].dir = s[c].dir /\ r[c].ext = s[c].ext
  /\ \A c \in CacheBases, g \in Files :
       r[c].data[g] = IF c = b /\ g = f THEN x ELSE s[c].data[g]

ExtPut(r, s, b, f, x) ==
  /\ r \in [CacheBases -> Stores]
  /\ \A c \in CacheBases : r[c].dir = s[c].dir /\ r[c].data = s[c].data
  /\ \A c \in CacheBases, g \in Files :
       r[c].ext[g] = IF c = b /\ g = f THEN x ELSE s[c].ext[g]

LEMMA DataStored ==
  ASSUME NEW s \in [CacheBases -> Stores], NEW b \in CacheBases, NEW f \in Files,
         NEW x \in Stamps, NEW r, r = [s EXCEPT ![b].data[f] = x]
  PROVE  DataPut(r, s, b, f, x)
<1> DEFINE data == [s[b].data EXCEPT ![f] = x]
           there == [s[b] EXCEPT !.data = data]
<1>1. /\ data \in [Files -> Stamps]
      /\ \A g \in Files : data[g] = IF g = f THEN x ELSE s[b].data[g]
  BY DEF Stores
<1> HIDE DEF data
<1>2. /\ there \in Stores /\ there.data = data
      /\ there.ext = s[b].ext /\ there.dir = s[b].dir
  BY <1>1 DEF Stores
<1>3. r = [s EXCEPT ![b] = there]
  BY DEF data
<1> HIDE DEF there
<1>4. /\ r \in [CacheBases -> Stores] /\ r[b] = there
      /\ \A c \in CacheBases : c # b => r[c] = s[c]
  BY <1>2, <1>3
<1>5. /\ \A c \in CacheBases : r[c].dir = s[c].dir /\ r[c].ext = s[c].ext
      /\ \A c \in CacheBases, g \in Files :
           r[c].data[g] = IF c = b /\ g = f THEN x ELSE s[c].data[g]
  BY <1>1, <1>2, <1>4
<1> QED BY <1>4, <1>5 DEF DataPut

LEMMA ExtStored ==
  ASSUME NEW s \in [CacheBases -> Stores], NEW b \in CacheBases, NEW f \in Files,
         NEW x \in Stamps, NEW r, r = [s EXCEPT ![b].ext[f] = x]
  PROVE  ExtPut(r, s, b, f, x)
<1> DEFINE ext == [s[b].ext EXCEPT ![f] = x]
           there == [s[b] EXCEPT !.ext = ext]
<1>1. /\ ext \in [Files -> Stamps]
      /\ \A g \in Files : ext[g] = IF g = f THEN x ELSE s[b].ext[g]
  BY DEF Stores
<1> HIDE DEF ext
<1>2. /\ there \in Stores /\ there.ext = ext
      /\ there.data = s[b].data /\ there.dir = s[b].dir
  BY <1>1 DEF Stores
<1>3. r = [s EXCEPT ![b] = there]
  BY DEF ext
<1> HIDE DEF there
<1>4. /\ r \in [CacheBases -> Stores] /\ r[b] = there
      /\ \A c \in CacheBases : c # b => r[c] = s[c]
  BY <1>2, <1>3
<1>5. /\ \A c \in CacheBases : r[c].dir = s[c].dir /\ r[c].data = s[c].data
      /\ \A c \in CacheBases, g \in Files :
           r[c].ext[g] = IF c = b /\ g = f THEN x ELSE s[c].ext[g]
  BY <1>1, <1>2, <1>4
<1> QED BY <1>4, <1>5 DEF ExtPut

\* Both, of a file in the directory in use.
PairPut(f, x) ==
  /\ store' \in [CacheBases -> Stores]
  /\ \A c \in CacheBases : store'[c].dir = store[c].dir
  /\ \A c \in CacheBases, g \in Files :
       store'[c].data[g] = IF c = cacheBase /\ g = f THEN x ELSE store[c].data[g]

LEMMA PairStored ==
  ASSUME IInv, NEW f \in Files, NEW x \in Stamps, NEW e \in Stamps,
         store' = [store EXCEPT ![cacheBase].data[f] = x, ![cacheBase].ext[f] = e]
  PROVE  PairPut(f, x)
<1> DEFINE r == [store EXCEPT ![cacheBase].data[f] = x]
<1>1. store \in [CacheBases -> Stores] /\ cacheBase \in CacheBases
  BY Kept
<1>2. r = [store EXCEPT ![cacheBase].data[f] = x]
  OBVIOUS
<1>3. store' = [r EXCEPT ![cacheBase].ext[f] = e]
  OBVIOUS
<1> HIDE DEF r
<1>4. DataPut(r, store, cacheBase, f, x)
  BY <1>1, <1>2, DataStored, Zenon
<1>5. r \in [CacheBases -> Stores]
  BY <1>4 DEF DataPut
<1>6. ExtPut(store', r, cacheBase, f, e)
  BY <1>1, <1>3, <1>5, ExtStored, Zenon
<1>7. \A c \in CacheBases : store'[c].dir = store[c].dir /\ store'[c].data = r[c].data
  BY <1>4, <1>6 DEF DataPut, ExtPut
<1>8. \A c \in CacheBases, g \in Files :
        store'[c].data[g] = IF c = cacheBase /\ g = f THEN x ELSE store[c].data[g]
  BY <1>4, <1>7 DEF DataPut
<1>9. store' \in [CacheBases -> Stores]
  BY <1>6 DEF ExtPut
<1> QED BY <1>7, <1>8, <1>9 DEF PairPut

-----------------------------------------------------------------------------
(***************************************************************************)
(* The end of a download, lookups, and files that go.                      *)
(***************************************************************************)
LEMMA EndDownloadIInv == ASSUME IInv, EndDownload PROVE IInv'
<1> DEFINE f == writer.file
<1>1. /\ writer.at = "temp" /\ f \in Files /\ writer' = NoWriter /\ writer \in Writers
      /\ UNCHANGED <<gen, cacheBase, clock, snap, task, reader, deleted>>
  BY Kept DEF EndDownload, WriterOK
<1>2. /\ Before = clock - 1 /\ Before' = clock /\ Before \in Nat /\ clock \in Nat
  BY <1>1, BeforeNat, Kept DEF Before, NoWriter
<1>3. writer' \in Writers /\ WriterOK' /\ MemoryOK
  BY <1>1, Kept DEF NoWriter, Writers, WriterOK, DirectoryHeld
<1>4. StampsOK /\ StampsUnique /\ DirsOK /\ gen \in Nat /\ cacheBase \in CacheBases
      /\ store \in [CacheBases -> Stores] /\ mem \in [Files -> Stamps]
  BY Kept DEF World
<1>5. CASE UNCHANGED <<store, mem>>
  <2>1. World'
    BY <1>1, <1>2, <1>3, <1>4, <1>5, BoundAssumption
       DEF IInv, World, StampsOK, Bounded, StampsUnique, MemoryOK, DirsOK, Stores, Snapshots,
           Stamps
  <2>2. TaskOK(task)'
    BY <1>1, <1>2, <1>5, TaskKept DEF Deleting
  <2> QED BY <2>1, <2>2 DEF IInv
<1>6. ASSUME writer.live, NEW e \in {clock, store[cacheBase].ext[f]},
             store' = [store EXCEPT ![cacheBase].data[f] = clock, ![cacheBase].ext[f] = e],
             mem' = [mem EXCEPT ![f] = 0]
      PROVE  IInv'
  <2>1. clock \in Stamps /\ 0 \in Stamps /\ e \in Stamps
    BY <1>1, <1>4, BoundAssumption DEF IInv, World, Stamps, Stores
  <2>2. /\ store' \in [CacheBases -> Stores]
        /\ \A c \in CacheBases : store'[c].dir = store[c].dir
        /\ \A c \in CacheBases, g \in Files :
             store'[c].data[g] = IF c = cacheBase /\ g = f THEN clock ELSE store[c].data[g]
    <3>1. store' = [store EXCEPT ![cacheBase].data[f] = clock, ![cacheBase].ext[f] = e]
      BY <1>6
    <3> HIDE DEF f
    <3>2. PairPut(f, clock)
      BY <1>1, <2>1, <3>1, PairStored, Zenon
    <3> QED BY <3>2 DEF PairPut
  <2>3. /\ \A c \in CacheBases, g \in Files : store[c].data[g] \in Nat /\ store[c].data[g] < clock
        /\ clock \notin deleted[f] /\ ShardFree(f) /\ store[cacheBase].dir[VersionOf[f]] # 0
        /\ \A g \in Files : snap.seen.data[g] \in Nat /\ snap.seen.data[g] < clock
    <3>1. \A c \in CacheBases, g \in Files : store[c].data[g] \in Nat /\ store[c].data[g] < clock
      BY <1>2, <1>4, BoundAssumption DEF StampsOK, Bounded, Stores, Stamps
    <3>2. clock \notin deleted[f]
      BY <1>1, <1>2, <1>4 DEF StampsOK
    <3>3. ShardFree(f)
      BY DEF EndDownload
    <3>4. store[cacheBase].dir[VersionOf[f]] # 0
      BY <1>1, <1>6, Kept DEF WriterOK, DirectoryHeld
    <3>5. \A g \in Files : snap.seen.data[g] \in Nat /\ snap.seen.data[g] < clock
      BY <1>2, <1>4, BoundAssumption, Kept DEF StampsOK, Bounded, Snapshots, Stores, Stamps
    <3> QED BY <3>1, <3>2, <3>3, <3>4, <3>5
  <2>4. StampsOK'
    <3>1. \A c \in CacheBases, g \in Files : store'[c].data[g] <= clock
      BY <1>2, <2>2, <2>3
    <3>2. \A g \in Files : snap'.seen.data[g] <= clock
      BY <1>1, <1>2, <2>3
    <3>3. \A g \in Files : \A s \in deleted'[g] : s # 0 /\ s <= clock
      <4> TAKE g \in Files
      <4> TAKE s \in deleted'[g]
      <4>1. s \in Stamps /\ s # 0 /\ s <= Before
        BY <1>1, <1>4 DEF StampsOK, IInv, World
      <4> QED BY <1>2, <4>1, BoundAssumption DEF Stamps
    <3> QED BY <1>2, <3>1, <3>2, <3>3 DEF StampsOK, Bounded
  <2>5. StampsUnique'
    BY <1>1, <1>4, <2>2, <2>3 DEF StampsUnique
  <2>6. DirsOK'
    BY <1>4, <2>2, <2>3 DEF DirsOK
  <2>7. mem' \in [Files -> Stamps] /\ MemoryOK'
    BY <1>1, <1>3, <1>4, <1>6, <2>1 DEF MemoryOK, StampsOK
  <2>8. World'
    BY <1>1, <1>3, <2>2, <2>4, <2>5, <2>6, <2>7 DEF World, IInv
  <2>9. TaskOK(task)'
    <3>1. \A c \in CacheBases, g \in Files :
            \/ store'[c].data[g] \in {0, store[c].data[g]}
            \/ store'[c].data[g] > Before /\ ~(Deleting /\ g = task.file)
      BY <1>2, <2>2, <2>3 DEF ShardFree
    <3> QED BY <1>1, <1>2, <3>1, TaskKept
  <2> QED BY <2>8, <2>9 DEF IInv
<1> QED BY <1>5, <1>6 DEF EndDownload

LEMMA LookIInv == ASSUME IInv, NEW f \in Busy, Look(f) PROVE IInv'
<1>1. /\ f \in Files /\ cacheBase \in CacheBases /\ 0 \in Stamps
      /\ UNCHANGED <<store, mem, gen, cacheBase, clock, snap, task, writer, deleted>>
  BY FileAssumption, BoundAssumption, Kept DEF Look, Stamps
<1>2. reader' = [file |-> f, base |-> cacheBase, stamp |-> 0, live |-> FALSE]
  BY DEF Look, NoReader
<1>3. reader' \in Readers /\ MemoryOK'
  BY <1>1, <1>2, Kept DEF Readers, MemoryOK
<1>4. World'
  BY <1>1, <1>3 DEF IInv, World, StampsOK, Bounded, Before, StampsUnique, WriterOK,
     DirectoryHeld, DirsOK
<1>5. TaskOK(task)'
  BY <1>1, BeforeNat, TaskKept DEF Before
<1> QED BY <1>4, <1>5 DEF IInv

\* What lies in any directory was not deleted, whenever its path was resolved.
LEMMA LoadIInv == ASSUME IInv, Load PROVE IInv'
<1> DEFINE found == store[reader.base].data[reader.file]
<1>1. /\ reader \in Readers /\ reader.file \in Files /\ reader.base \in CacheBases
      /\ UNCHANGED <<store, mem, gen, cacheBase, clock, snap, task, writer, deleted>>
      /\ reader' = IF found = 0 THEN NoReader
                   ELSE [reader EXCEPT !.stamp = found, !.live = TRUE]
  BY Kept DEF Load, Readers, MemoryOK
<1>2. found \in Stamps /\ found \notin deleted[reader.file] /\ 0 \in Stamps
  BY <1>1, BoundAssumption, Kept DEF Stores, StampsUnique, Stamps
<1>3. reader' \in Readers /\ MemoryOK'
  <2>1. CASE found = 0
    BY <1>1, <1>2, <2>1, Kept DEF NoReader, Readers, MemoryOK
  <2>2. CASE found # 0
    <3> HIDE DEF found
    <3>1. reader' \in Readers /\ reader'.file = reader.file /\ reader'.base = reader.base
          /\ reader'.stamp = found
      BY <1>1, <1>2, <2>2 DEF Readers
    <3> QED BY <1>1, <1>2, <3>1, Kept DEF MemoryOK
  <2> QED BY <2>1, <2>2
<1>4. World'
  BY <1>1, <1>3 DEF IInv, World, StampsOK, Bounded, Before, StampsUnique, WriterOK,
     DirectoryHeld, DirsOK
<1>5. TaskOK(task)'
  BY <1>1, BeforeNat, TaskKept DEF Before
<1> QED BY <1>4, <1>5 DEF IInv

\* What is put into memory was not deleted in the meantime, or the token is revoked.
LEMMA BackfillIInv == ASSUME IInv, Backfill PROVE IInv'
<1>1. /\ reader' = NoReader /\ reader \in Readers /\ MemoryOK
      /\ mem' = IF reader.live THEN [mem EXCEPT ![reader.file] = reader.stamp] ELSE mem
      /\ UNCHANGED <<store, gen, cacheBase, clock, snap, task, writer, deleted>>
  BY Kept DEF Backfill
<1>2. mem \in [Files -> Stamps] /\ reader.stamp \in Stamps /\ 0 \in Stamps
  BY <1>1, BoundAssumption DEF IInv, World, Readers, Stamps
<1>3. mem' \in [Files -> Stamps]
  BY <1>1, <1>2
<1>4. reader' \in Readers /\ MemoryOK'
  BY <1>1, <1>2 DEF NoReader, Readers, MemoryOK
<1>5. World'
  BY <1>1, <1>3, <1>4 DEF IInv, World, StampsOK, Bounded, Before, StampsUnique, WriterOK,
     DirectoryHeld, DirsOK
<1>6. TaskOK(task)'
  BY <1>1, BeforeNat, TaskKept DEF Before
<1> QED BY <1>5, <1>6 DEF IInv

\* The download and the lookup of the file are over, or their tokens are revoked.
LEMMA Forgets ==
  ASSUME IInv, NEW f \in Files, Forget(f)
  PROVE  /\ mem' \in [Files -> Stamps]
         /\ \A g \in Files : mem'[g] = IF g = f THEN 0 ELSE mem[g]
         /\ writer' \in Writers /\ writer'.at = writer.at /\ writer'.file = writer.file
         /\ writer'.base = writer.base /\ writer'.gen = writer.gen
         /\ writer'.live => writer.live /\ writer.file # f
         /\ reader' \in Readers /\ reader'.file = reader.file /\ reader'.stamp = reader.stamp
         /\ reader'.base = reader.base
         /\ reader'.live => reader.live /\ reader.file # f
<1>1. writer \in Writers /\ reader \in Readers /\ mem \in [Files -> Stamps] /\ 0 \in Stamps
  BY BoundAssumption DEF IInv, World, Stamps
<1>2. /\ mem' \in [Files -> Stamps]
      /\ \A g \in Files : mem'[g] = IF g = f THEN 0 ELSE mem[g]
  BY <1>1 DEF Forget
<1>3. /\ writer' \in Writers /\ writer'.at = writer.at /\ writer'.file = writer.file
      /\ writer'.base = writer.base /\ writer'.gen = writer.gen
      /\ writer'.live => writer.live /\ writer.file # f
  BY <1>1 DEF Forget, Revoked, Writers
<1>4. /\ reader' \in Readers /\ reader'.file = reader.file /\ reader'.stamp = reader.stamp
      /\ reader'.base = reader.base
      /\ reader'.live => reader.live /\ reader.file # f
  BY <1>1 DEF Forget, Revoked, Readers
<1> QED BY <1>2, <1>3, <1>4

LEMMA InvalidateFileIInv == ASSUME IInv, NEW f \in Busy, InvalidateFile(f) PROVE IInv'
<1>1. /\ f \in Files /\ Forget(f) /\ snap' = Untaken /\ ShardFree(f)
      /\ store' = [store EXCEPT ![cacheBase].data[f] = 0, ![cacheBase].ext[f] = 0]
      /\ UNCHANGED <<gen, cacheBase, clock, task, deleted>> /\ 0 \in Stamps
  BY FileAssumption, BoundAssumption DEF InvalidateFile, Stamps
<1>2. /\ store' \in [CacheBases -> Stores]
      /\ \A c \in CacheBases : store'[c].dir = store[c].dir
      /\ \A c \in CacheBases, g \in Files : store'[c].data[g] \in {0, store[c].data[g]}
  <2>1. store' = [store EXCEPT ![cacheBase].data[f] = 0, ![cacheBase].ext[f] = 0]
    BY <1>1
  <2>2. PairPut(f, 0)
    BY <1>1, <2>1, PairStored, Zenon
  <2> QED BY <2>2 DEF PairPut
<1>3. Before' = Before /\ Before \in Nat
  BY <1>1, Forgets, BeforeNat DEF Before
<1>4. StampsOK' /\ StampsUnique'
  BY <1>1, <1>2, <1>3, FilesGo
<1>5. MemoryOK'
  BY <1>1, Forgets, Kept DEF MemoryOK, StampsOK
<1>6. WriterOK'
  BY <1>1, <1>2, Forgets, Kept DEF WriterOK, DirectoryHeld
<1>7. World'
  BY <1>1, <1>2, <1>4, <1>5, <1>6, Forgets, UntakenIn, Kept DEF World, DirsOK, IInv
<1>8. TaskOK(task)'
  BY <1>1, <1>2, <1>3, UntakenIn, TaskKept
<1> QED BY <1>7, <1>8 DEF IInv

LEMMA VanishIInv == ASSUME IInv, NEW f \in Busy, Vanish(f) PROVE IInv'
<1>1. /\ f \in Files /\ store' = [store EXCEPT ![cacheBase].data[f] = 0] /\ 0 \in Stamps
      /\ UNCHANGED <<mem, gen, cacheBase, clock, snap, task, writer, reader, deleted>>
  BY FileAssumption, BoundAssumption DEF Vanish, Stamps
<1>2. /\ store' \in [CacheBases -> Stores]
      /\ \A c \in CacheBases : store'[c].dir = store[c].dir
      /\ \A c \in CacheBases, g \in Files : store'[c].data[g] \in {0, store[c].data[g]}
  <2>1. store \in [CacheBases -> Stores] /\ cacheBase \in CacheBases
    BY Kept
  <2>2. store' = [store EXCEPT ![cacheBase].data[f] = 0]
    BY <1>1
  <2>3. DataPut(store', store, cacheBase, f, 0)
    BY <1>1, <2>1, <2>2, DataStored, Zenon
  <2> QED BY <2>3 DEF DataPut
<1>3. Before' = Before /\ Before \in Nat
  BY <1>1, BeforeNat DEF Before
<1>4. StampsOK' /\ StampsUnique'
  BY <1>1, <1>2, <1>3, FilesGo
<1>5. World'
  BY <1>1, <1>2, <1>4, Kept DEF World, MemoryOK, WriterOK, DirectoryHeld, DirsOK, IInv
<1>6. TaskOK(task)'
  BY <1>1, <1>2, <1>3, TaskKept
<1> QED BY <1>5, <1>6 DEF IInv

-----------------------------------------------------------------------------
(***************************************************************************)
(* A new cache generation: no task holds the locks of a file, and all      *)
(* tokens are revoked.                                                     *)
(***************************************************************************)
LEMMA NewGenerationIInv ==
  ASSUME IInv, NewGeneration, store' \in [CacheBases -> Stores], cacheBase' \in CacheBases,
         \A b \in CacheBases, f \in Files : store'[b].data[f] \in {0, store[b].data[f]},
         DirsOK'
  PROVE  IInv'
<1>1. /\ ~Deleting /\ gen' = gen + 1 /\ gen' \in 1 .. MaxGen /\ snap' = Untaken
      /\ mem' = [f \in Files |-> 0]
      /\ writer' = [writer EXCEPT !.live = FALSE] /\ reader' = [reader EXCEPT !.live = FALSE]
      /\ UNCHANGED <<clock, task, deleted>> /\ 0 \in Stamps
  BY BoundAssumption DEF NewGeneration, PersistMuIdle, IInv, World, Stamps
<1>2. /\ writer' \in Writers /\ ~writer'.live /\ writer'.at = writer.at
      /\ writer'.file = writer.file /\ writer'.base = writer.base /\ writer'.gen = writer.gen
      /\ writer.gen \in Nat
      /\ reader' \in Readers /\ ~reader'.live
  BY <1>1, Kept DEF Writers, Readers
<1>3. Before' = Before /\ Before \in Nat
  BY <1>1, <1>2, BeforeNat DEF Before
<1>4. StampsOK' /\ StampsUnique'
  BY <1>1, <1>3, FilesGo
<1>5. MemoryOK'
  BY <1>1, <1>2, Kept DEF MemoryOK, StampsOK
<1>6. WriterOK'
  BY <1>1, <1>2, Kept DEF WriterOK, DirectoryHeld
<1>7. mem' \in [Files -> Stamps] /\ deleted' \in [Files -> SUBSET Stamps]
      /\ clock' \in 1 .. MaxStamp
  BY <1>1 DEF IInv, World
<1>8. World'
  BY <1>1, <1>2, <1>4, <1>5, <1>6, <1>7, UntakenIn DEF World
<1>9. TaskOK(task)'
  <2>1. \A b \in CacheBases, f \in Files : store'[b].data[f] \in {0, store[b].data[f]}
    OBVIOUS
  <2> QED BY <1>1, <1>3, <2>1, UntakenIn, TaskKept
<1> QED BY <1>8, <1>9 DEF IInv

LEMMA ClearAllIInv == ASSUME IInv, ClearAllWithError PROVE IInv'
<1>1. /\ NewGeneration /\ store' = [store EXCEPT ![cacheBase] = Nothing]
      /\ cacheBase' = cacheBase /\ cacheBase \in CacheBases
      /\ store \in [CacheBases -> Stores] /\ DirsOK
  BY Kept DEF ClearAllWithError
<1>2. /\ store' \in [CacheBases -> Stores]
      /\ \A b \in CacheBases : store'[b] = IF b = cacheBase THEN Nothing ELSE store[b]
  BY <1>1, NothingIn
<1>3. /\ \A b \in CacheBases, f \in Files : store'[b].data[f] \in {0, store[b].data[f]}
      /\ DirsOK'
  BY <1>1, <1>2, NothingIn DEF DirsOK
<1> QED BY <1>1, <1>2, <1>3, NewGenerationIInv

LEMMA SwitchIInv == ASSUME IInv, NEW b \in CacheBases, SwitchCacheBase(b) PROVE IInv'
<1>1. /\ NewGeneration /\ UNCHANGED store /\ cacheBase' = b
      /\ store \in [CacheBases -> Stores] /\ DirsOK
  BY Kept DEF SwitchCacheBase
<1>2. DirsOK'
  BY <1>1 DEF DirsOK
<1> QED BY <1>1, <1>2, NewGenerationIInv

-----------------------------------------------------------------------------
(***************************************************************************)
(* The deletion of one file.                                               *)
(***************************************************************************)
\* The task goes on, and the world keeps what the invariant says of it.
LEMMA TaskMoves ==
  ASSUME World', UNCHANGED <<gen, cacheBase, snap, deleted>>, Before' = Before,
         \A b \in CacheBases : store'[b].data = store[b].data,
         NEW t, task' = t, TaskOK(t)
  PROVE  IInv'
<1>1. /\ t \in Tasks /\ Stage(t) /\ Chosen(t) /\ Locked(t) /\ Processed(t) /\ Remembered(t)
  BY DEF TaskOK
<1>2. Chosen(t)'
  BY <1>1 DEF Chosen, Bounded
<1>3. Locked(t)'
  BY <1>1 DEF Locked, Stage
<1>4. Processed(t)'
  <2>1. CASE t.at = "idle"
    BY <1>1, <2>1 DEF Processed, Stage, NoTask
  <2>2. CASE t.at # "idle"
    BY <1>1, <2>2 DEF Processed, Stage
  <2> QED BY <2>1, <2>2
<1>5. Stage(t)' /\ Remembered(t)'
  BY <1>1 DEF Stage, Remembered
<1> QED BY <1>1, <1>2, <1>3, <1>4, <1>5 DEF IInv, TaskOK

LEMMA ForgetWorld ==
  ASSUME IInv, NEW f \in Files, Forget(f),
         UNCHANGED <<store, gen, cacheBase, clock, snap, deleted>>
  PROVE  World' /\ Before' = Before
<1>1. Before' = Before
  BY Forgets DEF Before
<1>2. StampsOK' /\ StampsUnique' /\ DirsOK'
  BY <1>1, Kept DEF StampsOK, Bounded, StampsUnique, DirsOK
<1>3. MemoryOK'
  BY Forgets, Kept DEF MemoryOK, StampsOK
<1>4. WriterOK'
  BY Forgets, Kept DEF WriterOK, DirectoryHeld
<1> QED BY <1>1, <1>2, <1>3, <1>4, Forgets DEF World, IInv

\* Without a directory there is no file; so it is not the recorded one.
LEMMA DeleteGoneIInv == ASSUME IInv, NEW f, DeleteGone(f) PROVE IInv'
<1>1. /\ f \in task.todo /\ f \in Files /\ Forget(f) /\ task' = Ends(f, "missing")
      /\ UNCHANGED <<store, gen, cacheBase, clock, snap, deleted>>
      /\ cacheBase = task.base /\ Gone(f)
  BY Kept DEF DeleteGone, Tasks, Current
<1>2. store[task.base].data[f] = 0 /\ task.seen.data[f] # 0
  BY <1>1, Kept DEF Gone, DirGone, DirsOK, Chosen
<1>3. TaskOK(Ends(f, "missing"))
  BY <1>1, <1>2, EndsOK DEF Results
<1> QED BY <1>1, <1>3, ForgetWorld, TaskMoves

LEMMA RemovedIInv ==
  ASSUME IInv, task.at = "remove", NEW f, f = task.file, store[task.base].data[f] # 0,
         store' = [store EXCEPT ![task.base].data[f] = 0],
         deleted' = [deleted EXCEPT ![f] = @ \cup {store[task.base].data[f]}],
         Forget(f),
         task' = [task EXCEPT !.at = "ext", !.res = @ \cup {"deleted"},
                              !.touched = @ \cup {VersionOf[f]}],
         UNCHANGED <<gen, cacheBase, clock, snap>>
  PROVE  IInv'
<1> DEFINE b == task.base
           s == store[b].data[f]
<1>1. /\ task \in Tasks /\ f \in Files /\ f \in task.todo /\ f \in task.chosen
      /\ b \in CacheBases /\ gen = task.gen
      /\ cacheBase = b /\ s = task.seen.data[f] /\ s # 0 /\ 0 \in Stamps
      /\ s \in Stamps /\ VersionOf[f] \in Dirs /\ task.kind # "scan"
  BY Kept, BoundAssumption, VersionInDirs DEF Stage, Locked, Chosen, Tasks, Stamps, Stores
<1>2. DataPut(store', store, b, f, 0)
  BY <1>1, DataStored, Kept, Zenon
<1>3. /\ store' \in [CacheBases -> Stores]
      /\ \A c \in CacheBases : store'[c].dir = store[c].dir
      /\ \A c \in CacheBases, g \in Files :
           store'[c].data[g] = IF c = b /\ g = f THEN 0 ELSE store[c].data[g]
  BY <1>2 DEF DataPut
<1>4. /\ deleted' \in [Files -> SUBSET Stamps]
      /\ \A g \in Files : deleted'[g] = IF g = f THEN deleted[f] \cup {s} ELSE deleted[g]
  BY <1>1 DEF IInv, World
<1> HIDE DEF s
<1>5. Before' = Before /\ Before \in Nat
  BY <1>1, Forgets, BeforeNat DEF Before
<1>6. s <= Before /\ \A c \in CacheBases : c # b => store[c].data[f] # s
  BY <1>1, Kept DEF s, StampsOK, Bounded, StampsUnique
<1>7. StampsOK'
  <2>1. \A c \in CacheBases : Bounded(store[c])'
    BY <1>3, <1>5, Kept DEF StampsOK, Bounded
  <2>2. Bounded(snap.seen)'
    BY <1>5, Kept DEF StampsOK, Bounded
  <2>3. \A g \in Files : \A x \in deleted'[g] : x # 0 /\ x <= Before'
    BY <1>1, <1>4, <1>5, <1>6, Kept DEF StampsOK
  <2> QED BY <2>1, <2>2, <2>3 DEF StampsOK
<1>8. StampsUnique'
  <2>1. \A c, d \in CacheBases, g \in Files :
          store'[c].data[g] = store'[d].data[g] => c = d \/ store'[c].data[g] = 0
    BY <1>3, Kept DEF StampsUnique
  <2>2. \A c \in CacheBases, g \in Files : store'[c].data[g] \notin deleted'[g]
    BY <1>1, <1>3, <1>4, <1>6, Kept DEF StampsUnique, StampsOK
  <2> QED BY <2>1, <2>2 DEF StampsUnique
<1>9. MemoryOK'
  BY <1>1, <1>4, Forgets, Kept DEF MemoryOK, StampsOK
<1>10. WriterOK' /\ DirsOK'
  BY <1>1, <1>3, Forgets, Kept DEF WriterOK, DirectoryHeld, DirsOK
<1>11. World'
  BY <1>1, <1>3, <1>4, <1>7, <1>8, <1>9, <1>10, Forgets DEF World, IInv
<1>12. PICK t : task' = t /\ t = [task EXCEPT !.at = "ext", !.res = @ \cup {"deleted"},
                                              !.touched = @ \cup {VersionOf[f]}]
  OBVIOUS
<1>13. /\ t \in Tasks /\ t.at = "ext" /\ t.kind = task.kind /\ t.base = b
       /\ t.gen = task.gen /\ t.seen = task.seen /\ t.dirs = task.dirs /\ t.file = task.file
       /\ t.chosen = task.chosen /\ t.todo = task.todo /\ t.res = task.res \cup {"deleted"}
  BY <1>1, <1>12 DEF Tasks, Places, Results
<1>14. Stage(t)'
  BY <1>1, <1>13, Kept DEF Stage
<1>15. Chosen(t)'
  BY <1>5, <1>13, Kept DEF Chosen, Bounded
<1>16. Locked(t)'
  BY <1>1, <1>3, <1>13 DEF Locked
<1>17. Processed(t)'
  <2> SUFFICES ASSUME NEW g \in task.chosen \ task.todo,
                      store[b].data[g] # task.seen.data[g]
               PROVE  store'[b].data[g] # task.seen.data[g]
    BY <1>13, Kept DEF Processed
  <2>1. g \in Files /\ g # f
    BY <1>1 DEF Tasks
  <2> QED BY <1>1, <1>3, <2>1
<1>18. Remembered(t)'
  BY <1>1, <1>13 DEF Remembered
<1> QED BY <1>11, <1>12, <1>13, <1>14, <1>15, <1>16, <1>17, <1>18 DEF IInv, TaskOK

LEMMA RemoveIInv == ASSUME IInv, Remove PROVE IInv'
<1> DEFINE f == task.file
<1>1. /\ task.at = "remove" /\ UNCHANGED <<gen, cacheBase, clock, snap>>
      /\ f \in task.todo /\ f \in Files /\ task.seen.data[f] # 0
  BY Kept DEF Remove, Locked, Chosen, Tasks
<1>2. \A result \in {"missing", "skipped"} :
        store[task.base].data[f] = 0 => TaskOK(Ends(f, result))
  BY <1>1, EndsOK DEF Results
<1>3. TaskOK(Ends(f, "failed"))
  BY <1>1, EndsOK DEF Results
<1>4. CASE /\ store[task.base].data[f] # 0
           /\ store' = [store EXCEPT ![task.base].data[f] = 0]
           /\ deleted' = [deleted EXCEPT ![f] = @ \cup {store[task.base].data[f]}]
           /\ Forget(f)
           /\ task' = [task EXCEPT !.at = "ext", !.res = @ \cup {"deleted"},
                                   !.touched = @ \cup {VersionOf[f]}]
  BY <1>1, <1>4, RemovedIInv
<1>5. CASE /\ store[task.base].data[f] = 0
           /\ Forget(f)
           /\ task' = Ends(f, "missing")
           /\ UNCHANGED <<store, deleted>>
  <2> HIDE DEF f
  <2> QED BY <1>1, <1>2, <1>5, ForgetWorld, TaskMoves
<1>6. CASE /\ task' = Ends(f, IF store[task.base].data[f] = 0 THEN "skipped" ELSE "failed")
           /\ UNCHANGED <<store, mem, writer, reader, deleted>>
  <2>1. PICK t : Goes(t) /\ TaskOK(t)
    BY <1>1, <1>2, <1>3, <1>6 DEF Goes
  <2> QED BY <2>1, GoesIInv
<1> QED BY <1>4, <1>5, <1>6 DEF Remove

LEMMA RemoveExtIInv == ASSUME IInv, RemoveExt PROVE IInv'
<1> DEFINE f == task.file
           done == [task EXCEPT !.at = "next", !.todo = @ \ {f}, !.file = NoFile]
<1>1. /\ task.at = "ext" /\ f \in task.todo /\ f \in Files /\ task \in Tasks
      /\ task.base \in CacheBases /\ task.kind # "scan"
      /\ store[task.base].data[f] # task.seen.data[f]
      /\ UNCHANGED <<mem, gen, cacheBase, clock, snap, writer, reader, deleted>>
  BY Kept DEF RemoveExt, Locked, Stage, Tasks
<1>2. TaskOK(Ends(f, "skipped")) /\ TaskOK(Ends(f, "failed"))
  BY <1>1, EndsOK DEF Results
<1>3. TaskOK(done)
  <2>1. /\ done \in Tasks /\ done.at = "next" /\ done.kind = task.kind
        /\ done.base = task.base /\ done.seen = task.seen /\ done.dirs = task.dirs
        /\ done.chosen = task.chosen /\ done.todo = task.todo \ {f} /\ done.res = task.res
    BY <1>1 DEF Tasks, Places
  <2> HIDE DEF done
  <2>2. Stage(done) /\ Locked(done)
    BY <1>1, <2>1 DEF Stage, Locked
  <2> QED BY <1>1, <2>1, <2>2, Steady
<1>4. PICK t : task' = t /\ TaskOK(t)
  <2> HIDE DEF f, done
  <2> QED BY <1>2, <1>3 DEF RemoveExt, f, done
<1>5. /\ store' \in [CacheBases -> Stores]
      /\ \A c \in CacheBases : store'[c].dir = store[c].dir /\ store'[c].data = store[c].data
  <2>1. CASE UNCHANGED store
    BY <2>1, Kept
  <2>2. CASE store' = [store EXCEPT ![task.base].ext[f] = 0]
    <3>1. store \in [CacheBases -> Stores] /\ 0 \in Stamps
      BY Kept, BoundAssumption DEF Stamps
    <3>2. ExtPut(store', store, task.base, f, 0)
      BY <1>1, <2>2, <3>1, ExtStored, Zenon
    <3> QED BY <3>2 DEF ExtPut
  <2> QED BY <2>1, <2>2 DEF RemoveExt
<1>6. Before' = Before
  BY <1>1 DEF Before
<1>7. World'
  BY <1>1, <1>5, <1>6 DEF IInv, World, StampsOK, Bounded, StampsUnique, MemoryOK, WriterOK,
     DirectoryHeld, DirsOK
<1> QED BY <1>1, <1>4, <1>5, <1>6, <1>7, TaskMoves

-----------------------------------------------------------------------------
(***************************************************************************)
(* The removal of a directory.                                             *)
(***************************************************************************)
\* r is s without directory d of b.
DirPut(r, s, b, d) ==
  /\ r \in [CacheBases -> Stores]
  /\ \A c \in CacheBases : r[c].data = s[c].data
  /\ \A c \in CacheBases, e \in Dirs :
       r[c].dir[e] = s[c].dir[e] \/ (c = b /\ e = d)

LEMMA DirRemoved ==
  ASSUME NEW s \in [CacheBases -> Stores], NEW b \in CacheBases, NEW d \in Dirs,
         NEW r, r = [s EXCEPT ![b].dir[d] = 0]
  PROVE  DirPut(r, s, b, d)
<1> DEFINE dir == [s[b].dir EXCEPT ![d] = 0]
           there == [s[b] EXCEPT !.dir = dir]
<1>1. dir \in [Dirs -> Stamps] /\ \A e \in Dirs : dir[e] = s[b].dir[e] \/ e = d
  BY BoundAssumption DEF Stores, Stamps
<1> HIDE DEF dir
<1>2. there \in Stores /\ there.data = s[b].data /\ there.dir = dir
  BY <1>1 DEF Stores
<1>3. r = [s EXCEPT ![b] = there]
  BY DEF dir
<1> HIDE DEF there
<1>4. /\ r \in [CacheBases -> Stores] /\ r[b] = there
      /\ \A c \in CacheBases : c # b => r[c] = s[c]
  BY <1>2, <1>3
<1>5. \A c \in CacheBases, e \in Dirs :
        r[c].dir[e] = s[c].dir[e] \/ (c = b /\ e = d)
  BY <1>1, <1>2, <1>4
<1> QED BY <1>2, <1>4, <1>5 DEF DirPut

\* It is empty, and no download that is in the directory in use has its file in it.
LEMMA RemoveDirIInv == ASSUME IInv, NEW d \in Dirs, RemoveDir(d) PROVE IInv'
<1> DEFINE b == task.base
<1>1. /\ task.at = "next" /\ task \in Tasks /\ b \in CacheBases /\ b = cacheBase
      /\ task.todo = {} /\ writer.at # "made"
      /\ UNCHANGED <<mem, gen, cacheBase, clock, snap, writer, reader, deleted>>
  BY Kept DEF RemoveDir, Stage, Current, MayRemoveDirs, PersistMuIdle
<1>2. /\ store' \in [CacheBases -> Stores]
      /\ \A c \in CacheBases : store'[c].data = store[c].data
      /\ \A c \in CacheBases, e \in Dirs :
           store'[c].dir[e] = store[c].dir[e] \/ (c = b /\ e = d /\ Empty(b, d))
  <2>1. CASE UNCHANGED store
    BY <2>1, Kept
  <2>2. CASE store' = [store EXCEPT ![b].dir[d] = 0] /\ Empty(b, d)
    <3>1. store \in [CacheBases -> Stores]
      BY Kept
    <3>2. DirPut(store', store, b, d)
      BY <1>1, <2>2, <3>1, DirRemoved, Zenon
    <3> QED BY <2>2, <3>2 DEF DirPut
  <2> QED BY <2>1, <2>2 DEF RemoveDir
<1>3. Empty(b, d) => \A f \in Files : VersionOf[f] = d => store[b].data[f] = 0
  <2> SUFFICES ASSUME Empty(b, d), NEW f \in Files, VersionOf[f] = d,
                      store[b].data[f] # 0
               PROVE  FALSE
    OBVIOUS
  <2>1. <<f, "data">> \in Entries /\ There(b, <<f, "data">>)
    BY DEF Entries, There
  <2> QED BY <2>1 DEF Empty, Listed
<1>4. Before' = Before
  BY <1>1 DEF Before
<1>5. DirsOK'
  BY <1>2, <1>3, VersionInDirs, Kept DEF DirsOK
<1>6. DirectoryHeld'
  <2> SUFFICES ASSUME writer.at # "idle", writer.gen = gen
               PROVE  store'[writer.base].dir[VersionOf[writer.file]] # 0
    BY <1>1 DEF DirectoryHeld
  <2>1. /\ writer.at = "temp" /\ writer.file \in Files /\ writer.base \in CacheBases
        /\ store[writer.base].dir[VersionOf[writer.file]] # 0
    BY <1>1, Kept DEF WriterOK, DirectoryHeld, Writers
  <2>2. ~(writer.base = b /\ VersionOf[writer.file] = d /\ Empty(b, d))
    BY <2>1 DEF Empty
  <2> QED BY <1>2, <2>1, <2>2, VersionInDirs
<1>7. WriterOK'
  BY <1>1, <1>6, Kept DEF WriterOK
<1>8. World'
  BY <1>1, <1>2, <1>4, <1>5, <1>7 DEF IInv, World, StampsOK, Bounded, StampsUnique, MemoryOK
<1>9. PICK res \in SUBSET {"dir", "failed"} :
        task' = [task EXCEPT !.touched = @ \ {d}, !.res = @ \cup res]
  <2> DEFINE to(r) == [task EXCEPT !.touched = @ \ {d}, !.res = r]
  <2>1. \/ task' = to(task.res \cup {"dir"}) \/ task' = to(task.res \cup {"failed"})
        \/ task' = to(task.res)
    BY DEF RemoveDir
  <2>2. task.res = task.res \cup {}
    OBVIOUS
  <2> QED BY <2>1, <2>2
<1> DEFINE t == [task EXCEPT !.touched = @ \ {d}, !.res = @ \cup res]
<1>10. /\ t \in Tasks /\ t.at = "next" /\ t.kind = task.kind /\ t.base = task.base
       /\ t.seen = task.seen /\ t.dirs = task.dirs /\ t.chosen = task.chosen
       /\ t.todo = task.todo /\ task.res \subseteq t.res
  BY <1>1, <1>9 DEF Tasks, Results
<1>11. PICK u : u = t
  OBVIOUS
<1> HIDE DEF t
<1>12. TaskOK(u)
  <2>1. Stage(u) /\ Locked(u)
    BY <1>1, <1>10, <1>11, Kept DEF Stage, Locked
  <2> QED BY <1>1, <1>10, <1>11, <2>1, Steady
<1>13. task' = u
  BY <1>9, <1>11 DEF t
<1> QED BY <1>1, <1>2, <1>4, <1>8, <1>12, <1>13, TaskMoves

-----------------------------------------------------------------------------
(***************************************************************************)
(* The invariant is inductive.                                             *)
(***************************************************************************)
LEMMA OthersIInv == ASSUME IInv, Others PROVE IInv'
BY MakeDirIInv, LookIInv, LoadIInv, InvalidateFileIInv, VanishIInv, MakeTempIInv, EndDownloadIInv,
   BackfillIInv, ClearAllIInv, SwitchIInv DEF Others

LEMMA ScanIInv == ASSUME IInv, Scan PROVE IInv'
BY BeginScanIInv, AbortWalkIInv, PublishScanIInv, EnterDirIInv, VisitIInv DEF Scan

LEMMA DeleteIInv == ASSUME IInv, Delete PROVE IInv'
<1>1. CASE BeginClear("clear") \/ BeginClear("both") \/ BeginSlim \/ BeginLive
  BY <1>1, BeginClearIInv, BeginSlimIInv, BeginLiveIInv
<1>2. CASE \E d \in Dirs : SlimDir(d) \/ RemoveDir(d)
  BY <1>2, SlimDirIInv, RemoveDirIInv
<1>3. CASE \E f \in Files : DeleteGone(f) \/ DeleteChanged(f) \/ DeleteCheck(f)
  BY <1>3, DeleteGoneIInv, DeleteChangedIInv, DeleteCheckIInv
<1>4. CASE WalkedLive \/ Remove \/ RemoveExt \/ NextVersion \/ ThenSlim
  BY <1>4, WalkedLiveIInv, RemoveIInv, RemoveExtIInv, NextVersionIInv, ThenSlimIInv
<1>5. CASE Cancel \/ Finish
  BY <1>5, EndedIInv DEF Cancel, Finish
<1> QED BY <1>1, <1>2, <1>3, <1>4, <1>5 DEF Delete

LEMMA NextIInv == IInv /\ [DeletionNext]_deletionVars => IInv'
<1> SUFFICES ASSUME IInv, [DeletionNext]_deletionVars PROVE IInv'
  OBVIOUS
<1>1. CASE DeletionNext
  BY <1>1, OthersIInv, ScanIInv, DeleteIInv DEF DeletionNext
<1>2. CASE UNCHANGED deletionVars
  <2>1. Goes(task)
    BY <1>2 DEF deletionVars, Goes
  <2> QED BY <2>1, GoesIInv DEF IInv
<1> QED BY <1>1, <1>2

LEMMA IInvAlways == DeletionSpec => []IInv
BY InitIInv, NextIInv, PTL DEF DeletionSpec

-----------------------------------------------------------------------------
(***************************************************************************)
(* The theorems.                                                           *)
(***************************************************************************)
\* The variables keep their types, and no stamp or generation is given beyond the
\* bounds.
THEOREM DeletionTypes == DeletionSpec => []DeletionTypeOK
<1>1. IInv => DeletionTypeOK
  BY DEF IInv, World, TaskOK, DeletionTypeOK
<1> QED BY <1>1, IInvAlways, PTL

\* A file that deleteSingleVerifiedEntryWithDirInfos has removed never comes back
\* from memory: the lookup that had loaded it before has lost its token.
THEOREM DeletedNeverBack == DeletionSpec => []DeletedStaysGone
<1>1. IInv => DeletedStaysGone
  BY Kept DEF MemoryOK, DeletedStaysGone
<1> QED BY <1>1, IInvAlways, PTL

\* removeVerifiedEmptyDir never takes away the directory that a download of the
\* current generation has made or has its temporary file in.
THEOREM DirectoriesHeld == DeletionSpec => []DirectoryHeld
<1>1. IInv => DirectoryHeld
  BY Kept DEF WriterOK
<1> QED BY <1>1, IInvAlways, PTL

\* A deletion that ends with the status "completed" has left none of the files it
\* chose as the scan recorded them.
THEOREM CompletedIsGone == DeletionSpec => []CompletedMeansGone
<1>1. ASSUME IInv, Over, Status(task.res) = "completed", NEW f \in task.chosen
      PROVE  store[task.base].data[f] # task.seen.data[f]
  <2>1. "failed" \notin task.res
    BY <1>1 DEF Status
  <2>2. task.todo = {}
    BY <1>1, Kept DEF Over, Pruned, Stage
  <2> QED BY <1>1, <2>1, <2>2, Kept DEF Processed
<1>2. IInv => CompletedMeansGone
  BY <1>1 DEF CompletedMeansGone
<1> QED BY <1>2, IInvAlways, PTL

\* No later task accepts a snapshot that lists a file an earlier one has deleted.
THEOREM SnapshotsForget == DeletionSpec => []SnapshotForgetsDeleted
<1>1. ASSUME IInv, task.at = "idle", SnapshotValid, NEW f \in Files
      PROVE  snap.seen.data[f] \notin deleted[f]
  <2>1. task.res = {}
    BY <1>1, Kept DEF Stage, NoTask
  <2> QED BY <1>1, <2>1, Kept DEF Remembered, SnapshotValid
<1>2. IInv => SnapshotForgetsDeleted
  BY <1>1 DEF SnapshotForgetsDeleted
<1> QED BY <1>2, IInvAlways, PTL

-----------------------------------------------------------------------------
\* A step of a task that writes nothing.
LEMMA WritesNothing == UNCHANGED store => OnlyTheRecorded
BY DEF OnlyTheRecorded

LEMMA RemoveRecorded == ASSUME IInv, Remove PROVE OnlyTheRecorded
<1>1. CASE UNCHANGED store
  BY <1>1, WritesNothing
<1>2. CASE ~UNCHANGED store
  <2> DEFINE f == task.file
             b == task.base
  <2>1. /\ task.at = "remove" /\ f \in task.todo /\ f \in task.chosen /\ f \in Files
        /\ b \in CacheBases /\ cacheBase = b
        /\ store[b].data[f] \in {0, task.seen.data[f]} /\ store[b].data[f] # 0
        /\ store' = [store EXCEPT ![b].data[f] = 0]
    BY <1>2, Kept DEF Remove, Locked, Stage, Chosen, Tasks
  <2>2. store \in [CacheBases -> Stores] /\ 0 \in Stamps
    BY Kept, BoundAssumption DEF Stamps
  <2>3. DataPut(store', store, b, f, 0)
    BY <2>1, <2>2, DataStored, Zenon
  <2>4. \A c \in CacheBases, g \in Files :
          /\ store'[c].data[g] # store[c].data[g] => c = b /\ g = f
          /\ store'[c].ext[g] = store[c].ext[g]
    BY <2>3 DEF DataPut
  <2> SUFFICES ASSUME NEW c \in CacheBases, NEW n \in Entries,
                      store'[c][n[2]][n[1]] # store[c][n[2]][n[1]]
               PROVE  /\ c = cacheBase /\ c = task.base
                      /\ n[1] \in task.chosen
                      /\ store[c][n[2]][n[1]] = task.seen[n[2]][n[1]]
    BY DEF OnlyTheRecorded
  <2>5. n[1] \in Files /\ n[2] = "data" /\ c = b /\ n[1] = f
    BY <2>4 DEF Entries
  <2> QED BY <2>1, <2>5
<1> QED BY <1>1, <1>2

LEMMA RemoveExtRecorded == ASSUME IInv, RemoveExt PROVE OnlyTheRecorded
<1>1. CASE UNCHANGED store
  BY <1>1, WritesNothing
<1>2. CASE ~UNCHANGED store
  <2> DEFINE f == task.file
             b == task.base
  <2>1. /\ task.at = "ext" /\ f \in task.todo /\ f \in task.chosen /\ f \in Files
        /\ b \in CacheBases /\ cacheBase = b
        /\ store[b].ext[f] = task.seen.ext[f]
        /\ store' = [store EXCEPT ![b].ext[f] = 0]
    BY <1>2, Kept DEF RemoveExt, Ext, ExtChanged, Locked, Stage, Chosen, Tasks
  <2>2. store \in [CacheBases -> Stores] /\ 0 \in Stamps
    BY Kept, BoundAssumption DEF Stamps
  <2>3. ExtPut(store', store, b, f, 0)
    BY <2>1, <2>2, ExtStored, Zenon
  <2>4. \A c \in CacheBases, g \in Files :
          /\ store'[c].ext[g] # store[c].ext[g] => c = b /\ g = f
          /\ store'[c].data[g] = store[c].data[g]
    BY <2>3 DEF ExtPut
  <2> SUFFICES ASSUME NEW c \in CacheBases, NEW n \in Entries,
                      store'[c][n[2]][n[1]] # store[c][n[2]][n[1]]
               PROVE  /\ c = cacheBase /\ c = task.base
                      /\ n[1] \in task.chosen
                      /\ store[c][n[2]][n[1]] = task.seen[n[2]][n[1]]
    BY DEF OnlyTheRecorded
  <2>5. n[1] \in Files /\ n[2] = "ext" /\ c = b /\ n[1] = f
    BY <2>4 DEF Entries
  <2> QED BY <2>1, <2>5
<1> QED BY <1>1, <1>2

\* A directory is not an entry.
LEMMA RemoveDirRecorded == ASSUME IInv, NEW d \in Dirs, RemoveDir(d) PROVE OnlyTheRecorded
<1>1. CASE UNCHANGED store
  BY <1>1, WritesNothing
<1>2. CASE ~UNCHANGED store
  <2>1. /\ store' = [store EXCEPT ![task.base].dir[d] = 0] /\ task.base \in CacheBases
        /\ store \in [CacheBases -> Stores]
    BY <1>2, Kept DEF RemoveDir, Stage
  <2>2. \A c \in CacheBases : store'[c].data = store[c].data /\ store'[c].ext = store[c].ext
    BY <2>1 DEF Stores
  <2>3. \A n \in Entries : n[2] \in {"data", "ext"}
    BY DEF Entries
  <2> QED BY <2>2, <2>3 DEF OnlyTheRecorded
<1> QED BY <1>1, <1>2

\* Whatever is downloaded, invalidated, cleared or switched between the steps of a
\* task, each of its steps removes only the file, or the metadata, that the scan
\* has recorded, from the directory in use.
THEOREM TasksSpareNewer == DeletionSpec => NewerSurvives
<1>1. ASSUME IInv, DeletionNext PROVE OnlyTheRecorded
  <2>1. CASE Others
    <3>1. UNCHANGED task
      BY <2>1 DEF Others, MakeDir, Look, Load, InvalidateFile, Vanish, MakeTemp, EndDownload,
         Backfill, ClearAllWithError, SwitchCacheBase, NewGeneration
    <3> QED BY <3>1 DEF OnlyTheRecorded
  <2>2. CASE Scan
    BY <2>2, WritesNothing
       DEF Scan, BeginScan, AbortWalk, PublishScan, EnterDir, Visit, Goes
  <2>3. CASE Delete
    <3>1. CASE BeginClear("clear") \/ BeginClear("both") \/ BeginSlim \/ BeginLive
      BY <3>1, WritesNothing DEF BeginClear, BeginSlim, BeginLive, Goes
    <3>2. CASE \E d \in Dirs : SlimDir(d)
      BY <3>2, WritesNothing DEF SlimDir, Goes
    <3>3. CASE \E f \in Files : DeleteGone(f) \/ DeleteChanged(f) \/ DeleteCheck(f)
      BY <3>3, WritesNothing DEF DeleteGone, DeleteChanged, DeleteCheck, Goes
    <3>4. CASE WalkedLive \/ NextVersion \/ ThenSlim \/ Cancel \/ Finish
      BY <3>4, WritesNothing
         DEF WalkedLive, NextVersion, ThenSlim, Cancel, Finish, Ended, Goes
    <3> QED BY <1>1, <2>3, <3>1, <3>2, <3>3, <3>4, RemoveRecorded, RemoveExtRecorded,
               RemoveDirRecorded DEF Delete
  <2> QED BY <1>1, <2>1, <2>2, <2>3 DEF DeletionNext
<1>2. IInv /\ [DeletionNext]_deletionVars => [OnlyTheRecorded]_deletionVars
  BY <1>1
<1> QED BY <1>2, IInvAlways, PTL DEF DeletionSpec, NewerSurvives
====
