------------------------ MODULE CacheManager_proofs ------------------------
(***************************************************************************)
(* Proofs about CacheManager, for every set of names, payloads and         *)
(* directories, and any number of clients and persist workers.             *)
(*                                                                         *)
(* InvalidatedStaysGone is not inductive: what an operation under way may  *)
(* still write has to be bounded too.  A write whose token is alive goes   *)
(* to the directory in use, with a payload that is still legitimate there. *)
(* A read whose token is alive may have gone to a directory left behind,   *)
(* with the path it had before the change, but then the history says so    *)
(* until its key is invalidated.  Who has renamed a file holds the shard   *)
(* lock, so that no invalidation comes before its metadata.                *)
(***************************************************************************)
EXTENDS CacheManager, SequenceTheorems, TLAPS

\* What a tier may hold for n.
Held(n) == Legal(n) \cup {None}

\* A tier in memory holds nothing that is gone.
TierOK(tier) == /\ tier \in [Names -> Items]
                /\ \A n \in Names : tier[n].data \in Held(n)

FilesOK == /\ disk \in [Bases -> [Names -> Contents \cup {None, Corrupt}]]
           /\ \A b \in Bases, n \in Names :
                disk[b][n] \in legit[b][Canon[n]] \cup {None, Corrupt}

Writing == {"queue", "persist", "rename", "temp", "written"}

\* What an operation has in hand at its step.
Shape(o) ==
  /\ o.at # "idle" => /\ o.name \in Names /\ o.file \in Names
                      /\ Canon[o.file] = Canon[o.name]
  /\ o.at = "lookup" => o.data = None
  /\ o.at = "stat" => o.kind = "has"
  /\ o.at \in {"ext", "judge"} => o.data # None
  /\ \/ o.at \in Writing \cup {"index"}
     \/ o.at = "found" /\ o.kind \in {"get", "boost"}
     => o.data \in Contents
  /\ \/ o.at \in {"judge", "index"} /\ o.data \in Contents
     \/ o.at = "found" /\ o.kind \in {"get", "boost"}
     => o.etag \in Contents

\* The directories that an operation on n may look into with a live token.
Sources(n) == {base} \cup stray[Canon[n]]

\* A live token: what is read is from such a directory and legitimate there;
\* what is written goes to the directory in use.
Fresh(o) ==
  o.live => /\ o.at \notin {"idle", "lookup"}
            /\ o.dir \in Sources(o.name)
            /\ o.data \in Held(o.name) \cup {Corrupt}
            /\ o.at \in Writing =>
                 o.dir = base /\ o.data \in legit[base][Canon[o.name]]

\* A renamed file: the lock is held until the metadata are written.
Locked(a) == op[a].at = "written" =>
               /\ op[a].dir = base
               /\ op[a].data \in legit[base][Canon[op[a].name]]
               /\ lock[Canon[op[a].name]] = a

OpsOK == \A a \in Actors : Shape(op[a]) /\ Fresh(op[a]) /\ Locked(a)

FreshTask(t) == t.live => t.dir = base /\ t.data \in legit[base][Canon[t.name]]
QueueOK == \A i \in DOMAIN queue : FreshTask(queue[i])

MemoryOK == TierOK(meta) /\ TierOK(ram) /\ TierOK(resident)

\* The parts of the type invariant that say nothing of what is legal.
Typed == /\ base \in Bases /\ ramEnabled \in BOOLEAN /\ boost \in BOOLEAN
         /\ autoRepair \in BOOLEAN
         /\ ext \in [Bases -> [Names -> Items]]
         /\ missing \subseteq Names
         /\ queue \in Seq(Task) /\ Len(queue) <= QueueCap
         /\ lock \in [CacheKeys -> Actors \cup {None}]
         /\ op \in [Actors -> Op]
         /\ legit \in [Bases -> [CacheKeys -> SUBSET Contents]]
         /\ latest \in [Names -> Contents \cup {None}]
         /\ stray \in [CacheKeys -> SUBSET Bases]

IInv == Typed /\ OpsOK /\ QueueOK /\ MemoryOK /\ FilesOK

-----------------------------------------------------------------------------
(***************************************************************************)
(* The data.                                                               *)
(***************************************************************************)
LEMMA CanonInKeys == \A n \in Names : Canon[n] \in CacheKeys
  BY DEF CacheKeys

LEMMA NoItemType == NoItem \in Items /\ NoItem.data = None
  BY DEF NoItem, Items

LEMMA ItemType ==
  ASSUME NEW c \in Contents, NEW e \in Contents
  PROVE  Item(c, e) \in Items /\ Item(c, e).data = c /\ Item(c, e).etag = e
  BY DEF Item, Items

LEMMA IdleType == ASSUME Bases # {} PROVE Idle \in Op /\ ~Idle.live /\ Idle.at = "idle"
  BY DEF Idle, Op, Steps, Kinds

LEMMA StartType ==
  ASSUME base \in Bases, NEW kind \in Kinds, NEW at \in Steps, NEW n \in Names
  PROVE  /\ Start(kind, at, n) \in Op
         /\ Start(kind, at, n).at = at /\ Start(kind, at, n).kind = kind
         /\ Start(kind, at, n).name = n /\ Start(kind, at, n).file = n
         /\ Start(kind, at, n).dir = base /\ Start(kind, at, n).live
         /\ Start(kind, at, n).data = None /\ Start(kind, at, n).etag = None
  BY IdleType DEF Start, Idle, Op

\* A tier keeps its property when one of its items is replaced by a legal one,
\* and when items are dropped.
LEMMA TierSet ==
  ASSUME NEW tier, TierOK(tier), NEW n \in Names, NEW item \in Items,
         item.data \in Held(n)
  PROVE  TierOK([tier EXCEPT ![n] = item])
  BY DEF TierOK

LEMMA TierDrop ==
  ASSUME NEW tier, TierOK(tier), NEW n \in Names
  PROVE  TierOK([tier EXCEPT ![n] = NoItem])
  BY TierSet, NoItemType DEF Held

LEMMA TierCleared ==
  ASSUME NEW tier, TierOK(tier), NEW ns
  PROVE  TierOK(Cleared(tier, ns))
  BY NoItemType DEF TierOK, Cleared, Held

\* So does the table of .ext files.
LEMMA ExtSet ==
  ASSUME NEW files \in [Bases -> [Names -> Items]], NEW b \in Bases,
         NEW n \in Names, NEW item \in Items
  PROVE  [files EXCEPT ![b][n] = item] \in [Bases -> [Names -> Items]]
  OBVIOUS

LEMMA InvGivesType == IInv => TypeOK
  BY DEF IInv, TypeOK, Typed, MemoryOK, FilesOK, TierOK

LEMMA InvGivesProperty == IInv => InvalidatedStaysGone
  BY DEF IInv, MemoryOK, FilesOK, TierOK, Held, InvalidatedStaysGone, Tiers

-----------------------------------------------------------------------------
(***************************************************************************)
(* Steps that leave the queue, the locks and the histories alone.          *)
(***************************************************************************)
Calm == UNCHANGED <<modeVars, queue, lock, histVars>>

\* An operation goes on to step q, with tiers that are still legal, and perhaps
\* a file removed.
LEMMA CalmStep ==
  ASSUME IInv, Calm, NEW a \in Actors, NEW q \in Op,
         Shape(q), Fresh(q), q.at # "written", op' = [op EXCEPT ![a] = q],
         TierOK(meta'), TierOK(ram'), TierOK(resident'),
         ext' \in [Bases -> [Names -> Items]], missing' \subseteq Names,
         disk' \in [Bases -> [Names -> Contents \cup {None, Corrupt}]],
         \A b \in Bases, n \in Names : disk'[b][n] \in {disk[b][n], None}
  PROVE  IInv'
<1>1. /\ UNCHANGED <<base, ramEnabled, autoRepair, boost>>
      /\ UNCHANGED <<queue, lock, legit, latest, stray>>
  BY DEF Calm, modeVars, histVars
<1>2. Typed'
  BY <1>1 DEF IInv, Typed
<1>3. OpsOK'
  <2> SUFFICES ASSUME NEW c \in Actors
               PROVE  (Shape(op[c]) /\ Fresh(op[c]) /\ Locked(c))'
    BY DEF OpsOK
  <2>1. op \in [Actors -> Op]
    BY DEF IInv, Typed
  <2>2. CASE c = a
    <3>1. op'[c] = q
      BY <2>1, <2>2
    <3>2. Shape(op[c])'
      BY <3>1 DEF Shape
    <3>3. Fresh(op[c])'
      BY <1>1, <3>1 DEF Fresh, Held, Legal, Sources
    <3> QED BY <3>1, <3>2, <3>3 DEF Locked
  <2>3. CASE c # a
    <3>1. op'[c] = op[c]
      BY <2>1, <2>3
    <3>2. Shape(op[c]) /\ Fresh(op[c]) /\ Locked(c)
      BY DEF IInv, OpsOK
    <3>3. Shape(op[c])'
      BY <3>1, <3>2 DEF Shape
    <3>4. Fresh(op[c])'
      BY <1>1, <3>1, <3>2 DEF Fresh, Held, Legal, Sources
    <3> QED BY <1>1, <3>1, <3>2, <3>3, <3>4 DEF Locked
  <2> QED BY <2>2, <2>3
<1>4. QueueOK'
  BY <1>1 DEF IInv, QueueOK, FreshTask
<1>5. MemoryOK'
  BY <1>1 DEF MemoryOK, TierOK, Held, Legal
<1>6. FilesOK'
  BY <1>1 DEF IInv, FilesOK
<1> QED BY <1>2, <1>3, <1>4, <1>5, <1>6 DEF IInv

\* The same, for a step that touches the index and the negative cache at most.
LEMMA IndexStep ==
  ASSUME IInv, Calm, NEW a \in Actors, NEW q \in Op,
         Shape(q), Fresh(q), q.at # "written", op' = [op EXCEPT ![a] = q],
         TierOK(meta'), missing' \subseteq Names,
         UNCHANGED <<disk, ext, ram, resident>>
  PROVE  IInv'
<1>1. TierOK(ram') /\ TierOK(resident')
  BY DEF IInv, MemoryOK
<1>2. /\ ext' \in [Bases -> [Names -> Items]]
      /\ disk' \in [Bases -> [Names -> Contents \cup {None, Corrupt}]]
      /\ \A b \in Bases, n \in Names : disk'[b][n] \in {disk[b][n], None}
  BY DEF IInv, Typed, FilesOK
<1> QED BY <1>1, <1>2, CalmStep

\* What the steps below start from.
LEMMA Given ==
  ASSUME IInv, NEW a \in Actors
  PROVE  /\ op[a] \in Op /\ Shape(op[a]) /\ Fresh(op[a]) /\ Locked(a)
         /\ Bases # {} /\ base \in Bases
         /\ TierOK(meta) /\ TierOK(ram) /\ TierOK(resident)
         /\ missing \subseteq Names
  BY DEF IInv, Typed, OpsOK, MemoryOK

\* An idle operation is fine.
LEMMA IdleFine ==
  ASSUME Bases # {}
  PROVE  Idle \in Op /\ Shape(Idle) /\ Fresh(Idle) /\ Idle.at # "written"
  BY IdleType DEF Shape, Fresh, Writing, Idle

\* So is a lookup that has no token yet.
LEMMA LookupFine ==
  ASSUME base \in Bases, NEW kind \in Kinds, NEW n \in Names
  PROVE  /\ Lookup(kind, n) \in Op /\ Shape(Lookup(kind, n)) /\ Fresh(Lookup(kind, n))
         /\ Lookup(kind, n).at = "lookup"
<1> DEFINE s == Start(kind, "lookup", n)
           q == [s EXCEPT !.live = FALSE]
<1>1. /\ s \in Op /\ s.at = "lookup" /\ s.name = n /\ s.file = n /\ s.data = None
  <2>1. "lookup" \in Steps
    BY DEF Steps
  <2> QED BY <2>1, StartType
<1> HIDE DEF s
<1>2. /\ q \in Op /\ q.at = "lookup" /\ q.name = n /\ q.file = n /\ ~q.live
      /\ q.data = None
  BY <1>1 DEF Op
<1>3. Shape(q) /\ Fresh(q)
  BY <1>2 DEF Shape, Fresh, Writing
<1> QED BY <1>2, <1>3 DEF s, Lookup

\* How a load ends.
LEMMA EndsFine ==
  ASSUME NEW o \in Op, Shape(o), Fresh(o), o.at # "idle"
  PROVE  /\ Fails(o) \in Op /\ Shape(Fails(o)) /\ Fresh(Fails(o))
         /\ Fails(o).at # "written"
         /\ o.at = "index" =>
              /\ Succeeds(o) \in Op /\ Shape(Succeeds(o)) /\ Fresh(Succeeds(o))
              /\ Succeeds(o).at # "written"
<1>1. /\ Succeeds(o) \in Op /\ Succeeds(o).at = "found"
      /\ Succeeds(o).name = o.name /\ Succeeds(o).file = o.file
      /\ Succeeds(o).dir = o.dir /\ Succeeds(o).live = o.live
      /\ Succeeds(o).data = o.data /\ Succeeds(o).etag = o.etag
      /\ Succeeds(o).kind = o.kind
  BY DEF Succeeds, Op, Steps
<1>2. /\ Fails(o) \in Op /\ Fails(o).at = "failed"
      /\ Fails(o).name = o.name /\ Fails(o).file = o.file
      /\ Fails(o).dir = o.dir /\ Fails(o).live = o.live
      /\ Fails(o).data = None
  BY <1>1 DEF Fails, Op, Steps
<1>3. Shape(Fails(o)) /\ Fresh(Fails(o))
  BY <1>2 DEF Shape, Fresh, Writing, Held
<1>4. o.at = "index" => Shape(Succeeds(o)) /\ Fresh(Succeeds(o))
  BY <1>1 DEF Shape, Fresh, Writing
<1> QED BY <1>1, <1>2, <1>3, <1>4

LEMMA LookupInv ==
  ASSUME IInv, NEW a \in Actors, NEW n \in Names,
         GetLookup(a, n) \/ HasLookup(a, n) \/ BoostLookup(a, n)
  PROVE  IInv'
<1>1. PICK kind \in Kinds : op' = [op EXCEPT ![a] = Lookup(kind, n)]
  BY DEF GetLookup, HasLookup, BoostLookup, Becomes, Kinds
<1>2. Calm /\ UNCHANGED <<tierVars>>
  BY DEF GetLookup, HasLookup, BoostLookup, Calm
<1> QED BY <1>1, <1>2, Given, LookupFine, IndexStep DEF tierVars

\* The token: the history notes a directory that is not the one in use.  What
\* was legal stays so.
LEMMA AcquireTokenInv ==
  ASSUME IInv, NEW a \in Actors, AcquireToken(a)
  PROVE  IInv'
<1> DEFINE o == op[a]
           k == Canon[o.name]
           at == IF o.kind = "has" THEN "stat" ELSE "open"
           q == [o EXCEPT !.at = at, !.live = TRUE]
<1>1. /\ o \in Op /\ Shape(o) /\ o.at = "lookup" /\ o.data = None
      /\ o.name \in Names /\ o.file \in Names /\ o.dir \in Bases
      /\ Canon[o.file] = Canon[o.name] /\ k \in CacheKeys
  BY Given, CanonInKeys DEF AcquireToken, Shape, Op
<1>2. /\ UNCHANGED <<tierVars, modeVars, queue, lock, legit, latest>>
      /\ op' = [op EXCEPT ![a] = q]
      /\ stray' = [stray EXCEPT ![k] = IF o.dir = base THEN @ ELSE @ \cup {o.dir}]
  BY DEF AcquireToken, Becomes
<1>3. UNCHANGED <<disk, ext, meta, missing, ram, resident, base, ramEnabled,
                  autoRepair, boost, queue, lock, legit, latest>>
  BY <1>2 DEF tierVars, modeVars
<1>4. at \in {"stat", "open"} /\ (at = "stat" => o.kind = "has")
  OBVIOUS
<1> HIDE DEF at
<1>5. /\ q \in Op /\ q.at = at /\ q.live /\ q.name = o.name /\ q.file = o.file
      /\ q.dir = o.dir /\ q.data = None /\ q.kind = o.kind
  BY <1>1, <1>4 DEF Op, Steps
<1>6. /\ op \in [Actors -> Op] /\ stray \in [CacheKeys -> SUBSET Bases]
  BY DEF IInv, Typed
<1>7. /\ stray' \in [CacheKeys -> SUBSET Bases] /\ o.dir \in {base} \cup stray'[k]
      /\ \A key \in CacheKeys : stray[key] \subseteq stray'[key]
  BY <1>1, <1>2, <1>6
<1>8. \A m \in Names : Held(m) \subseteq Held(m)' /\ Sources(m) \subseteq Sources(m)'
  BY <1>3, <1>7, CanonInKeys DEF Held, Legal, Sources
<1> HIDE DEF q
<1>9. Typed'
  BY <1>2, <1>3, <1>5, <1>6, <1>7 DEF IInv, Typed
<1>10. OpsOK'
  <2> SUFFICES ASSUME NEW c \in Actors
               PROVE  (Shape(op[c]) /\ Fresh(op[c]) /\ Locked(c))'
    BY DEF OpsOK
  <2>1. CASE c = a
    <3>1. op'[c] = q
      BY <1>2, <1>6, <2>1
    <3>2. Shape(op[c])'
      BY <1>1, <1>4, <1>5, <3>1 DEF Shape, Writing
    <3>3. Fresh(op[c])'
      BY <1>3, <1>4, <1>5, <1>7, <3>1 DEF Fresh, Held, Sources, Writing
    <3> QED BY <1>4, <1>5, <3>1, <3>2, <3>3 DEF Locked
  <2>2. CASE c # a
    <3>1. op'[c] = op[c] /\ Shape(op[c]) /\ Fresh(op[c]) /\ Locked(c)
      BY <1>2, <1>6, <2>2, Given
    <3>2. Shape(op[c])'
      BY <3>1 DEF Shape
    <3>3. Fresh(op[c])'
      BY <1>3, <1>8, <3>1 DEF Fresh, Shape
    <3> QED BY <1>3, <3>1, <3>2, <3>3 DEF Locked
  <2> QED BY <2>1, <2>2
<1>11. QueueOK'
  BY <1>3 DEF IInv, QueueOK, FreshTask
<1>12. MemoryOK'
  BY <1>3, <1>8 DEF IInv, MemoryOK, TierOK
<1>13. FilesOK'
  BY <1>3 DEF IInv, FilesOK
<1> QED BY <1>9, <1>10, <1>11, <1>12, <1>13 DEF IInv

\* What is read in a directory that a live token may go to is legal.
LEMMA ReadLegal ==
  ASSUME IInv, NEW o \in Op, Shape(o), Fresh(o), o.at # "idle", o.live
  PROVE  disk[o.dir][o.file] \in Held(o.name) \cup {Corrupt}
<1>1. /\ o.name \in Names /\ o.file \in Names /\ o.dir \in Bases
      /\ Canon[o.file] = Canon[o.name] /\ Canon[o.name] \in CacheKeys
      /\ o.dir \in {base} \cup stray[Canon[o.name]]
  BY CanonInKeys DEF Shape, Fresh, Op, Sources
<1>2. disk[o.dir][o.file] \in legit[o.dir][Canon[o.name]] \cup {None, Corrupt}
  BY <1>1 DEF IInv, FilesOK
<1>3. legit[o.dir][Canon[o.name]] \subseteq Contents
  BY <1>1 DEF IInv, Typed
<1> QED BY <1>1, <1>2, <1>3 DEF Held, Legal

LEMMA LoadFileInv ==
  ASSUME IInv, NEW a \in Actors, LoadFile(a)
  PROVE  IInv'
<1> DEFINE o == op[a]
           c == disk[o.dir][o.file]
           e == ext[o.dir][o.file]
           tag == IF e = NoItem THEN OwnEtag(c) ELSE e.etag
           locked == [o EXCEPT !.at = "judge", !.data = c, !.etag = tag,
                               !.verified = (e.data = c),
                               !.unindexed = (meta[o.file].data # c)]
           free == [o EXCEPT !.at = "ext", !.data = c]
<1>1. /\ o \in Op /\ Shape(o) /\ Fresh(o) /\ o.at = "open"
      /\ o.name \in Names /\ o.file \in Names /\ Canon[o.file] = Canon[o.name]
  BY Given DEF LoadFile, Shape
<1>2. Calm /\ UNCHANGED <<disk, ext, missing, ram, resident>>
  BY DEF LoadFile, Calm
<1>3. CASE c = None
  <2>1. meta' = [meta EXCEPT ![o.file] = NoItem] /\ op' = [op EXCEPT ![a] = Fails(o)]
    BY <1>3 DEF LoadFile, Becomes
  <2>2. TierOK(meta')
    BY <1>1, <2>1, Given, TierDrop
  <2>3. Fails(o) \in Op /\ Shape(Fails(o)) /\ Fresh(Fails(o)) /\ Fails(o).at # "written"
    BY <1>1, EndsFine
  <2> QED BY <1>2, <2>1, <2>2, <2>3, Given, IndexStep
<1>4. CASE c # None
  <2>1. /\ c \in Contents \cup {Corrupt} /\ o.dir \in Bases
        /\ c \in legit[o.dir][Canon[o.file]] \cup {Corrupt}
    BY <1>1, <1>4 DEF IInv, FilesOK, Op
  <2>2. e \in Items /\ tag \in Contents \cup {None} /\ (c \in Contents => tag \in Contents)
    BY <1>1, <2>1 DEF IInv, Typed, Items, OwnEtag
  <2>3. o.live => c \in Held(o.name) \cup {Corrupt}
    BY <1>1, ReadLegal
  <2>4. locked \in Op /\ Shape(locked) /\ Fresh(locked) /\ locked.at # "written"
    <3>1. /\ locked \in Op /\ locked.at = "judge" /\ locked.data = c
          /\ locked.etag = tag /\ locked.name = o.name /\ locked.file = o.file
          /\ locked.live = o.live /\ locked.dir = o.dir
      <4>1. o \in Op /\ c \in Contents \cup {None, Corrupt} /\ tag \in Contents \cup {None}
        BY <1>1, <2>1, <2>2
      <4> DEFINE v == e.data = c
                 u == meta[o.file].data # c
                 bare == [o EXCEPT !.at = "judge", !.data = c, !.etag = tag]
      <4>2. v \in BOOLEAN /\ u \in BOOLEAN
        OBVIOUS
      <4>3. locked = [bare EXCEPT !.verified = v, !.unindexed = u]
        BY <4>1 DEF Op
      <4> HIDE DEF v, u, c, e, tag, o
      <4>4. /\ bare \in Op /\ bare.at = "judge" /\ bare.data = c
            /\ bare.etag = tag /\ bare.name = o.name /\ bare.file = o.file
            /\ bare.live = o.live /\ bare.dir = o.dir
        BY <4>1 DEF Op, Steps
      <4> HIDE DEF bare, locked
      <4> QED BY <4>2, <4>3, <4>4 DEF Op
    <3> QED BY <3>1, <1>1, <1>4, <2>2, <2>3 DEF Shape, Fresh, Writing
  <2>5. free \in Op /\ Shape(free) /\ Fresh(free) /\ free.at # "written"
    <3>1. /\ free \in Op /\ free.at = "ext" /\ free.data = c
          /\ free.name = o.name /\ free.file = o.file
          /\ free.live = o.live /\ free.dir = o.dir
      BY <1>1, <2>1 DEF Op, Steps
    <3> QED BY <3>1, <1>1, <1>4, <2>3 DEF Shape, Fresh, Writing
  <2>6. /\ UNCHANGED meta
        /\ op' = [op EXCEPT ![a] = locked] \/ op' = [op EXCEPT ![a] = free]
    BY <1>4 DEF LoadFile, Becomes
  <2> QED BY <1>2, <2>4, <2>5, <2>6, Given, IndexStep
<1> QED BY <1>3, <1>4

LEMMA LoadMetadataInv ==
  ASSUME IInv, NEW a \in Actors, LoadMetadata(a)
  PROVE  IInv'
<1> DEFINE o == op[a]
           known == IF meta[o.file].data = o.data THEN meta[o.file]
                                                  ELSE ext[o.dir][o.file]
           tag == IF known # NoItem THEN known.etag ELSE OwnEtag(o.data)
           q == [o EXCEPT !.at = "judge", !.etag = tag,
                          !.verified = (known.data = o.data),
                          !.unindexed = (meta[o.file].data # o.data)]
<1>1. /\ o \in Op /\ Shape(o) /\ Fresh(o) /\ o.at = "ext"
      /\ o.name \in Names /\ o.file \in Names /\ Canon[o.file] = Canon[o.name]
      /\ o.data # None
  BY Given DEF LoadMetadata, Shape
<1>2. Calm /\ UNCHANGED <<tierVars>> /\ op' = [op EXCEPT ![a] = q]
  BY DEF LoadMetadata, Calm, Becomes
<1>3. known \in Items
  BY <1>1, Given DEF IInv, Typed, TierOK, Op
<1>4. tag \in Contents \cup {None} /\ (o.data \in Contents => tag \in Contents)
  BY <1>3 DEF Items, OwnEtag
<1>5. /\ q \in Op /\ q.at = "judge" /\ q.data = o.data /\ q.etag = tag
      /\ q.name = o.name /\ q.file = o.file /\ q.live = o.live /\ q.dir = o.dir
  BY <1>1, <1>4 DEF Op, Steps
<1>6. Shape(q) /\ Fresh(q)
  BY <1>1, <1>4, <1>5 DEF Shape, Fresh, Writing
<1> QED BY <1>2, <1>5, <1>6, Given, IndexStep DEF tierVars

LEMMA JudgeContentInv ==
  ASSUME IInv, NEW a \in Actors, JudgeContent(a)
  PROVE  IInv'
<1> DEFINE o == op[a]
           q == [o EXCEPT !.at = "index"]
<1>1. /\ o \in Op /\ Shape(o) /\ Fresh(o) /\ o.at = "judge"
      /\ o.name \in Names /\ o.file \in Names /\ Canon[o.file] = Canon[o.name]
      /\ o.data # None /\ o.dir \in Bases
  BY Given DEF JudgeContent, Shape, Op
<1>2. Calm /\ UNCHANGED <<missing, ram>>
  BY DEF JudgeContent, Calm
<1>3. CASE o.data = Corrupt
  <2>1. op' = [op EXCEPT ![a] = Fails(o)] /\ meta' = [meta EXCEPT ![o.file] = NoItem]
    BY <1>3 DEF JudgeContent, Becomes
  <2>2. Fails(o) \in Op /\ Shape(Fails(o)) /\ Fresh(Fails(o)) /\ Fails(o).at # "written"
    BY <1>1, EndsFine
  <2>3. TierOK(meta') /\ TierOK(ram')
    BY <1>1, <1>2, <2>1, Given, TierDrop
  <2>4. \/ UNCHANGED <<disk, ext, resident>>
        \/ /\ disk' = [disk EXCEPT ![o.dir][o.file] = None]
           /\ ext' = [ext EXCEPT ![o.dir][o.file] = NoItem]
           /\ resident' = [resident EXCEPT ![o.file] = NoItem]
    BY <1>3 DEF JudgeContent
  <2>5. CASE UNCHANGED <<disk, ext, resident>>
    <3>1. TierOK(resident')
      BY <2>5, Given
    <3>2. UNCHANGED <<disk, ext, ram, resident>> /\ missing' \subseteq Names
      BY <1>2, <2>5, Given
    <3> QED BY <1>2, <2>1, <2>2, <2>3, <3>2, IndexStep
  <2>6. CASE /\ disk' = [disk EXCEPT ![o.dir][o.file] = None]
             /\ ext' = [ext EXCEPT ![o.dir][o.file] = NoItem]
             /\ resident' = [resident EXCEPT ![o.file] = NoItem]
    <3>1. TierOK(resident')
      BY <1>1, <2>6, Given, TierDrop
    <3>2. ext' \in [Bases -> [Names -> Items]]
      BY <1>1, <2>6, NoItemType DEF IInv, Typed
    <3>3. disk' \in [Bases -> [Names -> Contents \cup {None, Corrupt}]]
      BY <1>1, <2>6 DEF IInv, FilesOK
    <3>4. \A b \in Bases, n \in Names : disk'[b][n] \in {disk[b][n], None}
      BY <1>1, <2>6 DEF IInv, FilesOK
    <3>5. missing' \subseteq Names
      BY <1>2, Given
    <3> QED BY <1>2, <2>1, <2>2, <2>3, <3>1, <3>2, <3>3, <3>4, <3>5, CalmStep
  <2> QED BY <2>4, <2>5, <2>6
<1>4. CASE o.data # Corrupt
  <2>1. /\ op' = [op EXCEPT ![a] = q] /\ UNCHANGED <<disk, ext, meta, resident>>
    BY <1>4 DEF JudgeContent, Becomes
  <2>2. o.data \in Contents
    BY <1>1, <1>4 DEF Op
  <2>3. /\ q \in Op /\ q.at = "index" /\ q.data = o.data /\ q.etag = o.etag
        /\ q.name = o.name /\ q.file = o.file /\ q.live = o.live /\ q.dir = o.dir
    BY <1>1 DEF Op, Steps
  <2>4. Shape(q) /\ Fresh(q)
    BY <1>1, <2>2, <2>3 DEF Shape, Fresh, Writing
  <2> QED BY <1>2, <2>1, <2>3, <2>4, Given, IndexStep
<1> QED BY <1>3, <1>4

\* The names of an operation that is under way share one token key.
LEMMA SameKey ==
  ASSUME NEW o \in Op, Shape(o), o.at # "idle"
  PROVE  /\ o.name \in Names /\ o.file \in Names /\ o.dir \in Bases
         /\ Held(o.file) = Held(o.name)
  BY DEF Shape, Op, Held, Legal

LEMMA IndexFileInv ==
  ASSUME IInv, NEW a \in Actors, IndexFile(a)
  PROVE  IInv'
<1> DEFINE o == op[a]
           record == Item(o.data, o.etag)
<1>1. /\ o \in Op /\ Shape(o) /\ Fresh(o) /\ o.at = "index"
      /\ o.name \in Names /\ o.file \in Names /\ o.dir \in Bases
      /\ Held(o.file) = Held(o.name)
  BY Given, SameKey DEF IndexFile
<1>2. o.data \in Contents /\ o.etag \in Contents
  BY <1>1 DEF Shape
<1>3. record \in Items /\ record.data = o.data
  BY <1>2, ItemType
<1>4. /\ Calm /\ UNCHANGED <<disk, missing, ram, resident>>
  BY DEF IndexFile, Calm
<1>5. /\ Fails(o) \in Op /\ Shape(Fails(o)) /\ Fresh(Fails(o)) /\ Fails(o).at # "written"
      /\ Succeeds(o) \in Op /\ Shape(Succeeds(o)) /\ Fresh(Succeeds(o))
      /\ Succeeds(o).at # "written"
  BY <1>1, EndsFine
<1>6. missing' \subseteq Names
  BY <1>4, Given
<1>7. CASE /\ meta' = [meta EXCEPT ![o.file] = NoItem] /\ UNCHANGED ext
           /\ op' = [op EXCEPT ![a] = Fails(o)]
  <2>1. TierOK(meta')
    BY <1>1, <1>7, Given, TierDrop
  <2> QED BY <1>4, <1>5, <1>6, <1>7, <2>1, IndexStep
<1>8. CASE /\ o.live /\ meta' = [meta EXCEPT ![o.file] = record]
           /\ ext' = IF o.verified THEN ext
                     ELSE [ext EXCEPT ![o.dir][o.file] = record]
           /\ op' = [op EXCEPT ![a] = Succeeds(o)]
  <2>1. o.data \in Held(o.file)
    <3>1. o.data \in Held(o.name) \cup {Corrupt}
      BY <1>1, <1>8 DEF Fresh
    <3>2. o.data \in Held(o.file) \/ (o.data = Corrupt /\ Corrupt \in Contents)
      BY <1>1, <1>2, <3>1
    <3> QED BY <3>2, PayloadAssumption
  <2>2. TierOK(meta')
    BY <1>1, <1>3, <1>8, <2>1, Given, TierSet
  <2>3. ext' \in [Bases -> [Names -> Items]]
    <3>1. CASE o.verified
      BY <1>8, <3>1 DEF IInv, Typed
    <3>2. CASE ~o.verified
      BY <1>1, <1>3, <1>8, <3>2 DEF IInv, Typed
    <3> QED BY <3>1, <3>2
  <2>4. TierOK(ram') /\ TierOK(resident')
    BY <1>4, Given
  <2>5. /\ disk' \in [Bases -> [Names -> Contents \cup {None, Corrupt}]]
        /\ \A b \in Bases, n \in Names : disk'[b][n] \in {disk[b][n], None}
    BY <1>4 DEF IInv, FilesOK
  <2> QED BY <1>4, <1>5, <1>6, <1>8, <2>2, <2>3, <2>4, <2>5, CalmStep
<1>9. CASE UNCHANGED <<meta, ext>> /\ op' = [op EXCEPT ![a] = Succeeds(o)]
  <2>1. TierOK(meta') /\ UNCHANGED <<disk, ext, ram, resident>>
    BY <1>4, <1>9, Given
  <2> QED BY <1>4, <1>5, <1>6, <1>9, <2>1, IndexStep
<1> QED BY <1>7, <1>8, <1>9 DEF IndexFile, Accepts, Becomes

LEMMA GetFinishInv ==
  ASSUME IInv, NEW a \in Actors, GetFinish(a)
  PROVE  IInv'
<1> DEFINE o == op[a]
<1>1. /\ o \in Op /\ Shape(o) /\ Fresh(o) /\ o.at = "found" /\ o.kind = "get"
      /\ o.name \in Names /\ o.file \in Names /\ Held(o.file) = Held(o.name)
  BY Given, SameKey DEF GetFinish
<1>2. o.data \in Contents /\ o.etag \in Contents
  BY <1>1 DEF Shape
<1>3. /\ Calm /\ UNCHANGED <<disk, ext, missing, resident>>
      /\ op' = [op EXCEPT ![a] = Idle]
  BY DEF GetFinish, Calm, Becomes
<1>4. TierOK(ram')
  <2>1. CASE o.live /\ ram' = [ram EXCEPT ![o.name] = Item(o.data, o.etag)]
    <3>1. o.data \in Held(o.name)
      BY <1>1, <1>2, <2>1, PayloadAssumption DEF Fresh
    <3> QED BY <1>1, <1>2, <2>1, <3>1, Given, ItemType, TierSet
  <2>2. CASE ram' = ram
    BY <2>2, Given
  <2> QED BY <2>1, <2>2 DEF GetFinish, MayBackfill, Accepts
<1>5. TierOK(meta')
  <2>1. CASE /\ meta[o.file] # NoItem
             /\ meta' = [meta EXCEPT ![o.name] = Item(meta[o.file].data, o.etag)]
    <3>1. meta[o.file].data \in Contents /\ meta[o.file].data \in Held(o.name)
      BY <1>1, <2>1, Given DEF TierOK, Items
    <3> DEFINE item == Item(meta[o.file].data, o.etag)
    <3>2. item \in Items /\ item.data \in Held(o.name)
      BY <1>2, <3>1, ItemType
    <3> HIDE DEF item
    <3> QED BY <1>1, <2>1, <3>2, Given, TierSet DEF item
  <2>2. CASE meta' = meta
    BY <2>2, Given
  <2> QED BY <2>1, <2>2 DEF GetFinish
<1>6. TierOK(resident') /\ missing' \subseteq Names
  BY <1>3, Given
<1>7. /\ ext' \in [Bases -> [Names -> Items]]
      /\ disk' \in [Bases -> [Names -> Contents \cup {None, Corrupt}]]
      /\ \A b \in Bases, n \in Names : disk'[b][n] \in {disk[b][n], None}
  BY <1>3 DEF IInv, Typed, FilesOK
<1>8. Idle \in Op /\ Shape(Idle) /\ Fresh(Idle) /\ Idle.at # "written"
  BY Given, IdleFine
<1> QED BY <1>3, <1>4, <1>5, <1>6, <1>7, <1>8, CalmStep

LEMMA GetFailedInv ==
  ASSUME IInv, NEW a \in Actors, GetFailed(a)
  PROVE  IInv'
<1> DEFINE o == op[a]
           again == [o EXCEPT !.at = "open", !.file = Alt[o.name], !.dir = base]
<1>1. /\ o \in Op /\ Shape(o) /\ Fresh(o) /\ o.at = "failed"
      /\ o.name \in Names /\ o.file \in Names
  BY Given, SameKey DEF GetFailed
<1>2. Calm /\ UNCHANGED <<disk, ext, meta, ram, resident>>
  BY DEF GetFailed, Calm
<1>3. TierOK(meta')
  BY <1>2, Given
<1>4. CASE /\ Alt[o.name] # NoName /\ op' = [op EXCEPT ![a] = again]
           /\ UNCHANGED missing
  <2>1. Alt[o.name] \in Names /\ Canon[Alt[o.name]] = Canon[o.name]
    BY <1>1, <1>4, NameAssumption, AliasAssumption
  <2>2. /\ again \in Op /\ again.at = "open" /\ again.file = Alt[o.name]
        /\ again.dir = base /\ again.name = o.name /\ again.data = o.data
        /\ again.live = o.live
    BY <1>1, <2>1, Given DEF Op, Steps
  <2>3. Shape(again) /\ Fresh(again)
    BY <1>1, <2>1, <2>2 DEF Shape, Fresh, Writing, Sources
  <2>4. missing' \subseteq Names
    BY <1>4, Given
  <2> QED BY <1>2, <1>3, <1>4, <2>2, <2>3, <2>4, IndexStep
<1>5. CASE /\ op' = [op EXCEPT ![a] = Idle]
           /\ missing' \in {missing, missing \cup {o.name}}
  <2>1. missing' \subseteq Names
    BY <1>1, <1>5, Given
  <2> QED BY <1>2, <1>3, <1>5, <2>1, Given, IdleFine, IndexStep
<1> QED BY <1>4, <1>5 DEF GetFailed, Becomes

LEMMA BoostFinishInv ==
  ASSUME IInv, NEW a \in Actors, BoostFinish(a)
  PROVE  IInv'
<1> DEFINE o == op[a]
<1>1. /\ o \in Op /\ Shape(o) /\ Fresh(o) /\ o.kind = "boost"
      /\ o.at \in {"found", "failed"} /\ o.name \in Names
  BY Given, SameKey DEF BoostFinish
<1>2. /\ Calm /\ UNCHANGED <<disk, ext, meta, missing, ram>>
      /\ op' = [op EXCEPT ![a] = Idle]
  BY DEF BoostFinish, Calm, Becomes
<1>3. TierOK(resident')
  <2>1. CASE /\ o.at = "found" /\ o.live
             /\ resident' = [resident EXCEPT ![o.name] = Item(o.data, o.etag)]
    <3>1. o.data \in Contents /\ o.etag \in Contents
      BY <1>1, <2>1 DEF Shape
    <3>2. o.data \in Held(o.name)
      BY <1>1, <2>1, <3>1, PayloadAssumption DEF Fresh
    <3> QED BY <1>1, <2>1, <3>1, <3>2, Given, ItemType, TierSet
  <2>2. CASE resident' = resident
    BY <2>2, Given
  <2> QED BY <2>1, <2>2 DEF BoostFinish, Accepts
<1>4. TierOK(meta') /\ TierOK(ram') /\ missing' \subseteq Names
  BY <1>2, Given
<1>5. /\ ext' \in [Bases -> [Names -> Items]]
      /\ disk' \in [Bases -> [Names -> Contents \cup {None, Corrupt}]]
      /\ \A b \in Bases, n \in Names : disk'[b][n] \in {disk[b][n], None}
  BY <1>2 DEF IInv, Typed, FilesOK
<1>6. Idle \in Op /\ Shape(Idle) /\ Fresh(Idle) /\ Idle.at # "written"
  BY Given, IdleFine
<1> QED BY <1>2, <1>3, <1>4, <1>5, <1>6, CalmStep

LEMMA HasStatInv ==
  ASSUME IInv, NEW a \in Actors, HasStat(a)
  PROVE  IInv'
<1> DEFINE o == op[a]
           c == disk[o.dir][o.file]
           found == [o EXCEPT !.at = "found", !.data = c]
           again == [o EXCEPT !.file = Alt[o.name], !.dir = base]
           gone == [o EXCEPT !.at = "failed"]
<1>1. /\ o \in Op /\ Shape(o) /\ Fresh(o) /\ o.at = "stat" /\ o.kind = "has"
      /\ o.name \in Names /\ o.file \in Names /\ o.dir \in Bases
      /\ Canon[o.file] = Canon[o.name]
  BY Given DEF HasStat, Shape, Op
<1>2. Calm /\ UNCHANGED <<tierVars>>
  BY DEF HasStat, Calm
<1>3. c \in Contents \cup {None, Corrupt} /\ (o.live => c \in Held(o.name) \cup {Corrupt})
  BY <1>1, ReadLegal DEF IInv, FilesOK
<1> HIDE DEF c
<1>4. found \in Op /\ Shape(found) /\ Fresh(found) /\ found.at # "written"
  <2>1. /\ found \in Op /\ found.at = "found" /\ found.kind = "has" /\ found.data = c
        /\ found.name = o.name /\ found.file = o.file /\ found.dir = o.dir
        /\ found.live = o.live
    BY <1>1, <1>3 DEF Op, Steps
  <2> QED BY <1>1, <1>3, <2>1 DEF Shape, Fresh, Writing
<1>5. Alt[o.name] # NoName =>
        again \in Op /\ Shape(again) /\ Fresh(again) /\ again.at # "written"
  <2> SUFFICES ASSUME Alt[o.name] # NoName
               PROVE  again \in Op /\ Shape(again) /\ Fresh(again) /\ again.at # "written"
    OBVIOUS
  <2>1. Alt[o.name] \in Names /\ Canon[Alt[o.name]] = Canon[o.name]
    BY <1>1, NameAssumption, AliasAssumption
  <2>2. /\ again \in Op /\ again.at = "stat" /\ again.file = Alt[o.name]
        /\ again.dir = base /\ again.name = o.name /\ again.data = o.data
        /\ again.live = o.live /\ again.kind = o.kind
    BY <1>1, <2>1, Given DEF Op
  <2> QED BY <1>1, <2>1, <2>2 DEF Shape, Fresh, Writing, Sources
<1>6. gone \in Op /\ Shape(gone) /\ Fresh(gone) /\ gone.at # "written"
  <2>1. /\ gone \in Op /\ gone.at = "failed" /\ gone.data = o.data
        /\ gone.name = o.name /\ gone.file = o.file /\ gone.dir = o.dir
        /\ gone.live = o.live
    BY <1>1 DEF Op, Steps
  <2> QED BY <1>1, <2>1 DEF Shape, Fresh, Writing
<1>7. \/ op' = [op EXCEPT ![a] = found]
      \/ Alt[o.name] # NoName /\ op' = [op EXCEPT ![a] = again]
      \/ op' = [op EXCEPT ![a] = gone]
  BY DEF HasStat, Becomes, c
<1> HIDE DEF found, again, gone
<1> QED BY <1>2, <1>4, <1>5, <1>6, <1>7, Given, IndexStep DEF tierVars

LEMMA HasFinishInv ==
  ASSUME IInv, NEW a \in Actors, HasFinish(a)
  PROVE  IInv'
<1> DEFINE o == op[a]
<1>1. o \in Op /\ Shape(o) /\ o.at # "idle" /\ o.name \in Names
  BY Given, SameKey DEF HasFinish
<1>2. /\ Calm /\ UNCHANGED <<disk, ext, ram, resident>>
      /\ op' = [op EXCEPT ![a] = Idle]
  BY DEF HasFinish, Calm, Becomes
<1>3. TierOK(meta')
  <2>1. meta' = meta \/ meta' = [meta EXCEPT ![o.name] = NoItem]
    BY DEF HasFinish
  <2> QED BY <1>1, <2>1, Given, TierDrop
<1>4. missing' \subseteq Names
  BY <1>1, Given DEF HasFinish
<1> QED BY <1>2, <1>3, <1>4, Given, IdleFine, IndexStep

-----------------------------------------------------------------------------
(***************************************************************************)
(* Writing.                                                                *)
(***************************************************************************)

\* A step that leaves the payload alone.
LEMMA MovesFine ==
  ASSUME NEW o \in Op, Shape(o), Fresh(o), o.data \in Contents,
         NEW at \in Writing, o.at \in Writing
  PROVE  LET q == [o EXCEPT !.at = at]
         IN /\ q \in Op /\ Shape(q) /\ Fresh(q) /\ q.at = at
            /\ q.dir = o.dir /\ q.data = o.data /\ q.name = o.name
<1> DEFINE q == [o EXCEPT !.at = at]
<1>1. /\ q \in Op /\ q.at = at /\ q.name = o.name /\ q.file = o.file
      /\ q.dir = o.dir /\ q.live = o.live /\ q.data = o.data
  BY DEF Op, Steps, Writing
<1>2. Shape(q) /\ Fresh(q)
  BY <1>1 DEF Shape, Fresh, Writing
<1> QED BY <1>1, <1>2

\* Beginning to persist, or giving up: the index forgets the name at most.
LEMMA PersistBeginInv ==
  ASSUME IInv, NEW a \in Actors, PersistBegin(a) \/ DiscardTemp(a)
  PROVE  IInv'
<1> DEFINE o == op[a]
<1>1. /\ o \in Op /\ Shape(o) /\ Fresh(o) /\ o.at \in {"persist", "temp"}
      /\ o.name \in Names
  BY Given, SameKey DEF PersistBegin, DiscardTemp
<1>2. Calm /\ UNCHANGED <<disk, ext, missing, ram, resident>>
  BY DEF PersistBegin, DiscardTemp, Calm, tierVars
<1>3. TierOK(meta') /\ missing' \subseteq Names
  <2>1. meta' = meta \/ meta' = [meta EXCEPT ![o.name] = NoItem]
    BY DEF PersistBegin, DiscardTemp, tierVars
  <2> QED BY <1>1, <1>2, <2>1, Given, TierDrop
<1>4. CASE op' = [op EXCEPT ![a] = Idle]
  BY <1>2, <1>3, <1>4, Given, IdleFine, IndexStep
<1>5. CASE op' = [op EXCEPT ![a] = [o EXCEPT !.at = "rename"]]
  <2> DEFINE q == [o EXCEPT !.at = "rename"]
  <2>1. o.data \in Contents /\ "rename" \in Writing /\ o.at \in Writing
    BY <1>1 DEF Shape, Writing
  <2>2. q \in Op /\ Shape(q) /\ Fresh(q) /\ q.at = "rename"
    BY <1>1, <2>1, MovesFine
  <2> QED BY <1>2, <1>3, <1>5, <2>2, IndexStep
<1> QED BY <1>4, <1>5 DEF PersistBegin, DiscardTemp, Becomes

\* The rename: the file is in place and the lock is kept.
LEMMA RenameStep ==
  ASSUME IInv, NEW a \in Actors,
         op[a].at \in {"rename", "temp"}, op[a].live, Free(op[a].name),
         disk' = [disk EXCEPT ![op[a].dir][op[a].name] = op[a].data],
         lock' = [lock EXCEPT ![Canon[op[a].name]] = a],
         op' = [op EXCEPT ![a] = [op[a] EXCEPT !.at = "written"]],
         latest' \in [Names -> Contents \cup {None}],
         UNCHANGED <<ext, meta, missing, ram, resident, modeVars, queue, legit, stray>>
  PROVE  IInv'
<1> DEFINE o == op[a]
           k == Canon[o.name]
           q == [o EXCEPT !.at = "written"]
<1>1. /\ o \in Op /\ Shape(o) /\ Fresh(o) /\ o.name \in Names /\ o.dir \in Bases
      /\ o.data \in Contents /\ k \in CacheKeys
  BY Given, SameKey, CanonInKeys DEF Shape, Writing
<1>2. o.dir = base /\ o.data \in legit[base][k]
  BY <1>1 DEF Fresh, Writing
<1>3. q \in Op /\ Shape(q) /\ Fresh(q) /\ q.dir = base /\ q.data = o.data /\ q.name = o.name
  <2>1. "written" \in Writing /\ o.at \in Writing
    BY DEF Writing
  <2> QED BY <1>1, <1>2, <2>1, MovesFine
<1>4. UNCHANGED <<base, ramEnabled, autoRepair, boost, queue, legit, stray>>
  BY DEF modeVars
<1>5. op \in [Actors -> Op] /\ lock \in [CacheKeys -> Actors \cup {None}]
  BY DEF IInv, Typed
<1>6. Typed'
  BY <1>1, <1>3, <1>4, <1>5 DEF IInv, Typed
<1>7. OpsOK'
  <2> SUFFICES ASSUME NEW c \in Actors
               PROVE  (Shape(op[c]) /\ Fresh(op[c]) /\ Locked(c))'
    BY DEF OpsOK
  <2>1. CASE c = a
    <3>1. op'[c] = q /\ lock'[k] = a
      BY <1>1, <1>5, <2>1
    <3>2. Shape(op[c])'
      BY <1>3, <3>1 DEF Shape
    <3>3. Fresh(op[c])'
      BY <1>3, <1>4, <3>1 DEF Fresh, Held, Legal, Sources
    <3>4. Locked(c)'
      BY <1>2, <1>3, <1>4, <2>1, <3>1 DEF Locked
    <3> QED BY <3>2, <3>3, <3>4
  <2>2. CASE c # a
    <3>1. op'[c] = op[c] /\ Shape(op[c]) /\ Fresh(op[c]) /\ Locked(c)
      BY <1>5, <2>2 DEF IInv, OpsOK
    <3>2. Shape(op[c])'
      BY <3>1 DEF Shape
    <3>3. Fresh(op[c])'
      BY <1>4, <3>1 DEF Fresh, Held, Legal, Sources
    <3>4. Locked(c)'
      <4> SUFFICES ASSUME op[c].at = "written"
                   PROVE  /\ op[c].dir = base
                          /\ op[c].data \in legit[base][Canon[op[c].name]]
                          /\ lock'[Canon[op[c].name]] = c
        BY <1>4, <3>1 DEF Locked
      <4>1. lock[Canon[op[c].name]] = c /\ c # None
        BY <3>1, ActorAssumption DEF Locked, Actors
      <4>2. Canon[op[c].name] # k
        BY <4>1 DEF Free
      <4>3. Canon[op[c].name] \in CacheKeys
        BY <3>1, CanonInKeys DEF Shape
      <4> QED BY <1>1, <1>5, <3>1, <4>1, <4>2, <4>3 DEF Locked
    <3> QED BY <3>2, <3>3, <3>4
  <2> QED BY <2>1, <2>2
<1>8. QueueOK' /\ MemoryOK'
  BY <1>4 DEF IInv, QueueOK, FreshTask, MemoryOK, TierOK, Held, Legal
<1>9. FilesOK'
  BY <1>1, <1>2, <1>4 DEF IInv, FilesOK
<1> QED BY <1>6, <1>7, <1>8, <1>9 DEF IInv

\* A failed or refused rename.
LEMMA RenameFails ==
  ASSUME IInv, NEW a \in Actors, op[a].at # "idle",
         meta' = meta \/ meta' = [meta EXCEPT ![op[a].name] = NoItem],
         op' = [op EXCEPT ![a] = Idle], Calm,
         UNCHANGED <<disk, ext, missing, ram, resident>>
  PROVE  IInv'
<1>1. op[a].name \in Names
  BY Given, SameKey
<1>2. TierOK(meta') /\ missing' \subseteq Names
  BY <1>1, Given, TierDrop
<1> QED BY <1>2, Given, IdleFine, IndexStep

LEMMA PersistRenameInv ==
  ASSUME IInv, NEW a \in Actors, PersistRename(a)
  PROVE  IInv'
<1> DEFINE o == op[a]
<1>1. /\ o.at = "rename" /\ Free(o.name)
      /\ UNCHANGED <<ext, missing, ram, resident, modeVars, queue, histVars>>
  BY DEF PersistRename
<1>2. CASE /\ o.live /\ UNCHANGED meta
           /\ disk' = [disk EXCEPT ![o.dir][o.name] = o.data]
           /\ lock' = [lock EXCEPT ![Canon[o.name]] = a]
           /\ op' = [op EXCEPT ![a] = [o EXCEPT !.at = "written"]]
  <2>1. latest' \in [Names -> Contents \cup {None}] /\ UNCHANGED <<legit, stray>>
    BY <1>1 DEF IInv, Typed, histVars
  <2> QED BY <1>1, <1>2, <2>1, RenameStep
<1>3. CASE /\ meta' = meta \/ meta' = [meta EXCEPT ![o.name] = NoItem]
           /\ op' = [op EXCEPT ![a] = Idle] /\ UNCHANGED <<disk, lock>>
  BY <1>1, <1>3, RenameFails DEF Calm
<1> QED BY <1>2, <1>3 DEF PersistRename, Accepts, Becomes

LEMMA CommitRenameInv ==
  ASSUME IInv, NEW a \in Actors, CommitRename(a)
  PROVE  IInv'
<1> DEFINE o == op[a]
<1>1. /\ o.at = "temp" /\ Free(o.name)
      /\ UNCHANGED <<ext, missing, ram, resident, modeVars, queue, legit, stray>>
  BY DEF CommitRename
<1>2. CASE /\ o.live /\ UNCHANGED meta /\ Committed(o.name, o.data)
           /\ disk' = [disk EXCEPT ![o.dir][o.name] = o.data]
           /\ lock' = [lock EXCEPT ![Canon[o.name]] = a]
           /\ op' = [op EXCEPT ![a] = [o EXCEPT !.at = "written"]]
  <2>1. o.data \in Contents
    BY <1>1, Given DEF Shape, Writing
  <2>2. latest' \in [Names -> Contents \cup {None}]
    BY <1>2, <2>1 DEF IInv, Typed, Committed
  <2> QED BY <1>1, <1>2, <2>2, RenameStep
<1>3. CASE /\ meta' = meta \/ meta' = [meta EXCEPT ![o.name] = NoItem]
           /\ op' = [op EXCEPT ![a] = Idle] /\ UNCHANGED <<disk, lock, latest>>
  BY <1>1, <1>3, RenameFails DEF Calm, histVars
<1> QED BY <1>2, <1>3 DEF CommitRename, Accepts, Becomes

\* The metadata, and the end of the lock.
LEMMA ReleaseStep ==
  ASSUME IInv, NEW a \in Actors, op[a].at = "written",
         RecordWritten(op[a]) \/ RecordRefused(op[a]),
         lock' = [lock EXCEPT ![Canon[op[a].name]] = None],
         op' = [op EXCEPT ![a] = Idle],
         TierOK(ram'), TierOK(resident'), missing' \subseteq Names,
         latest' \in [Names -> Contents \cup {None}],
         UNCHANGED <<modeVars, queue, legit, stray>>
  PROVE  IInv'
<1> DEFINE o == op[a]
           k == Canon[o.name]
           record == Item(o.data, o.data)
<1>1. /\ o \in Op /\ o.name \in Names /\ o.dir \in Bases /\ k \in CacheKeys
      /\ o.data \in Contents /\ o.data \in Held(o.name)
  BY Given, SameKey, CanonInKeys DEF Shape, Writing, Locked, Held, Legal
<1>2. record \in Items /\ record.data = o.data
  BY <1>1, ItemType
<1>3. UNCHANGED <<base, ramEnabled, autoRepair, boost, queue, legit, stray>>
  BY DEF modeVars
<1>4. op \in [Actors -> Op] /\ lock \in [CacheKeys -> Actors \cup {None}]
  BY DEF IInv, Typed
<1>5. TierOK(meta')
  <2>1. CASE meta' = [meta EXCEPT ![o.name] = record]
    <3> HIDE DEF record
    <3> QED BY <1>1, <1>2, <2>1, Given, TierSet
  <2>2. CASE meta' = [meta EXCEPT ![o.name] = NoItem]
    BY <1>1, <2>2, Given, TierDrop
  <2> QED BY <2>1, <2>2 DEF RecordWritten, RecordRefused
<1>6. ext' \in [Bases -> [Names -> Items]]
  <2>1. ext \in [Bases -> [Names -> Items]]
    BY DEF IInv, Typed
  <2>2. \/ ext' = ext \/ ext' = [ext EXCEPT ![o.dir][o.name] = record]
        \/ ext' = [ext EXCEPT ![o.dir][o.name] = NoItem]
    BY DEF RecordWritten, RecordRefused
  <2> HIDE DEF record
  <2>3. /\ [ext EXCEPT ![o.dir][o.name] = record] \in [Bases -> [Names -> Items]]
        /\ [ext EXCEPT ![o.dir][o.name] = NoItem] \in [Bases -> [Names -> Items]]
    BY <1>1, <1>2, <2>1, NoItemType, ExtSet
  <2> QED BY <2>1, <2>2, <2>3
<1>7. /\ disk' \in [Bases -> [Names -> Contents \cup {None, Corrupt}]]
      /\ \A b \in Bases, n \in Names : disk'[b][n] \in {disk[b][n], None}
  <2>1. CASE disk' = disk
    BY <2>1 DEF IInv, FilesOK
  <2>2. CASE disk' = [disk EXCEPT ![o.dir][o.name] = None]
    BY <1>1, <2>2 DEF IInv, FilesOK
  <2> QED BY <2>1, <2>2 DEF RecordWritten, RecordRefused
<1>8. Typed'
  BY <1>1, <1>3, <1>4, <1>6, Given, IdleFine DEF IInv, Typed
<1>9. OpsOK'
  <2> SUFFICES ASSUME NEW c \in Actors
               PROVE  (Shape(op[c]) /\ Fresh(op[c]) /\ Locked(c))'
    BY DEF OpsOK
  <2>1. CASE c = a
    <3>1. op'[c] = Idle
      BY <1>4, <2>1
    <3>2. Shape(Idle) /\ ~Idle.live /\ Idle.at # "written"
      BY Given, IdleFine, IdleType
    <3> QED BY <3>1, <3>2 DEF Shape, Fresh, Locked
  <2>2. CASE c # a
    <3>1. op'[c] = op[c] /\ Shape(op[c]) /\ Fresh(op[c]) /\ Locked(c)
      BY <1>4, <2>2 DEF IInv, OpsOK
    <3>2. Shape(op[c])'
      BY <3>1 DEF Shape
    <3>3. Fresh(op[c])'
      BY <1>3, <3>1 DEF Fresh, Held, Legal, Sources
    <3>4. Locked(c)'
      <4> SUFFICES ASSUME op[c].at = "written"
                   PROVE  /\ op[c].dir = base
                          /\ op[c].data \in legit[base][Canon[op[c].name]]
                          /\ lock'[Canon[op[c].name]] = c
        BY <1>3, <3>1 DEF Locked
      <4>1. lock[Canon[op[c].name]] = c /\ lock[k] = a
        BY <3>1, Given DEF Locked
      <4>2. Canon[op[c].name] # k
        BY <2>2, <4>1
      <4>3. Canon[op[c].name] \in CacheKeys
        BY <3>1, CanonInKeys DEF Shape
      <4> QED BY <1>1, <1>4, <3>1, <4>1, <4>2, <4>3 DEF Locked
    <3> QED BY <3>2, <3>3, <3>4
  <2> QED BY <2>1, <2>2
<1>10. QueueOK' /\ MemoryOK'
  BY <1>3, <1>5 DEF IInv, QueueOK, FreshTask, MemoryOK, TierOK, Held, Legal
<1>11. FilesOK'
  BY <1>3, <1>7 DEF IInv, FilesOK
<1> QED BY <1>8, <1>9, <1>10, <1>11 DEF IInv

LEMMA MetadataInv ==
  ASSUME IInv, NEW a \in Actors, PersistMetadata(a) \/ CommitMetadata(a)
  PROVE  IInv'
<1> DEFINE o == op[a]
<1>1. /\ o.at = "written" /\ o.name \in Names
  BY Given, SameKey DEF PersistMetadata, CommitMetadata
<1>2. /\ RecordWritten(o) \/ RecordRefused(o)
      /\ lock' = [lock EXCEPT ![Canon[o.name]] = None]
      /\ op' = [op EXCEPT ![a] = Idle]
      /\ UNCHANGED <<modeVars, queue, legit, stray>>
  BY DEF PersistMetadata, CommitMetadata, Becomes, histVars
<1>3. /\ ram' = ram \/ ram' = Cleared(ram, Aliases(o.name))
      /\ resident' = resident \/ resident' = Cleared(resident, Aliases(o.name))
      /\ missing' = missing \/ missing' = missing \ Aliases(o.name)
      /\ latest' = latest \/ latest' = [latest EXCEPT ![o.name] = None]
  BY DEF PersistMetadata, CommitMetadata, histVars
<1>4. TierOK(ram') /\ TierOK(resident') /\ missing' \subseteq Names
  BY <1>3, Given, TierCleared
<1>5. latest' \in [Names -> Contents \cup {None}]
  BY <1>1, <1>3 DEF IInv, Typed
<1> QED BY <1>1, <1>2, <1>4, <1>5, ReleaseStep

\* RAM drops items, and takes payload c under n at most.
Refilled(n, c) ==
  /\ ram' \in [Names -> Items]
  /\ \A m \in Names : \/ ram'[m].data = None \/ ram'[m] = ram[m]
                      \/ m = n /\ ram'[m].data = c

\* A payload is handed to the cache: what was legitimate stays so.
LEMMA HandedStep ==
  ASSUME IInv, NEW a \in Actors, NEW q \in Op, NEW n \in Names, NEW c \in Contents,
         Handed(n, c), Shape(q), q.at \in {"queue", "persist", "temp"},
         q.name = n, q.data = c, q.dir = base,
         op' = [op EXCEPT ![a] = q],
         Refilled(n, c),
         TierOK(resident'), missing' \subseteq Names,
         latest' \in [Names -> Contents \cup {None}],
         UNCHANGED <<disk, ext, meta, modeVars, queue, lock, stray>>
  PROVE  IInv'
<1> DEFINE k == Canon[n]
<1>1. UNCHANGED <<base, ramEnabled, autoRepair, boost, queue, lock, disk, ext, meta, stray>>
  BY DEF modeVars
<1>2. /\ legit \in [Bases -> [CacheKeys -> SUBSET Contents]] /\ base \in Bases
      /\ k \in CacheKeys /\ op \in [Actors -> Op]
  BY CanonInKeys DEF IInv, Typed
<1>3. /\ legit' \in [Bases -> [CacheKeys -> SUBSET Contents]]
      /\ \A b \in Bases, key \in CacheKeys : legit[b][key] \subseteq legit'[b][key]
      /\ c \in legit'[base][k]
  BY <1>2 DEF Handed
<1>4. ASSUME NEW m \in Names
      PROVE  Held(m) \subseteq Held(m)' /\ Sources(m)' = Sources(m)
  <2>1. stray[Canon[m]] \subseteq Bases /\ Canon[m] \in CacheKeys
    BY CanonInKeys DEF IInv, Typed
  <2>2. \A b \in Bases : legit[b][Canon[m]] \subseteq legit'[b][Canon[m]]
    BY <1>3, <2>1
  <2> QED BY <1>1, <1>2, <2>1, <2>2 DEF Held, Legal, Sources
<1>5. Typed'
  BY <1>1, <1>2, <1>3 DEF IInv, Typed, Refilled
<1>6. OpsOK'
  <2> SUFFICES ASSUME NEW d \in Actors
               PROVE  (Shape(op[d]) /\ Fresh(op[d]) /\ Locked(d))'
    BY DEF OpsOK
  <2>1. CASE d = a
    <3>1. op'[d] = q
      BY <1>2, <2>1
    <3>2. Fresh(op[d])'
      <4>1. c \in Held(n)'
        BY <1>1, <1>3 DEF Held, Legal
      <4> QED BY <1>1, <1>3, <3>1, <4>1 DEF Fresh, Sources
    <3> QED BY <3>1, <3>2 DEF Shape, Locked
  <2>2. CASE d # a
    <3>1. op'[d] = op[d] /\ Shape(op[d]) /\ Fresh(op[d]) /\ Locked(d)
      BY <1>2, <2>2 DEF IInv, OpsOK
    <3>2. Shape(op[d])'
      BY <3>1 DEF Shape
    <3>3. Fresh(op[d])'
      BY <1>1, <1>2, <1>3, <1>4, <3>1, CanonInKeys DEF Fresh, Shape
    <3>4. Locked(d)'
      BY <1>1, <1>2, <1>3, <3>1, CanonInKeys DEF Locked, Shape
    <3> QED BY <3>2, <3>3, <3>4
  <2> QED BY <2>1, <2>2
<1>7. QueueOK'
  <2>1. \A i \in DOMAIN queue : queue[i] \in Task
    BY DEF IInv, Typed
  <2> QED BY <1>1, <1>2, <1>3, <2>1, CanonInKeys DEF IInv, QueueOK, FreshTask, Task
<1>8. MemoryOK'
  <2>1. \A m \in Names : resident'[m].data \in Held(m)' /\ meta'[m].data \in Held(m)'
    BY <1>1, <1>4 DEF IInv, MemoryOK, TierOK
  <2>2. \A m \in Names : ram'[m].data \in Held(m)'
    <3> SUFFICES ASSUME NEW m \in Names PROVE ram'[m].data \in Held(m)'
      OBVIOUS
    <3>1. CASE ram'[m].data = None
      BY <3>1 DEF Held
    <3>2. CASE ram'[m] = ram[m]
      BY <1>4, <3>2 DEF IInv, MemoryOK, TierOK
    <3>3. CASE m = n /\ ram'[m].data = c
      BY <1>1, <1>3, <3>3 DEF Held, Legal
    <3> QED BY <3>1, <3>2, <3>3 DEF Refilled
  <2> QED BY <1>1, <2>1, <2>2 DEF IInv, MemoryOK, TierOK, Refilled
<1>9. FilesOK'
  BY <1>1, <1>3, CanonInKeys DEF IInv, FilesOK
<1> QED BY <1>5, <1>6, <1>7, <1>8, <1>9 DEF IInv

\* The operation that a write starts.
Writer(kind, at, n, c) == [Start(kind, at, n) EXCEPT !.data = c]

LEMMA WriteStarts ==
  ASSUME base \in Bases, NEW n \in Names, NEW c \in Contents,
         NEW kind \in {"save", "temp"}, NEW at \in {"queue", "persist", "temp"}
  PROVE  /\ Writer(kind, at, n, c) \in Op /\ Shape(Writer(kind, at, n, c))
         /\ Writer(kind, at, n, c).at = at /\ Writer(kind, at, n, c).name = n
         /\ Writer(kind, at, n, c).data = c /\ Writer(kind, at, n, c).dir = base
<1> DEFINE s == Start(kind, at, n)
           q == [s EXCEPT !.data = c]
<1>1. kind \in Kinds /\ at \in Steps
  BY DEF Kinds, Steps
<1>2. s \in Op /\ s.at = at /\ s.name = n /\ s.file = n /\ s.dir = base
  BY <1>1, StartType
<1> HIDE DEF s
<1>3. /\ q \in Op /\ q.at = at /\ q.name = n /\ q.file = n /\ q.dir = base
      /\ q.data = c
  BY <1>2 DEF Op
<1>4. Shape(q)
  BY <1>3 DEF Shape, Writing
<1> QED BY <1>3, <1>4 DEF s, Writer

LEMMA SaveRAMInv ==
  ASSUME IInv, NEW a \in Actors, NEW n \in Names, NEW c \in Contents,
         NEW step \in {"queue", "persist"}, SaveRAM(a, n, c, step)
  PROVE  IInv'
<1> DEFINE q == Writer("save", step, n, c)
           gone == Cleared(ram, Aliases(n) \ {n})
<1>1. /\ q \in Op /\ Shape(q) /\ q.at = step /\ q.name = n /\ q.data = c
      /\ q.dir = base
  <2>1. base \in Bases /\ "save" \in {"save", "temp"}
    BY Given
  <2>2. step \in {"queue", "persist", "temp"}
    OBVIOUS
  <2> QED BY <2>1, <2>2, WriteStarts
<1>2. /\ Handed(n, c) /\ op' = [op EXCEPT ![a] = q]
      /\ UNCHANGED <<disk, ext, meta, modeVars, queue, lock, stray>>
  BY DEF SaveRAM, Becomes, Writer
<1>3. TierOK(resident') /\ missing' \subseteq Names
  BY Given, TierCleared DEF SaveRAM
<1>4. latest' \in [Names -> Contents \cup {None}]
  BY DEF SaveRAM, Committed, IInv, Typed
<1>5. TierOK(gone) /\ \A m \in Names : gone[m] = NoItem \/ gone[m] = ram[m]
  BY Given, TierCleared DEF Cleared
<1> DEFINE item == Item(c, c)
<1>6. ram' = gone \/ ram' = [gone EXCEPT ![n] = item]
  BY DEF SaveRAM
<1>7. item \in Items /\ item.data = c
  BY ItemType
<1> HIDE DEF q, gone, item
<1>8. gone \in [Names -> Items]
  BY <1>5 DEF TierOK
<1>9. ram' \in [Names -> Items]
  BY <1>6, <1>7, <1>8
<1>10. \A m \in Names : \/ ram'[m].data = None \/ ram'[m] = ram[m]
                        \/ m = n /\ ram'[m].data = c
  BY <1>5, <1>6, <1>7, <1>8, NoItemType
<1>11. Refilled(n, c) /\ q.at \in {"queue", "persist", "temp"}
  BY <1>1, <1>9, <1>10 DEF Refilled
<1> QED BY <1>1, <1>2, <1>3, <1>4, <1>11, HandedStep

LEMMA CreateTempInv ==
  ASSUME IInv, NEW a \in Actors, NEW n \in Names, NEW c \in Contents,
         CreateTemp(a, n, c)
  PROVE  IInv'
<1> DEFINE q == Writer("temp", "temp", n, c)
<1>1. /\ q \in Op /\ Shape(q) /\ q.at = "temp" /\ q.name = n /\ q.data = c
      /\ q.dir = base
  BY Given, WriteStarts
<1>2. /\ Handed(n, c) /\ op' = [op EXCEPT ![a] = q]
      /\ UNCHANGED <<disk, ext, meta, modeVars, queue, lock, stray>>
      /\ UNCHANGED <<missing, ram, resident, latest>>
  BY DEF CreateTemp, Becomes, tierVars, Writer
<1>3. /\ TierOK(resident') /\ missing' \subseteq Names /\ Refilled(n, c)
      /\ latest' \in [Names -> Contents \cup {None}]
  BY <1>2, Given DEF IInv, Typed, TierOK, Refilled
<1> HIDE DEF q
<1> QED BY <1>1, <1>2, <1>3, HandedStep

\* The queue of persist tasks.
LEMMA EnqueuePersistInv ==
  ASSUME IInv, NEW a \in Actors, EnqueuePersist(a)
  PROVE  IInv'
<1> DEFINE o == op[a]
           t == [name |-> o.name, dir |-> o.dir, live |-> o.live, data |-> o.data]
<1>1. /\ o \in Op /\ Fresh(o) /\ o.name \in Names /\ o.dir \in Bases
      /\ o.data \in Contents /\ o.at = "queue"
  BY Given, SameKey DEF EnqueuePersist, Shape, Writing
<1>2. t \in Task /\ FreshTask(t)
  BY <1>1 DEF Task, Op, Fresh, FreshTask, Writing
<1>3. /\ UNCHANGED <<tierVars, modeVars, lock, histVars>>
      /\ op' = [op EXCEPT ![a] = Idle]
  BY DEF EnqueuePersist, Becomes
<1>4. UNCHANGED <<base, ramEnabled, autoRepair, boost, lock, legit, latest, stray, disk,
                  ext, meta, missing, ram, resident>>
  BY <1>3 DEF tierVars, modeVars, histVars
<1>5. /\ queue \in Seq(Task) /\ Len(queue) <= QueueCap /\ op \in [Actors -> Op]
      /\ QueueOK
  BY DEF IInv, Typed
<1>6. queue' = queue \/ (Len(queue) < QueueCap /\ queue' = Append(queue, t))
  BY DEF EnqueuePersist, HasRoom
<1> HIDE DEF t
<1>7. queue' \in Seq(Task) /\ Len(queue') <= QueueCap
  BY <1>2, <1>5, <1>6, QueueAssumption
<1>8. \A i \in DOMAIN queue' : FreshTask(queue'[i])
  BY <1>2, <1>5, <1>6 DEF QueueOK
<1>9. Typed'
  BY <1>3, <1>4, <1>5, <1>7, Given, IdleFine DEF IInv, Typed
<1>10. QueueOK'
  BY <1>4, <1>8 DEF QueueOK, FreshTask
<1>11. OpsOK'
  <2> SUFFICES ASSUME NEW c \in Actors
               PROVE  (Shape(op[c]) /\ Fresh(op[c]) /\ Locked(c))'
    BY DEF OpsOK
  <2>1. op'[c] = op[c] \/ op'[c] = Idle
    BY <1>3, <1>5
  <2>2. Shape(Idle) /\ ~Idle.live /\ Idle.at # "written"
    BY Given, IdleFine, IdleType
  <2> QED BY <1>4, <2>1, <2>2, Given DEF Shape, Fresh, Locked, Held, Legal, Sources
<1>12. MemoryOK' /\ FilesOK'
  BY <1>4 DEF IInv, MemoryOK, TierOK, FilesOK, Held, Legal
<1> QED BY <1>9, <1>10, <1>11, <1>12 DEF IInv

LEMMA TakeTaskInv ==
  ASSUME IInv, NEW w \in Actors, TakeTask(w)
  PROVE  IInv'
<1> DEFINE t == Head(queue)
           q == [Idle EXCEPT !.at = "persist", !.kind = "save",
                      !.name = t.name, !.file = t.name, !.dir = t.dir,
                      !.live = t.live, !.data = t.data]
<1>1. /\ queue \in Seq(Task) /\ queue # <<>> /\ Len(queue) <= QueueCap
      /\ op \in [Actors -> Op] /\ QueueOK
  BY DEF TakeTask, IInv, Typed
<1>2. t \in Task /\ FreshTask(t) /\ t = queue[1]
  BY <1>1 DEF QueueOK
<1>3. /\ queue' = Tail(queue) /\ op' = [op EXCEPT ![w] = q]
      /\ UNCHANGED <<tierVars, modeVars, lock, histVars>>
  BY DEF TakeTask, Becomes
<1>4. UNCHANGED <<base, ramEnabled, autoRepair, boost, lock, legit, latest, stray, disk,
                  ext, meta, missing, ram, resident>>
  BY <1>3 DEF tierVars, modeVars, histVars
<1>5. /\ q \in Op /\ q.at = "persist" /\ q.name = t.name /\ q.file = t.name
      /\ q.dir = t.dir /\ q.live = t.live /\ q.data = t.data
  <2> HIDE DEF t
  <2>1. /\ t.name \in Names /\ t.dir \in Bases /\ t.live \in BOOLEAN
        /\ t.data \in Contents
    BY <1>2 DEF Task
  <2>2. Idle \in Op
    BY Given, IdleType
  <2>3. "persist" \in Steps /\ "save" \in Kinds
    BY DEF Steps, Kinds
  <2> QED BY <2>1, <2>2, <2>3 DEF Op
<1>6. Shape(q) /\ Fresh(q)
  <2>1. Shape(q)
    BY <1>2, <1>5 DEF Shape, Writing, Task
  <2>2. t.name \in Names /\ t.data \in Contents
    BY <1>2 DEF Task
  <2>3. q.live => q.data \in Held(q.name) /\ q.dir \in Sources(q.name)
    BY <1>2, <1>5, <2>2 DEF FreshTask, Held, Legal, Sources
  <2> HIDE DEF q
  <2> QED BY <1>2, <1>5, <2>1, <2>3 DEF Fresh, FreshTask, Writing
<1> HIDE DEF q, t
<1>7. Typed'
  BY <1>1, <1>3, <1>4, <1>5, QueueAssumption DEF IInv, Typed
<1>8. QueueOK'
  <2>1. \A i \in DOMAIN queue' : i + 1 \in DOMAIN queue /\ queue'[i] = queue[i + 1]
    BY <1>1, <1>3
  <2> QED BY <1>1, <1>4, <2>1 DEF QueueOK, FreshTask
<1>9. OpsOK'
  <2> SUFFICES ASSUME NEW c \in Actors
               PROVE  (Shape(op[c]) /\ Fresh(op[c]) /\ Locked(c))'
    BY DEF OpsOK
  <2>1. op'[c] = op[c] \/ op'[c] = q
    BY <1>1, <1>3
  <2> QED BY <1>4, <1>5, <1>6, <2>1, Given DEF Shape, Fresh, Locked, Held, Legal, Sources
<1>10. MemoryOK' /\ FilesOK'
  BY <1>4 DEF IInv, MemoryOK, TierOK, FilesOK, Held, Legal
<1> QED BY <1>7, <1>8, <1>9, <1>10 DEF IInv

-----------------------------------------------------------------------------
(***************************************************************************)
(* Switches, eviction and damage.                                          *)
(***************************************************************************)

\* Stopping a prewarm changes nothing but the flag of the run.
LEMMA StopBoostFine ==
  ASSUME op \in [Actors -> Op], NEW a \in Actors
  PROVE  /\ StopBoost(op) \in [Actors -> Op]
         /\ StopBoost(op)[a].at = op[a].at /\ StopBoost(op)[a].kind = op[a].kind
         /\ StopBoost(op)[a].name = op[a].name /\ StopBoost(op)[a].file = op[a].file
         /\ StopBoost(op)[a].dir = op[a].dir /\ StopBoost(op)[a].live = op[a].live
         /\ StopBoost(op)[a].data = op[a].data /\ StopBoost(op)[a].etag = op[a].etag
<1>1. \A c \in Actors : [op[c] EXCEPT !.pool = FALSE] \in Op
  BY DEF Op
<1>2. StopBoost(op) \in [Actors -> Op]
  BY <1>1 DEF StopBoost
<1>3. StopBoost(op)[a] \in {op[a], [op[a] EXCEPT !.pool = FALSE]}
  BY DEF StopBoost
<1>4. op[a] \in Op
  OBVIOUS
<1>5. LET q == [op[a] EXCEPT !.pool = FALSE]
      IN /\ q.at = op[a].at /\ q.kind = op[a].kind /\ q.name = op[a].name
         /\ q.file = op[a].file /\ q.dir = op[a].dir /\ q.live = op[a].live
         /\ q.data = op[a].data /\ q.etag = op[a].etag
  BY <1>4 DEF Op
<1> QED BY <1>2, <1>3, <1>5

\* A step that leaves directory, index, queue, locks and histories alone.
LEMMA SwitchStep ==
  ASSUME IInv, op' \in {op, StopBoost(op)}, TierOK(ram'), TierOK(resident'),
         ramEnabled' \in BOOLEAN, boost' \in BOOLEAN,
         disk' \in [Bases -> [Names -> Contents \cup {None, Corrupt}]],
         \A b \in Bases, n \in Names : disk'[b][n] \in {disk[b][n], Corrupt},
         UNCHANGED <<ext, meta, missing, base, autoRepair, queue, lock, histVars>>
  PROVE  IInv'
<1>1. UNCHANGED <<ext, meta, missing, base, autoRepair, queue, lock, legit, latest, stray>>
  BY DEF histVars
<1>2. op \in [Actors -> Op]
  BY DEF IInv, Typed
<1>3. op' \in [Actors -> Op]
  BY <1>2, StopBoostFine DEF StopBoost
<1>4. Typed'
  BY <1>1, <1>3 DEF IInv, Typed
<1>5. OpsOK'
  <2> SUFFICES ASSUME NEW c \in Actors
               PROVE  (Shape(op[c]) /\ Fresh(op[c]) /\ Locked(c))'
    BY DEF OpsOK
  <2>1. /\ op'[c].at = op[c].at /\ op'[c].kind = op[c].kind
        /\ op'[c].name = op[c].name /\ op'[c].file = op[c].file
        /\ op'[c].dir = op[c].dir /\ op'[c].live = op[c].live
        /\ op'[c].data = op[c].data /\ op'[c].etag = op[c].etag
    BY <1>2, StopBoostFine
  <2>2. Shape(op[c]) /\ Fresh(op[c]) /\ Locked(c)
    BY Given
  <2>3. Shape(op[c])'
    BY <2>1, <2>2 DEF Shape
  <2>4. Fresh(op[c])'
    BY <1>1, <2>1, <2>2 DEF Fresh, Held, Legal, Sources
  <2>5. Locked(c)'
    BY <1>1, <2>1, <2>2 DEF Locked
  <2> QED BY <2>3, <2>4, <2>5
<1>6. QueueOK' /\ MemoryOK'
  BY <1>1 DEF IInv, QueueOK, FreshTask, MemoryOK, TierOK, Held, Legal
<1>7. FilesOK'
  BY <1>1 DEF IInv, FilesOK
<1> QED BY <1>4, <1>5, <1>6, <1>7 DEF IInv

\* A tier that was emptied.
LEMMA TierEmpty == TierOK([n \in Names |-> NoItem])
  BY NoItemType DEF TierOK, Held

LEMMA SwitchInv ==
  ASSUME IInv, \/ \E on \in BOOLEAN : SetRAMEnabled(on)
               \/ EnableBoost \/ DisableBoost
               \/ \E n \in Names : EvictRAM(n) \/ DamageFile(n)
  PROVE  IInv'
<1>1. /\ TierOK(ram) /\ TierOK(resident) /\ ramEnabled \in BOOLEAN /\ boost \in BOOLEAN
      /\ disk \in [Bases -> [Names -> Contents \cup {None, Corrupt}]] /\ base \in Bases
  BY DEF IInv, Typed, MemoryOK, FilesOK
<1>2. CASE \E on \in BOOLEAN : SetRAMEnabled(on)
  <2>1. /\ ramEnabled' \in BOOLEAN
        /\ ram' = ram \/ ram' = [n \in Names |-> NoItem]
        /\ UNCHANGED <<disk, ext, meta, missing, resident, base, autoRepair, boost,
                       queue, lock, op, histVars>>
    BY <1>2 DEF SetRAMEnabled
  <2> QED BY <1>1, <2>1, TierEmpty, SwitchStep
<1>3. CASE EnableBoost \/ DisableBoost
  <2>1. /\ boost' \in BOOLEAN /\ resident' = [n \in Names |-> NoItem]
        /\ op' = StopBoost(op)
        /\ UNCHANGED <<disk, ext, meta, missing, ram, base, ramEnabled, autoRepair,
                       queue, lock, histVars>>
    BY <1>3 DEF EnableBoost, DisableBoost
  <2> QED BY <1>1, <2>1, TierEmpty, SwitchStep
<1>4. ASSUME NEW n \in Names, EvictRAM(n) PROVE IInv'
  <2>1. /\ TierOK(ram')
        /\ UNCHANGED <<disk, ext, meta, missing, resident, base, ramEnabled, boost,
                       autoRepair, queue, lock, op, histVars>>
    BY <1>1, <1>4, TierDrop DEF EvictRAM, modeVars
  <2> QED BY <1>1, <2>1, SwitchStep
<1>5. ASSUME NEW n \in Names, DamageFile(n) PROVE IInv'
  <2>1. /\ disk' = [disk EXCEPT ![base][n] = Corrupt]
        /\ UNCHANGED <<ext, meta, missing, ram, resident, base, ramEnabled, boost,
                       autoRepair, queue, lock, op, histVars>>
    BY <1>5 DEF DamageFile, modeVars
  <2>2. /\ disk' \in [Bases -> [Names -> Contents \cup {None, Corrupt}]]
        /\ \A b \in Bases, m \in Names : disk'[b][m] \in {disk[b][m], Corrupt}
    BY <1>1, <2>1
  <2> QED BY <1>1, <2>1, <2>2, SwitchStep
<1> QED BY <1>2, <1>3, <1>4, <1>5

-----------------------------------------------------------------------------
(***************************************************************************)
(* Invalidating.                                                           *)
(***************************************************************************)

\* The queue keeps its tasks when some of their tokens are revoked.
LEMMA QueueType ==
  ASSUME queue \in Seq(Task), NEW q, DOMAIN q = DOMAIN queue,
         q = [i \in DOMAIN queue |-> q[i]],
         \A i \in DOMAIN queue : q[i] \in {queue[i], [queue[i] EXCEPT !.live = FALSE]}
  PROVE  q \in Seq(Task) /\ Len(q) = Len(queue)
<1>1. DOMAIN queue = 1 .. Len(queue) /\ Len(queue) \in Nat
  OBVIOUS
<1>2. ASSUME NEW i \in 1 .. Len(queue) PROVE q[i] \in Task
  <2>1. queue[i] \in Task /\ q[i] \in {queue[i], [queue[i] EXCEPT !.live = FALSE]}
    BY <1>1
  <2>2. [queue[i] EXCEPT !.live = FALSE] \in Task
    BY <2>1 DEF Task
  <2> QED BY <2>1, <2>2
<1>3. q \in [1 .. Len(queue) -> Task]
  BY <1>1, <1>2
<1> QED BY <1>1, <1>3, SeqDef

\* The state after an operation lost its token.
LEMMA RevokedFine ==
  ASSUME NEW o \in Op, Shape(o)
  PROVE  LET q == [o EXCEPT !.live = FALSE]
         IN /\ q \in Op /\ Shape(q) /\ Fresh(q) /\ ~q.live
            /\ q.at = o.at /\ q.dir = o.dir /\ q.data = o.data /\ q.name = o.name
<1> DEFINE q == [o EXCEPT !.live = FALSE]
<1>1. /\ q \in Op /\ q.at = o.at /\ q.kind = o.kind /\ q.name = o.name
      /\ q.file = o.file /\ q.dir = o.dir /\ ~q.live /\ q.data = o.data
      /\ q.etag = o.etag
  BY DEF Op
<1>2. Shape(q) /\ Fresh(q)
  BY <1>1 DEF Shape, Fresh
<1> QED BY <1>1, <1>2

\* Invalidate: the key loses its payloads, and every token of it.
LEMMA InvalidateInv ==
  ASSUME IInv, NEW n \in Names, Invalidate(n)
  PROVE  IInv'
<1> DEFINE k == Canon[n]
           R == Aliases(n)
<1>1. /\ UNCHANGED <<base, ramEnabled, autoRepair, boost, lock>>
      /\ lock[k] = None
  BY DEF Invalidate, modeVars, Free
<1>2. /\ base \in Bases /\ k \in CacheKeys /\ op \in [Actors -> Op]
      /\ legit \in [Bases -> [CacheKeys -> SUBSET Contents]]
      /\ queue \in Seq(Task) /\ ext \in [Bases -> [Names -> Items]]
      /\ stray \in [CacheKeys -> SUBSET Bases]
      /\ TierOK(meta) /\ TierOK(ram) /\ TierOK(resident)
      /\ disk \in [Bases -> [Names -> Contents \cup {None, Corrupt}]]
  BY CanonInKeys DEF IInv, Typed, MemoryOK, FilesOK
<1>3. \A m \in Names : Canon[m] = k => m \in R
  <2>1. ASSUME NEW m \in Names, Canon[m] = Canon[n] PROVE m \in R
    <3>1. m = n \/ m = Alt[n]
      BY <2>1, CanonAssumption
    <3>2. m # NoName
      BY NameAssumption
    <3> QED BY <3>1, <3>2 DEF Aliases
  <2> QED BY <2>1
<1>4. /\ legit' \in [Bases -> [CacheKeys -> SUBSET Contents]]
      /\ \A b \in Bases, key \in CacheKeys :
           b # base \/ key # k => legit'[b][key] = legit[b][key]
  BY <1>2 DEF Invalidate
<1>5. /\ stray' \in [CacheKeys -> SUBSET Bases]
      /\ \A key \in CacheKeys : key # k => stray'[key] = stray[key]
  BY <1>2 DEF Invalidate
<1>5a. ASSUME NEW m \in Names, Canon[m] # k
       PROVE  Held(m)' = Held(m) /\ Sources(m)' = Sources(m)
  <2>1. Canon[m] \in CacheKeys
    BY CanonInKeys
  <2>2. stray'[Canon[m]] = stray[Canon[m]] /\ stray[Canon[m]] \subseteq Bases
    BY <1>2, <1>5, <1>5a, <2>1
  <2>3. \A b \in Bases : legit'[b][Canon[m]] = legit[b][Canon[m]]
    BY <1>4, <1>5a, <2>1
  <2> QED BY <1>1, <1>2, <2>2, <2>3 DEF Held, Legal, Sources
<1>6. MemoryOK'
  <2>1. ASSUME NEW tier, TierOK(tier)
        PROVE  /\ Cleared(tier, R) \in [Names -> Items]
               /\ \A m \in Names : Cleared(tier, R)[m].data \in Held(m)'
    <3>1. Cleared(tier, R) \in [Names -> Items]
      BY <2>1, TierCleared DEF TierOK
    <3>2. ASSUME NEW m \in Names PROVE Cleared(tier, R)[m].data \in Held(m)'
      <4>1. CASE m \in R
        BY <4>1, NoItemType DEF Cleared, Held
      <4>2. CASE m \notin R
        BY <1>3, <1>5a, <2>1, <4>2 DEF Cleared, TierOK
      <4> QED BY <4>1, <4>2
    <3> QED BY <3>1, <3>2
  <2>2. /\ meta' = Cleared(meta, R) /\ ram' = Cleared(ram, R)
        /\ resident' = Cleared(resident, R)
    BY DEF Invalidate, Removed
  <2> QED BY <1>2, <2>1, <2>2 DEF MemoryOK, TierOK
<1>7. FilesOK'
  <2>1. /\ disk' \in [Bases -> [Names -> Contents \cup {None, Corrupt}]]
        /\ \A b \in Bases, m \in Names :
             disk'[b][m] = IF b = base /\ m \in R THEN None ELSE disk[b][m]
    BY <1>2 DEF Invalidate, Removed
  <2>2. ASSUME NEW b \in Bases, NEW m \in Names
        PROVE  disk'[b][m] \in legit'[b][Canon[m]] \cup {None, Corrupt}
    <3>1. CASE b = base /\ m \in R
      BY <2>1, <3>1
    <3>2. CASE ~(b = base /\ m \in R)
      BY <1>3, <1>4, <2>1, <3>2, CanonInKeys DEF IInv, FilesOK
    <3> QED BY <3>1, <3>2
  <2> QED BY <2>1, <2>2 DEF FilesOK
<1>8. ASSUME NEW c \in Actors
      PROVE  /\ op'[c] \in Op
             /\ (Shape(op[c]) /\ Fresh(op[c]) /\ Locked(c))'
  <2> DEFINE dead == [op[c] EXCEPT !.live = FALSE]
  <2>1. op[c] \in Op /\ Shape(op[c]) /\ Fresh(op[c]) /\ Locked(c)
    BY Given
  <2>2. /\ dead \in Op /\ Shape(dead) /\ ~dead.live /\ dead.at = op[c].at
    BY <2>1, RevokedFine
  <2>3. op'[c] = IF op[c].name \in Names /\ Canon[op[c].name] = k THEN dead ELSE op[c]
    BY DEF Invalidate, RevokeKeys
  <2> HIDE DEF dead
  <2>4. CASE op[c].name \in Names /\ Canon[op[c].name] = k
    <3>1. op'[c] = dead
      BY <2>3, <2>4
    <3>2. dead.at # "written"
      BY <1>1, <2>1, <2>2, <2>4, ActorAssumption DEF Locked, Actors
    <3> QED BY <2>2, <3>1, <3>2 DEF Shape, Fresh, Locked
  <2>5. CASE ~(op[c].name \in Names /\ Canon[op[c].name] = k)
    <3>1. op'[c] = op[c]
      BY <2>3, <2>5
    <3>2. Shape(op[c])'
      BY <2>1, <3>1 DEF Shape
    <3>3. Fresh(op[c])'
      <4> SUFFICES ASSUME op[c].live
                   PROVE  Fresh(op[c])'
        BY <3>1 DEF Fresh
      <4>1. op[c].name \in Names /\ Canon[op[c].name] # k
        BY <2>1, <2>5 DEF Fresh, Shape
      <4>2. legit'[base][Canon[op[c].name]] = legit[base][Canon[op[c].name]]
        BY <1>2, <1>4, <4>1, CanonInKeys
      <4> QED BY <1>1, <1>5a, <2>1, <3>1, <4>1, <4>2 DEF Fresh
    <3>4. Locked(c)'
      BY <1>1, <1>2, <1>4, <2>1, <2>5, <3>1, CanonInKeys DEF Locked, Shape
    <3> QED BY <2>1, <3>1, <3>2, <3>3, <3>4
  <2> QED BY <2>4, <2>5
<1>9. OpsOK'
  BY <1>8 DEF OpsOK
<1>10. queue' \in Seq(Task) /\ Len(queue') = Len(queue) /\ QueueOK'
  <2>1. /\ queue' = [i \in DOMAIN queue |->
             IF Canon[queue[i].name] \in {k} THEN [queue[i] EXCEPT !.live = FALSE]
                                            ELSE queue[i]]
    BY DEF Invalidate, RevokeKeys
  <2>2. queue' \in Seq(Task) /\ Len(queue') = Len(queue)
    BY <1>2, <2>1, QueueType
  <2>3. ASSUME NEW i \in DOMAIN queue PROVE FreshTask(queue[i])'
    <3>1. queue[i] \in Task /\ FreshTask(queue[i])
      BY <1>2 DEF IInv, QueueOK
    <3>2. CASE Canon[queue[i].name] = k
      BY <2>1, <3>1, <3>2 DEF FreshTask, Task
    <3>3. CASE Canon[queue[i].name] # k
      <4>1. queue'[i] = queue[i] /\ queue[i].name \in Names
        BY <2>1, <3>1, <3>3 DEF Task
      <4>2. legit'[base][Canon[queue[i].name]] = legit[base][Canon[queue[i].name]]
        BY <1>2, <1>4, <3>3, <4>1, CanonInKeys
      <4> QED BY <1>1, <3>1, <4>1, <4>2 DEF FreshTask
    <3> QED BY <3>2, <3>3
  <2> QED BY <2>1, <2>2, <2>3 DEF QueueOK
<1>11. op' \in [Actors -> Op]
  BY <1>8 DEF Invalidate, RevokeKeys
<1>12. ext' \in [Bases -> [Names -> Items]]
  <2>1. \A f \in [Names -> Items] : Cleared(f, R) \in [Names -> Items]
    BY NoItemType DEF Cleared
  <2> QED BY <1>2, <2>1 DEF Invalidate, Removed
<1>13. missing' \subseteq Names /\ latest' \in [Names -> Contents \cup {None}]
  BY DEF Invalidate, IInv, Typed
<1>14. Typed'
  BY <1>1, <1>4, <1>5, <1>10, <1>11, <1>12, <1>13 DEF IInv, Typed
<1> QED BY <1>6, <1>7, <1>9, <1>10, <1>14 DEF IInv

\* Steps that leave no token alive and nothing in memory.
LEMMA ClearedStep ==
  ASSUME IInv, MemoryCleared,
         op' \in [Actors -> Op],
         \A a \in Actors : Shape(op'[a]) /\ ~op'[a].live /\ op'[a].at # "written",
         queue' \in Seq(Task), Len(queue') <= QueueCap,
         \A i \in DOMAIN queue' : ~queue'[i].live,
         base' \in Bases, boost' \in BOOLEAN, UNCHANGED <<ramEnabled, autoRepair>>,
         ext' \in [Bases -> [Names -> Items]],
         lock' \in [CacheKeys -> Actors \cup {None}],
         legit' \in [Bases -> [CacheKeys -> SUBSET Contents]],
         latest' \in [Names -> Contents \cup {None}],
         stray' \in [CacheKeys -> SUBSET Bases],
         FilesOK'
  PROVE  IInv'
<1>1. Typed'
  BY DEF IInv, Typed, MemoryCleared
<1>2. OpsOK'
  BY DEF OpsOK, Shape, Fresh, Locked
<1>3. QueueOK'
  BY DEF QueueOK, FreshTask
<1>4. MemoryOK'
  BY NoItemType DEF MemoryOK, MemoryCleared, TierOK, Held
<1> QED BY <1>1, <1>2, <1>3, <1>4 DEF IInv

\* What AllRevoked does to operations and tasks.
LEMMA AllRevokedFine ==
  ASSUME IInv, AllRevoked, PersistMuFree
  PROVE  /\ op' \in [Actors -> Op]
         /\ \A a \in Actors : Shape(op'[a]) /\ ~op'[a].live /\ op'[a].at # "written"
         /\ queue' \in Seq(Task) /\ Len(queue') <= QueueCap
         /\ \A i \in DOMAIN queue' : ~queue'[i].live
<1> DEFINE dead == [a \in Actors |-> [op[a] EXCEPT !.live = FALSE]]
<1>1. op \in [Actors -> Op] /\ queue \in Seq(Task) /\ Len(queue) <= QueueCap
  BY DEF IInv, Typed
<1>2. ASSUME NEW a \in Actors
      PROVE  /\ dead[a] \in Op /\ Shape(dead[a]) /\ ~dead[a].live
             /\ dead[a].at # "written"
  BY Given, RevokedFine DEF PersistMuFree
<1>3. op' = StopBoost(dead)
  BY DEF AllRevoked
<1> HIDE DEF dead
<1>4. ASSUME NEW a \in Actors
      PROVE  /\ op'[a] \in Op /\ Shape(op'[a]) /\ ~op'[a].live
             /\ op'[a].at # "written"
  <2> DEFINE q == [dead[a] EXCEPT !.pool = FALSE]
  <2>1. op'[a] = dead[a] \/ op'[a] = q
    BY <1>3 DEF StopBoost
  <2>2. /\ q \in Op /\ q.at = dead[a].at /\ q.kind = dead[a].kind
        /\ q.name = dead[a].name /\ q.file = dead[a].file
        /\ q.live = dead[a].live /\ q.data = dead[a].data /\ q.etag = dead[a].etag
    BY <1>2 DEF Op
  <2>3. Shape(q)
    BY <1>2, <2>2 DEF Shape
  <2> QED BY <1>2, <2>1, <2>2, <2>3
<1>5. op' \in [Actors -> Op]
  BY <1>3, <1>4 DEF StopBoost
<1>6. queue' = [i \in DOMAIN queue |-> [queue[i] EXCEPT !.live = FALSE]]
  BY DEF AllRevoked
<1>7. queue' \in Seq(Task) /\ Len(queue') = Len(queue)
  BY <1>1, <1>6, QueueType
<1>8. \A i \in DOMAIN queue : queue[i] \in Task
  BY <1>1
<1>9. \A i \in DOMAIN queue' : ~queue'[i].live
  BY <1>6, <1>8 DEF Task
<1> QED BY <1>1, <1>4, <1>5, <1>7, <1>9

LEMMA ClearAllInv ==
  ASSUME IInv, ClearAll
  PROVE  IInv'
<1>1. /\ base \in Bases /\ legit \in [Bases -> [CacheKeys -> SUBSET Contents]]
      /\ ext \in [Bases -> [Names -> Items]] /\ FilesOK
      /\ lock \in [CacheKeys -> Actors \cup {None}]
  BY DEF IInv, Typed
<1>2. legit' \in [Bases -> [CacheKeys -> SUBSET Contents]]
  BY <1>1 DEF ClearAll
<1>3. ext' \in [Bases -> [Names -> Items]]
  BY <1>1, NoItemType DEF ClearAll
<1>4. FilesOK'
  BY <1>1, CanonInKeys DEF ClearAll, FilesOK
<1>5. AllRevoked /\ PersistMuFree /\ MemoryCleared
  BY DEF ClearAll
<1>6. /\ base' \in Bases /\ boost' \in BOOLEAN /\ UNCHANGED <<ramEnabled, autoRepair>>
      /\ lock' \in [CacheKeys -> Actors \cup {None}]
      /\ latest' \in [Names -> Contents \cup {None}]
      /\ stray' \in [CacheKeys -> SUBSET Bases]
  BY <1>1 DEF ClearAll
<1> QED BY <1>2, <1>3, <1>4, <1>5, <1>6, AllRevokedFine, ClearedStep

LEMMA SetCacheBaseInv ==
  ASSUME IInv, NEW b \in Bases, SetCacheBase(b)
  PROVE  IInv'
<1>1. /\ legit \in [Bases -> [CacheKeys -> SUBSET Contents]]
      /\ ext \in [Bases -> [Names -> Items]] /\ FilesOK
      /\ lock \in [CacheKeys -> Actors \cup {None}]
  BY DEF IInv, Typed
<1>2. AllRevoked /\ PersistMuFree /\ MemoryCleared
  BY DEF SetCacheBase
<1>3. UNCHANGED <<disk, ext, ramEnabled, autoRepair, lock, legit>>
  BY DEF SetCacheBase
<1>4. FilesOK'
  BY <1>1, <1>3 DEF FilesOK
<1>5. /\ base' \in Bases /\ boost' \in BOOLEAN
      /\ latest' \in [Names -> Contents \cup {None}]
      /\ stray' \in [CacheKeys -> SUBSET Bases]
  BY DEF SetCacheBase
<1> QED BY <1>1, <1>2, <1>3, <1>4, <1>5, AllRevokedFine, ClearedStep

LEMMA CrashInv ==
  ASSUME IInv, Crash
  PROVE  IInv'
<1>1. /\ legit \in [Bases -> [CacheKeys -> SUBSET Contents]] /\ base \in Bases
      /\ ext \in [Bases -> [Names -> Items]] /\ FilesOK
  BY DEF IInv, Typed
<1>2. UNCHANGED <<disk, ext, base, ramEnabled, autoRepair, legit>> /\ MemoryCleared
  BY DEF Crash
<1>3. FilesOK'
  BY <1>1, <1>2 DEF FilesOK
<1>4. Idle \in Op /\ Shape(Idle) /\ ~Idle.live /\ Idle.at # "written"
  BY <1>1, IdleFine, IdleType
<1>5. op' \in [Actors -> Op] /\ \A a \in Actors : op'[a] = Idle
  BY <1>4 DEF Crash
<1>6. queue' \in Seq(Task) /\ Len(queue') <= QueueCap /\ queue' = <<>>
  BY QueueAssumption DEF Crash
<1>7. /\ boost' \in BOOLEAN /\ latest' \in [Names -> Contents \cup {None}]
      /\ lock' \in [CacheKeys -> Actors \cup {None}]
      /\ stray' \in [CacheKeys -> SUBSET Bases]
  BY DEF Crash
<1> QED BY <1>1, <1>2, <1>3, <1>4, <1>5, <1>6, <1>7, ClearedStep

-----------------------------------------------------------------------------
(***************************************************************************)
(* The theorems.                                                           *)
(***************************************************************************)
LEMMA InitInv == Init => IInv
<1> SUFFICES ASSUME Init PROVE IInv
  OBVIOUS
<1>1. /\ base \in Bases /\ ramEnabled \in BOOLEAN /\ autoRepair \in BOOLEAN
      /\ boost = FALSE /\ missing = {} /\ queue = <<>>
  BY ModeAssumption DEF Init
<1>2. Idle \in Op /\ Shape(Idle) /\ ~Idle.live /\ Idle.at # "written"
  BY <1>1, IdleFine, IdleType
<1>3. legit \in [Bases -> [CacheKeys -> SUBSET Contents]]
  BY DEF Init
<1>4. Typed
  <2>1. op \in [Actors -> Op]
    BY <1>2 DEF Init
  <2>2. lock \in [CacheKeys -> Actors \cup {None}]
    BY DEF Init
  <2>3. queue \in Seq(Task) /\ Len(queue) <= QueueCap
    <3>1. Len(<<>>) = 0 /\ <<>> \in Seq(Task)
      OBVIOUS
    <3> QED BY <1>1, <3>1, QueueAssumption
  <2>4. /\ latest \in [Names -> Contents \cup {None}]
        /\ stray \in [CacheKeys -> SUBSET Bases]
    BY DEF Init
  <2>5. missing \subseteq Names
    BY <1>1
  <2>6. ext \in [Bases -> [Names -> Items]]
    BY DEF Init
  <2> QED BY <1>1, <1>3, <2>1, <2>2, <2>3, <2>4, <2>5, <2>6 DEF Typed
<1>5. OpsOK
  BY <1>2 DEF Init, OpsOK, Fresh, Locked
<1>6. QueueOK
  BY <1>1 DEF QueueOK
<1>7. MemoryOK
  BY TierEmpty DEF Init, MemoryOK
<1>8. FilesOK
  <2>1. ASSUME NEW b \in Bases, NEW n \in Names
        PROVE  disk[b][n] \in legit[b][Canon[n]] \cup {None, Corrupt}
    <3>1. legit[b][Canon[n]] =
            {disk[b][m] : m \in {j \in Names : Canon[j] = Canon[n]}} \ {None}
      BY CanonInKeys DEF Init
    <3> QED BY <3>1
  <2>2. disk \in [Bases -> [Names -> Contents \cup {None, Corrupt}]]
    BY DEF Init
  <2> QED BY <2>1, <2>2 DEF FilesOK
<1> QED BY <1>4, <1>5, <1>6, <1>7, <1>8 DEF IInv

LEMMA NextInv == IInv /\ [Next]_vars => IInv'
<1> SUFFICES ASSUME IInv, [Next]_vars PROVE IInv'
  OBVIOUS
<1>1. ASSUME NEW a \in Clients, Read(a) \/ Prewarm(a) \/ Save(a) \/ Stream(a)
      PROVE  IInv'
  <2>1. a \in Actors
    BY DEF Actors
  <2>2. CASE Read(a)
    BY <2>1, <2>2, LookupInv, AcquireTokenInv, HasStatInv, LoadFileInv, LoadMetadataInv,
       JudgeContentInv, IndexFileInv, GetFinishInv, GetFailedInv, HasFinishInv
    DEF Read
  <2>3. CASE Prewarm(a)
    BY <2>1, <2>3, LookupInv, BoostFinishInv DEF Prewarm
  <2>4. CASE Save(a)
    BY <2>1, <2>4, SaveRAMInv, EnqueuePersistInv DEF Save
  <2>5. CASE Stream(a)
    BY <2>1, <2>5, CreateTempInv, PersistBeginInv, CommitRenameInv, MetadataInv
    DEF Stream
  <2> QED BY <1>1, <2>2, <2>3, <2>4, <2>5
<1>2. ASSUME NEW w \in Workers, TakeTask(w) PROVE IInv'
  BY <1>2, TakeTaskInv DEF Actors
<1>3. ASSUME NEW a \in Actors, Persist(a) PROVE IInv'
  BY <1>3, PersistBeginInv, PersistRenameInv, MetadataInv DEF Persist
<1>4. ASSUME Control \/ (\E n \in Names : DamageFile(n)) PROVE IInv'
  BY <1>4, InvalidateInv, SwitchInv, ClearAllInv, SetCacheBaseInv DEF Control
<1>5. CASE Crash
  BY <1>5, CrashInv
<1>6. CASE UNCHANGED vars
  <2>1. UNCHANGED <<disk, ext, meta, missing, ram, resident, base, ramEnabled,
                    autoRepair, boost, queue, lock, op, legit, latest, stray>>
    BY <1>6 DEF vars, tierVars, modeVars, histVars
  <2>2. Typed'
    BY <2>1 DEF IInv, Typed
  <2>3. OpsOK'
    BY <2>1 DEF IInv, OpsOK, Shape, Fresh, Locked, Held, Legal, Sources
  <2>4. QueueOK' /\ FilesOK'
    BY <2>1 DEF IInv, QueueOK, FreshTask, FilesOK
  <2>5. MemoryOK'
    BY <2>1 DEF IInv, MemoryOK, TierOK, Held, Legal
  <2> QED BY <2>2, <2>3, <2>4, <2>5 DEF IInv
<1> QED BY <1>1, <1>2, <1>3, <1>4, <1>5, <1>6 DEF Next, Alive

\* The invariant holds in every state that can be reached, crashes included.
THEOREM Invariance == Spec => []IInv
<1>1. Init => IInv
  BY InitInv
<1>2. IInv /\ [Next]_vars => IInv'
  BY NextInv
<1> QED BY <1>1, <1>2, PTL DEF Spec

\* Tiers, queue, locks and operations keep their types.
THEOREM TypeCorrect == Spec => []TypeOK
<1>1. IInv => TypeOK
  BY InvGivesType
<1> QED BY <1>1, Invariance, PTL

\* Nothing that an invalidation or a clear removed comes back into any tier or
\* file by an operation that was under way; and no tier gets a payload of a
\* directory that was left, but from a lookup on that key which had its path
\* before the change and its token after it, and the next invalidation of the key
\* ends that as well.
THEOREM InvalidatedNeverReturns == Spec => []InvalidatedStaysGone
<1>1. IInv => InvalidatedStaysGone
  BY InvGivesProperty
<1> QED BY <1>1, Invariance, PTL
-----------------------------------------------------------------------------
(***************************************************************************)
(* The switches.  Whoever writes into RAM or into the pool asks its switch *)
(* in the step that writes, and whoever turns a switch off empties its     *)
(* tier in the same step.                                                  *)
(***************************************************************************)
Off == RAMOffStaysEmpty /\ BoostOffStaysEmpty

LEMMA OffInit == Init => Off
BY DEF Init, Off, RAMOffStaysEmpty, BoostOffStaysEmpty

LEMMA ClearedEmpties ==
  ASSUME NEW f, NEW ns, NEW n \in Names
  PROVE  /\ Cleared(f, ns)[n] \in {NoItem, f[n]}
         /\ f[n] = NoItem => Cleared(f, ns)[n] = NoItem
BY DEF Cleared

\* Reads write into RAM and the pool only while they are switched on.
LEMMA OffRead ==
  ASSUME TypeOK, Off, NEW a \in Clients, Read(a) \/ Prewarm(a)
  PROVE  Off'
<1>1. ram \in [Names -> Items] /\ resident \in [Names -> Items]
  BY DEF TypeOK
<1>2. CASE \E n \in Names : GetLookup(a, n) \/ HasLookup(a, n) \/ BoostLookup(a, n)
  BY <1>2 DEF GetLookup, HasLookup, BoostLookup, tierVars, modeVars,
     Off, RAMOffStaysEmpty, BoostOffStaysEmpty
<1>3. CASE \/ AcquireToken(a) \/ HasStat(a) \/ LoadFile(a) \/ LoadMetadata(a)
           \/ IndexFile(a) \/ GetFailed(a) \/ HasFinish(a)
  BY <1>3 DEF AcquireToken, HasStat, LoadFile, LoadMetadata, IndexFile, GetFailed,
     HasFinish, tierVars,
     modeVars, Off, RAMOffStaysEmpty, BoostOffStaysEmpty
<1>4. CASE JudgeContent(a)
  <2>1. UNCHANGED <<ram, ramEnabled, boost>>
    BY <1>4 DEF JudgeContent, modeVars
  <2>2. \A n \in Names : resident'[n] \in {NoItem, resident[n]}
    BY <1>1, <1>4 DEF JudgeContent
  <2> QED BY <2>1, <2>2 DEF Off, RAMOffStaysEmpty, BoostOffStaysEmpty
<1>5. CASE GetFinish(a)
  <2>1. UNCHANGED <<resident, ramEnabled, boost>>
    BY <1>5 DEF GetFinish, modeVars
  <2>2. ~ramEnabled => ram' = ram
    BY <1>5 DEF GetFinish, RAMAdmits
  <2> QED BY <2>1, <2>2 DEF Off, RAMOffStaysEmpty, BoostOffStaysEmpty
<1>6. CASE BoostFinish(a)
  <2>1. UNCHANGED <<ram, ramEnabled, boost>>
    BY <1>6 DEF BoostFinish, modeVars
  <2>2. ~boost => resident' = resident
    BY <1>6 DEF BoostFinish, PoolAccepts
  <2> QED BY <2>1, <2>2 DEF Off, RAMOffStaysEmpty, BoostOffStaysEmpty
<1> QED BY <1>2, <1>3, <1>4, <1>5, <1>6 DEF Read, Prewarm

\* Writes put into RAM only while it is on, and only ever empty the pool.
LEMMA OffWrite ==
  ASSUME TypeOK, Off, NEW a \in Actors,
         Save(a) \/ Stream(a) \/ Persist(a) \/ TakeTask(a)
  PROVE  Off'
<1>1. CASE \E n \in Names, c \in Contents, at \in {"queue", "persist"} : SaveRAM(a, n, c, at)
  <2>1. PICK n \in Names, c \in Contents, at \in {"queue", "persist"} : SaveRAM(a, n, c, at)
    BY <1>1
  <2>2. UNCHANGED <<ramEnabled, boost>> /\ resident' = Cleared(resident, Aliases(n))
    BY <2>1 DEF SaveRAM, modeVars
  <2>3. ~ramEnabled => ram' = Cleared(ram, Aliases(n) \ {n})
    BY <2>1 DEF SaveRAM
  <2> QED BY <2>2, <2>3, ClearedEmpties DEF Off, RAMOffStaysEmpty, BoostOffStaysEmpty
<1>2. CASE CommitMetadata(a)
  <2>1. /\ UNCHANGED <<ramEnabled, boost>>
        /\ \/ UNCHANGED <<ram, resident>>
           \/ \E ns : /\ ram' = Cleared(ram, ns)
                      /\ resident' = Cleared(resident, ns)
    BY <1>2 DEF CommitMetadata, modeVars
  <2> QED BY <2>1, ClearedEmpties DEF Off, RAMOffStaysEmpty, BoostOffStaysEmpty
<1>3. CASE \/ EnqueuePersist(a) \/ TakeTask(a) \/ PersistBegin(a) \/ PersistRename(a)
           \/ PersistMetadata(a) \/ DiscardTemp(a) \/ CommitRename(a)
           \/ \E n \in Names, c \in Contents : CreateTemp(a, n, c)
  <2>1. UNCHANGED <<ram, resident, ramEnabled, boost>>
    BY <1>3 DEF EnqueuePersist, TakeTask, PersistBegin, PersistRename,
       PersistMetadata, DiscardTemp, CommitRename, CreateTemp, tierVars, modeVars
  <2> QED BY <2>1 DEF Off, RAMOffStaysEmpty, BoostOffStaysEmpty
<1> QED BY <1>1, <1>2, <1>3 DEF Save, Stream, Persist

\* A switch that is turned off empties its tier.
LEMMA OffControl ==
  ASSUME TypeOK, Off, Control \/ Crash \/ \E n \in Names : DamageFile(n)
  PROVE  Off'
<1>1. ram \in [Names -> Items] /\ resident \in [Names -> Items]
  BY DEF TypeOK
<1>2. CASE \E n \in Names : Invalidate(n)
  <2>1. /\ UNCHANGED <<ramEnabled, boost>>
        /\ \E ns : ram' = Cleared(ram, ns) /\ resident' = Cleared(resident, ns)
    BY <1>2 DEF Invalidate, modeVars
  <2> QED BY <2>1, ClearedEmpties DEF Off, RAMOffStaysEmpty, BoostOffStaysEmpty
<1>3. CASE \E n \in Names : EvictRAM(n)
  <2>1. /\ UNCHANGED <<ramEnabled, boost, resident>>
        /\ \A n \in Names : ram'[n] \in {NoItem, ram[n]}
    BY <1>1, <1>3 DEF EvictRAM, modeVars
  <2> QED BY <2>1 DEF Off, RAMOffStaysEmpty, BoostOffStaysEmpty
<1>4. CASE ClearAll \/ Crash \/ \E b \in Bases : SetCacheBase(b)
  BY <1>4 DEF ClearAll, Crash, SetCacheBase, MemoryCleared, Off, RAMOffStaysEmpty,
     BoostOffStaysEmpty
<1>5. CASE \E on \in BOOLEAN : SetRAMEnabled(on)
  BY <1>5 DEF SetRAMEnabled, Off, RAMOffStaysEmpty, BoostOffStaysEmpty
<1>6. CASE EnableBoost \/ DisableBoost
  BY <1>6 DEF EnableBoost, DisableBoost, Off, RAMOffStaysEmpty, BoostOffStaysEmpty
<1>7. CASE \E n \in Names : DamageFile(n)
  BY <1>7 DEF DamageFile, modeVars, Off, RAMOffStaysEmpty, BoostOffStaysEmpty
<1> QED BY <1>2, <1>3, <1>4, <1>5, <1>6, <1>7 DEF Control

\* The off switches hold whatever was under way when they were turned: a read
\* does not refill RAM, a prewarm does not refill the pool.
THEOREM SwitchesHold == Spec => []OffStaysEmpty
<1>1. Init => Off
  BY OffInit
<1>2. TypeOK /\ Off /\ [Next]_vars => Off'
  <2> SUFFICES ASSUME TypeOK, Off, [Next]_vars PROVE Off'
    OBVIOUS
  <2>1. CASE UNCHANGED vars
    BY <2>1 DEF vars, tierVars, modeVars, Off, RAMOffStaysEmpty, BoostOffStaysEmpty
  <2>2. CASE Next
    BY <2>2, OffRead, OffWrite, OffControl DEF Next, Alive, Actors
  <2> QED BY <2>1, <2>2
<1>3. Off => OffStaysEmpty
  BY DEF Off, OffStaysEmpty
<1> QED BY <1>1, <1>2, <1>3, TypeCorrect, PTL DEF Spec


-----------------------------------------------------------------------------
(***************************************************************************)
(* Names under hosts/.  Their file and its .ext are written and read under *)
(* the lock of the shard, so that whoever finds the lock free finds a pair *)
(* that belongs together; and such a name has no alias.                    *)
(***************************************************************************)
TierAgrees(tier) == \A n \in Shared : Agrees(tier[n])

RecordsAgree == /\ TierAgrees(meta) /\ TierAgrees(ram) /\ TierAgrees(resident)
                /\ \A b \in Bases : TierAgrees(ext[b])

\* A file and its .ext belong together, unless somebody is just writing them.
FilesPaired ==
  \A b \in Bases, n \in Shared :
    disk[b][n] \in Contents /\ ext[b][n] # NoItem =>
      ext[b][n].data = disk[b][n] \/ (b = base /\ ~Free(n))

\* What an operation has read of such a name belongs together too.
PairRead(o) ==
  o.file \in Shared =>
    /\ o.at # "ext"
    /\ \/ o.at \in {"judge", "index"} /\ o.data \in Contents
       \/ o.at = "found" /\ o.kind \in {"get", "boost"}
       => o.etag = o.data

\* The file that was renamed is there until its metadata are, or was damaged.
WrittenThere(o) ==
  o.at = "written" /\ o.name \in Shared =>
    disk[o.dir][o.name] \in {o.data, None, Corrupt}

\* Whoever holds a lock is going to write the metadata.
LocksHeld ==
  \A k \in CacheKeys :
    lock[k] # None => op[lock[k]].at = "written" /\ Canon[op[lock[k]].name] = k

Together == /\ RecordsAgree /\ FilesPaired /\ LocksHeld
            /\ \A a \in Actors : PairRead(op[a]) /\ WrittenThere(op[a])

LEMMA SharedAlone ==
  ASSUME NEW n \in Shared, NEW m \in Names, Canon[m] = Canon[n]
  PROVE  m = n /\ n \in Names /\ Alt[n] = NoName /\ Aliases(n) = {n}
<1>1. n \in Names
  BY NameAssumption
<1>2. Alt[n] = NoName
  BY <1>1, AliasAssumption
<1>3. m = n \/ m = Alt[n]
  BY <1>1, CanonAssumption
<1> QED BY <1>1, <1>2, <1>3, NameAssumption DEF Aliases

\* Tiers that lose items, or get one whose bytes and ETag are of one payload.
LEMMA AgreesSet ==
  ASSUME NEW tier \in [Names -> Items], TierAgrees(tier), NEW n \in Names, NEW item,
         n \in Shared => Agrees(item)
  PROVE  TierAgrees([tier EXCEPT ![n] = item])
BY NameAssumption DEF TierAgrees

LEMMA AgreesNoItem == Agrees(NoItem)
BY DEF Agrees, NoItem

LEMMA AgreesItem == ASSUME NEW c PROVE Agrees(Item(c, c))
BY DEF Agrees, Item

LEMMA AgreesDrop ==
  ASSUME NEW tier \in [Names -> Items], TierAgrees(tier), NEW n \in Names
  PROVE  TierAgrees([tier EXCEPT ![n] = NoItem])
BY AgreesSet, AgreesNoItem

LEMMA AgreesCleared ==
  ASSUME NEW tier, TierAgrees(tier), NEW ns
  PROVE  TierAgrees(Cleared(tier, ns))
BY AgreesNoItem, NameAssumption DEF TierAgrees, Cleared

LEMMA AgreesEmpty == TierAgrees([n \in Names |-> NoItem])
BY AgreesNoItem, NameAssumption DEF TierAgrees

\* The types that the steps below use.
LEMMA Kept ==
  ASSUME IInv, Together
  PROVE  /\ meta \in [Names -> Items] /\ ram \in [Names -> Items]
         /\ resident \in [Names -> Items] /\ ext \in [Bases -> [Names -> Items]]
         /\ disk \in [Bases -> [Names -> Contents \cup {None, Corrupt}]]
         /\ op \in [Actors -> Op] /\ lock \in [CacheKeys -> Actors \cup {None}]
         /\ base \in Bases /\ Shared \subseteq Names
         /\ TierAgrees(meta) /\ TierAgrees(ram) /\ TierAgrees(resident)
         /\ \A b \in Bases : TierAgrees(ext[b])
         /\ FilesPaired /\ LocksHeld
         /\ \A a \in Actors : /\ PairRead(op[a]) /\ WrittenThere(op[a])
                              /\ Shape(op[a]) /\ Fresh(op[a]) /\ Locked(a)
BY NameAssumption
   DEF IInv, Typed, OpsOK, MemoryOK, TierOK, FilesOK, Together, RecordsAgree

\* One operation that holds no lock goes on to q; files only vanish.
LEMMA TogetherStep ==
  ASSUME IInv, Together, NEW a \in Actors, NEW q,
         op[a].at # "written", q.at # "written", PairRead(q),
         op' = [op EXCEPT ![a] = q], UNCHANGED <<base, lock>>,
         RecordsAgree', FilesPaired',
         \A b \in Bases, n \in Shared : disk'[b][n] \in {disk[b][n], None, Corrupt}
  PROVE  Together'
<1>1. op \in [Actors -> Op] /\ lock \in [CacheKeys -> Actors \cup {None}]
  BY Kept
<1>2. op'[a] = q /\ \A c \in Actors : c # a => op'[c] = op[c]
  BY <1>1
<1>3. LocksHeld'
  <2> SUFFICES ASSUME NEW k \in CacheKeys, lock[k] # None
               PROVE  op'[lock[k]].at = "written" /\ Canon[op'[lock[k]].name] = k
    BY DEF LocksHeld
  <2>1. lock[k] \in Actors /\ op[lock[k]].at = "written" /\ Canon[op[lock[k]].name] = k
    BY <1>1, Kept DEF LocksHeld
  <2> QED BY <1>2, <2>1
<1>4. ASSUME NEW c \in Actors PROVE PairRead(op'[c]) /\ WrittenThere(op[c])'
  <2>1. CASE c = a
    BY <1>2, <2>1 DEF WrittenThere
  <2>2. CASE c # a
    <3>1. op'[c] = op[c] /\ PairRead(op[c]) /\ WrittenThere(op[c]) /\ op[c] \in Op
      BY <1>1, <1>2, <2>2, Kept
    <3>2. op[c].at = "written" => op[c].dir \in Bases
      BY <3>1 DEF Op
    <3>3. WrittenThere(op[c])'
      BY <3>1, <3>2 DEF WrittenThere
    <3> QED BY <3>1, <3>3
  <2> QED BY <2>1, <2>2
<1> QED BY <1>3, <1>4 DEF Together, PairRead

\* The same for a step that changes no file.
LEMMA QuietStep ==
  ASSUME IInv, Together, NEW a \in Actors, NEW q,
         op[a].at # "written", q.at # "written", PairRead(q),
         op' = [op EXCEPT ![a] = q], UNCHANGED <<base, lock, disk, ext>>,
         TierAgrees(meta'), TierAgrees(ram'), TierAgrees(resident')
  PROVE  Together'
<1>1. FilesPaired'
  BY Kept DEF FilesPaired, Free
<1>2. RecordsAgree'
  BY Kept DEF RecordsAgree
<1> QED BY <1>1, <1>2, TogetherStep

\* An operation that begins, or is over, has read nothing.
LEMMA NothingRead ==
  /\ PairRead(Idle) /\ Idle.at # "written"
  /\ \A kind \in Kinds, at \in {"open", "queue", "persist", "temp"}, n \in Names :
       base \in Bases => PairRead(Start(kind, at, n)) /\ Start(kind, at, n).at = at
<1>1. PairRead(Idle) /\ Idle.at # "written"
  BY DEF PairRead, Idle
<1>2. ASSUME NEW kind \in Kinds, NEW at \in {"open", "queue", "persist", "temp"},
             NEW n \in Names, base \in Bases
      PROVE  PairRead(Start(kind, at, n)) /\ Start(kind, at, n).at = at
  BY <1>2 DEF PairRead, Start, Idle
<1> QED BY <1>1, <1>2

LEMMA LookupTogether ==
  ASSUME IInv, Together, NEW a \in Actors, NEW n \in Names,
         GetLookup(a, n) \/ BoostLookup(a, n) \/ HasLookup(a, n)
  PROVE  Together'
<1>1. /\ op[a] = Idle /\ UNCHANGED <<base, lock, disk, ext, meta, ram, resident>>
      /\ base \in Bases
  BY Kept DEF GetLookup, BoostLookup, HasLookup, tierVars, modeVars
<1>2. PICK kind \in Kinds : op' = [op EXCEPT ![a] = Lookup(kind, n)]
  BY DEF GetLookup, BoostLookup, HasLookup, Becomes, Kinds
<1>3. Lookup(kind, n).at = "lookup"
  BY <1>1, LookupFine
<1>4. PairRead(Lookup(kind, n)) /\ Lookup(kind, n).at # "written"
  BY <1>3 DEF PairRead
<1>5. TierAgrees(meta') /\ TierAgrees(ram') /\ TierAgrees(resident')
  BY <1>1, Kept
<1> QED BY <1>1, <1>2, <1>4, <1>5, NothingRead, QuietStep

\* A token, and a look whether the file is there, read nothing of it.
LEMMA ProceedTogether ==
  ASSUME IInv, Together, NEW a \in Actors, AcquireToken(a) \/ HasStat(a)
  PROVE  Together'
<1> DEFINE o == op[a]
<1>1. /\ o \in Op /\ o.at \in {"lookup", "stat"} /\ (o.at = "stat" => o.kind = "has")
      /\ UNCHANGED <<base, lock, disk, ext, meta, ram, resident>>
  BY Given DEF AcquireToken, HasStat, Shape, tierVars, modeVars
<1>2. \E q : /\ op' = [op EXCEPT ![a] = q]
             /\ q.at \in {"stat", "open", "failed"} \/ (q.at = "found" /\ q.kind = "has")
  <2>1. CASE AcquireToken(a)
    <3> DEFINE at == IF o.kind = "has" THEN "stat" ELSE "open"
               q == [o EXCEPT !.at = at, !.live = TRUE]
    <3>1. op' = [op EXCEPT ![a] = q]
      BY <2>1 DEF AcquireToken, Becomes
    <3>2. at \in {"stat", "open"}
      OBVIOUS
    <3> HIDE DEF at
    <3>3. q.at = at
      BY <1>1 DEF Op
    <3> HIDE DEF q
    <3> QED BY <3>1, <3>2, <3>3
  <2>2. CASE HasStat(a)
    <3> DEFINE found == [o EXCEPT !.at = "found", !.data = disk[o.dir][o.file]]
               again == [o EXCEPT !.file = Alt[o.name], !.dir = base]
               gone == [o EXCEPT !.at = "failed"]
    <3>1. \E q \in {found, again, gone} : op' = [op EXCEPT ![a] = q]
      BY <2>2 DEF HasStat, Becomes
    <3>2. o.at = "stat" /\ o.kind = "has"
      BY <1>1, <2>2 DEF HasStat
    <3>3. /\ found.at = "found" /\ found.kind = "has"
          /\ again.at = "stat" /\ gone.at = "failed"
      BY <1>1, <3>2 DEF Op
    <3> QED BY <3>1, <3>3
  <2> QED BY <2>1, <2>2
<1>3. PICK q : /\ op' = [op EXCEPT ![a] = q]
               /\ q.at \in {"stat", "open", "failed"} \/ (q.at = "found" /\ q.kind = "has")
  BY <1>2
<1>4. PairRead(q) /\ q.at # "written" /\ o.at # "written"
  BY <1>1, <1>3 DEF PairRead
<1>5. TierAgrees(meta') /\ TierAgrees(ram') /\ TierAgrees(resident')
  BY <1>1, Kept
<1> QED BY <1>1, <1>3, <1>4, <1>5, QuietStep

\* How a load ends, and what is read under the lock: a file and its own .ext.
LEMMA EndsRead ==
  ASSUME NEW o \in Op, PairRead(o)
  PROVE  /\ PairRead(Fails(o)) /\ Fails(o).at # "written"
         /\ Succeeds(o).at # "written"
         /\ o.at = "index" /\ o.data \in Contents => PairRead(Succeeds(o))
<1>1. /\ Succeeds(o).at = "found" /\ Succeeds(o).file = o.file
      /\ Succeeds(o).kind = o.kind /\ Succeeds(o).data = o.data
      /\ Succeeds(o).etag = o.etag /\ Succeeds(o) \in Op
  BY DEF Succeeds, Op, Steps
<1>2. Fails(o).at = "failed" /\ Fails(o).data = None /\ Fails(o).etag = None
  BY <1>1 DEF Fails, Op
<1> QED BY <1>1, <1>2 DEF PairRead

LEMMA LoadFileTogether ==
  ASSUME IInv, Together, NEW a \in Actors, LoadFile(a)
  PROVE  Together'
<1> DEFINE o == op[a]
           c == disk[o.dir][o.file]
           e == ext[o.dir][o.file]
           tag == IF e = NoItem THEN OwnEtag(c) ELSE e.etag
           v == e.data = c
           u == meta[o.file].data # c
           locked == [o EXCEPT !.at = "judge", !.data = c, !.etag = tag,
                               !.verified = v, !.unindexed = u]
           free == [o EXCEPT !.at = "ext", !.data = c]
<1>1. /\ o \in Op /\ o.at = "open" /\ o.file \in Names /\ o.dir \in Bases
      /\ PairRead(o) /\ (o.file \in Shared => Free(o.file))
  BY Given, Kept DEF LoadFile, Shape, MayRead, Op
<1>2. UNCHANGED <<base, lock, disk, ext, ram, resident>>
  BY DEF LoadFile, modeVars
<1>3. TierAgrees(ram') /\ TierAgrees(resident') /\ TierAgrees(meta)
  BY <1>2, Kept
<1>4. CASE c = None
  <2>1. meta' = [meta EXCEPT ![o.file] = NoItem] /\ op' = [op EXCEPT ![a] = Fails(o)]
    BY <1>4 DEF LoadFile, Becomes
  <2>2. TierAgrees(meta')
    BY <1>1, <2>1, Kept, AgreesDrop
  <2> QED BY <1>1, <1>2, <1>3, <2>1, <2>2, EndsRead, QuietStep
<1>5. CASE c # None /\ o.file \in Shared
  <2>1. UNCHANGED meta /\ op' = [op EXCEPT ![a] = locked]
    BY <1>5 DEF LoadFile, Becomes
  <2>2. locked.at = "judge" /\ locked.data = c /\ locked.etag = tag
    <3> HIDE DEF c, tag, v, u, o
    <3> QED BY <1>1 DEF Op
  <2>3. c \in Contents => tag = c
    <3>1. CASE e = NoItem
      BY <3>1 DEF OwnEtag
    <3>2. CASE e # NoItem /\ c \in Contents
      <4>1. e.data = c
        BY <1>1, <1>5, <3>2, Kept DEF FilesPaired
      <4>2. e.data = e.etag
        BY <1>1, <1>5, Kept DEF TierAgrees, Agrees
      <4> QED BY <3>2, <4>1, <4>2
    <3> QED BY <3>1, <3>2
  <2>4. PairRead(locked) /\ locked.at # "written"
    BY <2>2, <2>3 DEF PairRead
  <2> QED BY <1>1, <1>2, <1>3, <2>1, <2>4, QuietStep
<1>6. CASE c # None /\ o.file \notin Shared
  <2>1. UNCHANGED meta /\ op' = [op EXCEPT ![a] = free]
    BY <1>6 DEF LoadFile, Becomes
  <2>2. free.at = "ext" /\ free.file = o.file
    <3> HIDE DEF c, o
    <3> QED BY <1>1 DEF Op
  <2>3. PairRead(free) /\ free.at # "written"
    BY <1>6, <2>2 DEF PairRead
  <2> QED BY <1>1, <1>2, <1>3, <2>1, <2>3, QuietStep
<1> QED BY <1>4, <1>5, <1>6

\* Other names take no lock: LoadMetadata never sees a shared one.
LEMMA LoadMetadataTogether ==
  ASSUME IInv, Together, NEW a \in Actors, LoadMetadata(a)
  PROVE  Together'
<1> DEFINE o == op[a]
<1>1. /\ o \in Op /\ o.at = "ext" /\ o.file \notin Shared
      /\ UNCHANGED <<base, lock, disk, ext, meta, ram, resident>>
  BY Kept DEF LoadMetadata, PairRead, tierVars, modeVars
<1>2. PICK t, v, u : op' = [op EXCEPT ![a] =
         [o EXCEPT !.at = "judge", !.etag = t, !.verified = v, !.unindexed = u]]
  BY DEF LoadMetadata, Becomes
<1> DEFINE q == [o EXCEPT !.at = "judge", !.etag = t, !.verified = v, !.unindexed = u]
<1>3. q.at = "judge" /\ q.file = o.file
  <2> HIDE DEF o
  <2> QED BY <1>1 DEF Op
<1>4. PairRead(q) /\ q.at # "written"
  BY <1>1, <1>3 DEF PairRead
<1>5. TierAgrees(meta') /\ TierAgrees(ram') /\ TierAgrees(resident')
  BY <1>1, Kept
<1> QED BY <1>1, <1>2, <1>4, <1>5, QuietStep

\* A damaged file takes its .ext along.
LEMMA JudgeContentTogether ==
  ASSUME IInv, Together, NEW a \in Actors, JudgeContent(a)
  PROVE  Together'
<1> DEFINE o == op[a]
           q == [o EXCEPT !.at = "index"]
<1>1. /\ o \in Op /\ o.at = "judge" /\ o.file \in Names /\ o.dir \in Bases
      /\ PairRead(o) /\ o.data # None
  BY Given, Kept DEF JudgeContent, Shape, Op
<1>2. UNCHANGED <<base, lock, ram>>
  BY DEF JudgeContent, modeVars
<1>3. CASE o.data # Corrupt
  <2>1. op' = [op EXCEPT ![a] = q] /\ UNCHANGED <<disk, ext, meta, resident>>
    BY <1>3 DEF JudgeContent, Becomes
  <2>2. q.at = "index" /\ q.file = o.file /\ q.data = o.data /\ q.etag = o.etag
    BY <1>1 DEF Op
  <2>3. PairRead(q) /\ q.at # "written"
    BY <1>1, <2>2 DEF PairRead
  <2>4. TierAgrees(meta') /\ TierAgrees(ram') /\ TierAgrees(resident')
    BY <1>2, <2>1, Kept
  <2> QED BY <1>1, <1>2, <2>1, <2>3, <2>4, QuietStep
<1>4. CASE o.data = Corrupt
  <2>1. op' = [op EXCEPT ![a] = Fails(o)] /\ meta' = [meta EXCEPT ![o.file] = NoItem]
    BY <1>4 DEF JudgeContent, Becomes
  <2>2. TierAgrees(meta') /\ TierAgrees(ram')
    BY <1>1, <1>2, <2>1, Kept, AgreesDrop
  <2>3. PairRead(Fails(o)) /\ Fails(o).at # "written"
    BY <1>1, EndsRead
  <2>4. CASE UNCHANGED <<disk, ext, resident>>
    <3>1. TierAgrees(resident')
      BY <2>4, Kept
    <3> QED BY <1>1, <1>2, <2>1, <2>2, <2>3, <2>4, <3>1, QuietStep
  <2>5. CASE /\ disk' = [disk EXCEPT ![o.dir][o.file] = None]
             /\ ext' = [ext EXCEPT ![o.dir][o.file] = NoItem]
             /\ resident' = [resident EXCEPT ![o.file] = NoItem]
    <3>1. TierAgrees(resident')
      BY <1>1, <2>5, Kept, AgreesDrop
    <3>2. ASSUME NEW b \in Bases PROVE TierAgrees(ext'[b])
      <4>1. ext'[b] = ext[b] \/ ext'[b] = [ext[b] EXCEPT ![o.file] = NoItem]
        BY <1>1, <2>5, Kept
      <4>2. ext[b] \in [Names -> Items] /\ TierAgrees(ext[b])
        BY Kept
      <4> QED BY <1>1, <4>1, <4>2, AgreesDrop
    <3>3. \A b \in Bases, n \in Shared :
            \/ disk'[b][n] = None
            \/ disk'[b][n] = disk[b][n] /\ ext'[b][n] = ext[b][n]
      BY <1>1, <2>5, Kept
    <3>4. FilesPaired'
      BY <1>2, <3>3, Kept, PayloadAssumption DEF FilesPaired, Free
    <3>5. RecordsAgree'
      BY <2>2, <3>1, <3>2 DEF RecordsAgree
    <3> QED BY <1>1, <1>2, <2>1, <2>3, <3>3, <3>4, <3>5, TogetherStep
  <2> QED BY <1>4, <2>4, <2>5 DEF JudgeContent
<1> QED BY <1>3, <1>4

\* The index and the .ext file get what was read; the file is still that one.
LEMMA IndexFileTogether ==
  ASSUME IInv, Together, NEW a \in Actors, IndexFile(a)
  PROVE  Together'
<1> DEFINE o == op[a]
           record == Item(o.data, o.etag)
<1>1. /\ o \in Op /\ o.at = "index" /\ o.file \in Names /\ o.dir \in Bases
      /\ PairRead(o) /\ o.data \in Contents /\ o.etag \in Contents
  BY Given, Kept DEF IndexFile, Shape, Op
<1>2. UNCHANGED <<base, lock, disk, ram, resident>>
  BY DEF IndexFile, modeVars
<1>3. TierAgrees(ram') /\ TierAgrees(resident') /\ TierAgrees(meta)
  BY <1>2, Kept
<1>4. /\ PairRead(Fails(o)) /\ Fails(o).at # "written"
      /\ PairRead(Succeeds(o)) /\ Succeeds(o).at # "written"
  BY <1>1, EndsRead
<1>5. /\ o.file \in Shared => Agrees(record)
      /\ record.data = o.data
  BY <1>1 DEF PairRead, Agrees, Item
<1>6. CASE /\ meta' = [meta EXCEPT ![o.file] = NoItem] /\ UNCHANGED ext
           /\ op' = [op EXCEPT ![a] = Fails(o)]
  <2>1. TierAgrees(meta')
    BY <1>1, <1>6, Kept, AgreesDrop
  <2> QED BY <1>1, <1>2, <1>3, <1>4, <1>6, <2>1, QuietStep
<1>7. CASE /\ o.file \in Shared => disk[o.dir][o.file] = o.data
           /\ meta' = [meta EXCEPT ![o.file] = record]
           /\ ext' = IF o.verified THEN ext
                     ELSE [ext EXCEPT ![o.dir][o.file] = record]
           /\ op' = [op EXCEPT ![a] = Succeeds(o)]
  <2>1. TierAgrees(meta')
    BY <1>1, <1>5, <1>7, Kept, AgreesSet
  <2>2. ASSUME NEW b \in Bases PROVE TierAgrees(ext'[b])
    <3>1. ext'[b] = ext[b] \/ ext'[b] = [ext[b] EXCEPT ![o.file] = record]
      BY <1>1, <1>7, Kept
    <3>2. ext[b] \in [Names -> Items] /\ TierAgrees(ext[b])
      BY Kept
    <3> QED BY <1>1, <1>5, <3>1, <3>2, AgreesSet
  <2>3. \A b \in Bases, n \in Shared :
          \/ ext'[b][n] = ext[b][n]
          \/ ext'[b][n].data = disk[b][n]
    <3>1. CASE o.verified
      BY <1>7, <3>1
    <3>2. CASE ~o.verified
      BY <1>1, <1>5, <1>7, <3>2, Kept
    <3> QED BY <3>1, <3>2
  <2>4. FilesPaired'
    <3> SUFFICES ASSUME NEW b \in Bases, NEW n \in Shared,
                        disk'[b][n] \in Contents, ext'[b][n] # NoItem
                 PROVE  ext'[b][n].data = disk'[b][n] \/ (b = base' /\ ~Free(n)')
      BY DEF FilesPaired
    <3>1. disk' = disk /\ base' = base /\ lock' = lock
      BY <1>2
    <3>2. ext'[b][n] = ext[b][n] \/ ext'[b][n].data = disk[b][n]
      BY <2>3
    <3>3. ext[b][n] # NoItem =>
            ext[b][n].data = disk[b][n] \/ (b = base /\ ~Free(n))
      BY <3>1, Kept DEF FilesPaired
    <3> QED BY <3>1, <3>2, <3>3 DEF Free
  <2>5. RecordsAgree'
    BY <1>3, <2>1, <2>2 DEF RecordsAgree
  <2> QED BY <1>1, <1>2, <1>4, <1>7, <2>4, <2>5, TogetherStep
<1>8. CASE UNCHANGED <<meta, ext>> /\ op' = [op EXCEPT ![a] = Succeeds(o)]
  BY <1>1, <1>2, <1>3, <1>4, <1>8, QuietStep
<1> QED BY <1>6, <1>7, <1>8 DEF IndexFile, Becomes

\* What was read goes into memory as it is.
LEMMA GetFinishTogether ==
  ASSUME IInv, Together, NEW a \in Actors, GetFinish(a)
  PROVE  Together'
<1> DEFINE o == op[a]
<1>1. /\ o \in Op /\ o.at = "found" /\ o.kind = "get" /\ o.data \in Contents
      /\ o.name \in Names /\ o.file \in Names /\ Canon[o.file] = Canon[o.name]
      /\ PairRead(o)
  BY Given, Kept DEF GetFinish, Shape
<1>2. /\ UNCHANGED <<base, lock, disk, ext, resident>>
      /\ op' = [op EXCEPT ![a] = Idle]
  BY DEF GetFinish, modeVars, Becomes
<1>3. o.name \in Shared => o.file = o.name /\ Agrees(Item(o.data, o.etag))
  BY <1>1, SharedAlone DEF PairRead, Agrees, Item
<1>4. TierAgrees(ram')
  <2>1. ram' = ram \/ ram' = [ram EXCEPT ![o.name] = Item(o.data, o.etag)]
    BY DEF GetFinish
  <2> DEFINE item == Item(o.data, o.etag)
  <2>2. o.name \in Names /\ (o.name \in Shared => Agrees(item))
    BY <1>1, <1>3
  <2> HIDE DEF item
  <2>3. TierAgrees([ram EXCEPT ![o.name] = item])
    BY <2>2, Kept, AgreesSet
  <2> QED BY <2>1, <2>3, Kept DEF item
<1>5. TierAgrees(meta')
  <2>1. \/ meta' = meta
        \/ /\ o.file # o.name
           /\ meta' = [meta EXCEPT ![o.name] = Item(meta[o.file].data, o.etag)]
    BY DEF GetFinish
  <2> DEFINE item == Item(meta[o.file].data, o.etag)
  <2>2. CASE o.file # o.name
    <3>1. o.name \in Names /\ o.name \notin Shared
      BY <1>1, <1>3, <2>2
    <3> HIDE DEF item
    <3>2. TierAgrees([meta EXCEPT ![o.name] = item])
      BY <3>1, Kept, AgreesSet
    <3> QED BY <2>1, <3>2, Kept DEF item
  <2> QED BY <2>1, <2>2, Kept
<1>6. TierAgrees(resident')
  BY <1>2, Kept
<1> QED BY <1>1, <1>2, <1>4, <1>5, <1>6, NothingRead, QuietStep

LEMMA GetFailedTogether ==
  ASSUME IInv, Together, NEW a \in Actors, GetFailed(a)
  PROVE  Together'
<1> DEFINE o == op[a]
           q == [o EXCEPT !.at = "open", !.file = Alt[o.name], !.dir = base]
<1>1. /\ o \in Op /\ o.at = "failed"
      /\ UNCHANGED <<base, lock, disk, ext, meta, ram, resident>>
  BY Kept DEF GetFailed, modeVars
<1>2. TierAgrees(meta') /\ TierAgrees(ram') /\ TierAgrees(resident')
  BY <1>1, Kept
<1>3. CASE op' = [op EXCEPT ![a] = q]
  <2>1. q.at = "open"
    BY <1>1 DEF Op
  <2>2. PairRead(q) /\ q.at # "written"
    BY <2>1 DEF PairRead
  <2> QED BY <1>1, <1>2, <1>3, <2>2, QuietStep
<1>4. CASE op' = [op EXCEPT ![a] = Idle]
  BY <1>1, <1>2, <1>4, NothingRead, QuietStep
<1> QED BY <1>3, <1>4 DEF GetFailed, Becomes

LEMMA AnswerTogether ==
  ASSUME IInv, Together, NEW a \in Actors, HasFinish(a) \/ BoostFinish(a)
  PROVE  Together'
<1> DEFINE o == op[a]
<1>1. /\ o \in Op /\ o.at \in {"found", "failed"} /\ o.name \in Names /\ o.file \in Names
      /\ Canon[o.file] = Canon[o.name] /\ PairRead(o)
      /\ o.at = "found" /\ o.kind = "boost" => o.data \in Contents
  BY Given, Kept DEF HasFinish, BoostFinish, Shape
<1>2. /\ UNCHANGED <<base, lock, disk, ext, ram>> /\ op' = [op EXCEPT ![a] = Idle]
  BY DEF HasFinish, BoostFinish, modeVars, Becomes
<1>3. TierAgrees(ram')
  BY <1>2, Kept
<1>4. TierAgrees(meta')
  <2>1. meta' = meta \/ meta' = [meta EXCEPT ![o.name] = NoItem]
    BY DEF HasFinish, BoostFinish
  <2> QED BY <1>1, <2>1, Kept, AgreesDrop
<1>5. TierAgrees(resident')
  <2>1. \/ resident' = resident
        \/ /\ o.at = "found" /\ o.kind = "boost"
           /\ resident' = [resident EXCEPT ![o.name] = Item(o.data, o.etag)]
    BY DEF HasFinish, BoostFinish
  <2>2. CASE /\ o.at = "found" /\ o.kind = "boost"
             /\ resident' = [resident EXCEPT ![o.name] = Item(o.data, o.etag)]
    <3>1. o.name \in Shared => Agrees(Item(o.data, o.etag))
      BY <1>1, <2>2, SharedAlone DEF PairRead, Agrees, Item
    <3> QED BY <1>1, <2>2, <3>1, Kept, AgreesSet
  <2> QED BY <2>1, <2>2, Kept
<1> QED BY <1>1, <1>2, <1>3, <1>4, <1>5, NothingRead, QuietStep

\* A payload that is handed in is served under its own ETag.
LEMMA SaveRAMTogether ==
  ASSUME IInv, Together, NEW a \in Actors, NEW n \in Names, NEW c \in Contents,
         NEW at \in {"queue", "persist"}, SaveRAM(a, n, c, at)
  PROVE  Together'
<1> DEFINE s == Start("save", at, n)
           q == [s EXCEPT !.data = c]
           gone == Cleared(ram, Aliases(n) \ {n})
<1>1. /\ op[a] = Idle /\ op' = [op EXCEPT ![a] = q]
      /\ UNCHANGED <<base, lock, disk, ext, meta>>
      /\ resident' = Cleared(resident, Aliases(n))
      /\ ram' = gone \/ ram' = [gone EXCEPT ![n] = Item(c, c)]
  BY DEF SaveRAM, modeVars, Becomes
<1>2. q.at = at
  BY DEF Start, Idle
<1>3. PairRead(q) /\ q.at # "written"
  BY <1>2 DEF PairRead
<1>4. gone \in [Names -> Items] /\ TierAgrees(gone)
  <2>1. gone \in [Names -> Items]
    BY Kept, NoItemType DEF Cleared
  <2> QED BY <2>1, Kept, AgreesCleared
<1>5. TierAgrees(ram')
  <2> HIDE DEF gone
  <2> QED BY <1>1, <1>4, AgreesItem, AgreesSet
<1>6. TierAgrees(resident') /\ TierAgrees(meta')
  BY <1>1, Kept, AgreesCleared
<1> QED BY <1>1, <1>3, <1>5, <1>6, NothingRead, QuietStep

\* Steps that only move an operation on, or end it.
LEMMA MoveTogether ==
  ASSUME IInv, Together, NEW a \in Actors,
         \/ EnqueuePersist(a) \/ TakeTask(a) \/ PersistBegin(a) \/ DiscardTemp(a)
         \/ \E n \in Names, c \in Contents : CreateTemp(a, n, c)
  PROVE  Together'
<1>1. /\ UNCHANGED <<base, lock, disk, ext, ram, resident>> /\ op[a].at # "written"
      /\ op[a] \in Op
      /\ meta' = meta \/ (meta' = [meta EXCEPT ![op[a].name] = NoItem] /\ op[a].name \in Names)
  <2>1. op[a] \in Op /\ Shape(op[a]) /\ Idle.at = "idle"
    BY Given DEF Idle
  <2>2. CASE EnqueuePersist(a) \/ TakeTask(a)
    BY <2>1, <2>2 DEF EnqueuePersist, TakeTask, modeVars, tierVars
  <2>3. CASE DiscardTemp(a) \/ \E n \in Names, c \in Contents : CreateTemp(a, n, c)
    BY <2>1, <2>3 DEF DiscardTemp, CreateTemp, modeVars, tierVars
  <2>4. CASE PersistBegin(a)
    <3>1. op[a].at = "persist" /\ op[a].name \in Names
      BY <2>1, <2>4 DEF PersistBegin, Shape
    <3> QED BY <2>1, <2>4, <3>1 DEF PersistBegin, modeVars
  <2> QED BY <2>2, <2>3, <2>4
<1>2. TierAgrees(meta') /\ TierAgrees(ram') /\ TierAgrees(resident')
  BY <1>1, Kept, AgreesDrop
<1>3. PICK q : op' = [op EXCEPT ![a] = q] /\ q.at \in {"idle", "persist", "rename", "temp"}
  <2>1. Idle.at = "idle"
    BY DEF Idle
  <2>2. CASE EnqueuePersist(a) \/ DiscardTemp(a)
    BY <2>1, <2>2 DEF EnqueuePersist, DiscardTemp, Becomes
  <2>3. CASE TakeTask(a)
    <3> DEFINE t == Head(queue)
               q == [Idle EXCEPT !.at = "persist", !.kind = "save",
                       !.name = t.name, !.file = t.name, !.dir = t.dir,
                       !.live = t.live, !.data = t.data]
    <3>1. op' = [op EXCEPT ![a] = q]
      BY <2>3 DEF TakeTask, Becomes
    <3>2. q.at = "persist"
      BY DEF Idle
    <3> QED BY <3>1, <3>2
  <2>4. CASE PersistBegin(a)
    <3>1. [op[a] EXCEPT !.at = "rename"].at = "rename"
      BY <1>1 DEF Op
    <3> QED BY <2>1, <2>4, <3>1 DEF PersistBegin, Becomes
  <2>5. CASE \E n \in Names, c \in Contents : CreateTemp(a, n, c)
    <3>1. PICK n \in Names, c \in Contents : CreateTemp(a, n, c)
      BY <2>5
    <3>2. op' = [op EXCEPT ![a] = [Start("temp", "temp", n) EXCEPT !.data = c]]
      BY <3>1 DEF CreateTemp, Becomes
    <3>3. [Start("temp", "temp", n) EXCEPT !.data = c].at = "temp"
      BY DEF Start, Idle
    <3> QED BY <3>2, <3>3
  <2> QED BY <2>2, <2>3, <2>4, <2>5
<1>4. PairRead(q) /\ q.at # "written"
  BY <1>3 DEF PairRead
<1> QED BY <1>1, <1>2, <1>3, <1>4, QuietStep

\* The lock is taken with the renaming: from here to the metadata nobody reads
\* the file.
LEMMA RenameTogether ==
  ASSUME IInv, Together, NEW a \in Actors, PersistRename(a) \/ CommitRename(a)
  PROVE  Together'
<1> DEFINE o == op[a]
           q == [o EXCEPT !.at = "written"]
           k == Canon[o.name]
<1>1. /\ o \in Op /\ o.at \in {"rename", "temp"} /\ o.name \in Names /\ o.dir \in Bases
      /\ Free(o.name) /\ (o.live => o.dir = base) /\ k \in CacheKeys
  BY Given, CanonInKeys DEF PersistRename, CommitRename, Shape, Fresh, Op, Writing
<1>2. UNCHANGED <<base, ext, ram, resident>>
  BY DEF PersistRename, CommitRename, modeVars
<1>3. TierAgrees(ram') /\ TierAgrees(resident') /\ TierAgrees(meta)
  BY <1>2, Kept
<1>4. CASE /\ o.live /\ disk' = [disk EXCEPT ![o.dir][o.name] = o.data]
           /\ lock' = [lock EXCEPT ![k] = a] /\ op' = [op EXCEPT ![a] = q]
           /\ UNCHANGED meta
  <2>1. /\ op' = [op EXCEPT ![a] = q] /\ q.at = "written" /\ q.name = o.name
        /\ q.file = o.file /\ q.dir = o.dir /\ q.data = o.data
    BY <1>1, <1>4 DEF Op
  <2>2. /\ op'[a] = q /\ lock'[k] = a /\ a # None /\ lock[k] = None /\ o.dir = base
        /\ disk'[o.dir][o.name] = o.data
        /\ \A c \in Actors : c # a => op'[c] = op[c]
        /\ \A j \in CacheKeys : j # k => lock'[j] = lock[j]
        /\ \A b \in Bases, n \in Names :
             b # o.dir \/ n # o.name => disk'[b][n] = disk[b][n]
    BY <1>1, <1>4, Kept, ActorAssumption DEF Actors, Free
  <2> HIDE DEF q, o, k
  <2>3. RecordsAgree'
    BY <1>2, <1>3, <1>4, Kept DEF RecordsAgree
  <2>4. FilesPaired'
    <3> SUFFICES ASSUME NEW b \in Bases, NEW n \in Shared,
                        disk'[b][n] \in Contents, ext[b][n] # NoItem
                 PROVE  ext[b][n].data = disk'[b][n] \/ (b = base /\ lock'[Canon[n]] # None)
      BY <1>2 DEF FilesPaired, Free
    <3>1. n \in Names /\ Canon[n] \in CacheKeys
      BY Kept, CanonInKeys
    <3>2. CASE b = o.dir /\ n = o.name
      BY <2>2, <3>2 DEF k
    <3>3. CASE ~(b = o.dir /\ n = o.name)
      <4>1. ext[b][n].data = disk[b][n] \/ (b = base /\ lock[Canon[n]] # None)
        BY <2>2, <3>1, <3>3, Kept DEF FilesPaired, Free
      <4>2. lock[Canon[n]] # None => lock'[Canon[n]] # None
        BY <2>2, <3>1
      <4> QED BY <2>2, <3>1, <3>3, <4>1, <4>2
    <3> QED BY <3>2, <3>3
  <2>5. LocksHeld'
    <3> SUFFICES ASSUME NEW j \in CacheKeys, lock'[j] # None
                 PROVE  op'[lock'[j]].at = "written" /\ Canon[op'[lock'[j]].name] = j
      BY DEF LocksHeld
    <3>1. CASE j = k
      BY <2>1, <2>2, <3>1 DEF k
    <3>2. CASE j # k
      <4>1. lock'[j] = lock[j] /\ lock[j] \in Actors
        BY <2>2, <3>2, Kept
      <4>2. op[lock[j]].at = "written" /\ Canon[op[lock[j]].name] = j
        BY <4>1, Kept DEF LocksHeld
      <4>3. lock[j] # a
        BY <1>1, <4>2 DEF o
      <4> QED BY <2>2, <4>1, <4>2, <4>3
    <3> QED BY <3>1, <3>2
  <2>6. ASSUME NEW c \in Actors PROVE PairRead(op'[c]) /\ WrittenThere(op[c])'
    <3>1. CASE c = a
      BY <2>1, <2>2, <3>1 DEF PairRead, WrittenThere
    <3>2. CASE c # a
      <4>1. /\ op'[c] = op[c] /\ PairRead(op[c]) /\ WrittenThere(op[c])
            /\ op[c] \in Op /\ Locked(c)
        BY <2>2, <3>2, Kept
      <4>2. op[c].at = "written" /\ op[c].name \in Shared => op[c].name # o.name
        BY <2>2, <3>2, <4>1, ActorAssumption DEF Locked, k, Actors
      <4>3. op[c].dir \in Bases
        BY <4>1 DEF Op
      <4>4. WrittenThere(op[c])'
        BY <2>2, <4>1, <4>2, <4>3, Kept DEF WrittenThere
      <4> QED BY <4>1, <4>4
    <3> QED BY <3>1, <3>2
  <2> QED BY <2>3, <2>4, <2>5, <2>6 DEF Together, PairRead
<1>5. CASE /\ meta' = [meta EXCEPT ![o.name] = NoItem] \/ UNCHANGED meta
           /\ op' = [op EXCEPT ![a] = Idle] /\ UNCHANGED <<disk, lock>>
  <2>1. TierAgrees(meta')
    BY <1>1, <1>5, Kept, AgreesDrop
  <2> QED BY <1>1, <1>2, <1>3, <1>5, <2>1, NothingRead, QuietStep
<1> QED BY <1>4, <1>5 DEF PersistRename, CommitRename, Becomes, Accepts

\* It is given back with metadata that belong to the file, or without the file.
LEMMA MetadataTogether ==
  ASSUME IInv, Together, NEW a \in Actors, PersistMetadata(a) \/ CommitMetadata(a)
  PROVE  Together'
<1> DEFINE o == op[a]
           k == Canon[o.name]
<1>1. /\ o \in Op /\ o.at = "written" /\ o.name \in Names /\ o.dir \in Bases
      /\ o.dir = base /\ lock[k] = a /\ k \in CacheKeys /\ WrittenThere(o)
      /\ o.data \in Contents
  BY Given, Kept, CanonInKeys
     DEF PersistMetadata, CommitMetadata, Shape, Locked, Op, Writing
<1>2. /\ UNCHANGED base /\ op' = [op EXCEPT ![a] = Idle]
      /\ lock' = [lock EXCEPT ![k] = None]
      /\ RecordWritten(o) \/ RecordRefused(o)
      /\ ram' = ram \/ ram' = Cleared(ram, Aliases(o.name))
      /\ resident' = resident \/ resident' = Cleared(resident, Aliases(o.name))
  BY DEF PersistMetadata, CommitMetadata, modeVars, Becomes
<1>3. TierAgrees(ram') /\ TierAgrees(resident')
  BY <1>2, Kept, AgreesCleared
<1>4. /\ op'[a] = Idle /\ \A c \in Actors : c # a => op'[c] = op[c]
      /\ lock'[k] = None /\ \A j \in CacheKeys : j # k => lock'[j] = lock[j]
  BY <1>1, <1>2, Kept
<1>5. TierAgrees(meta')
  BY <1>1, <1>2, Kept, AgreesDrop, AgreesItem, AgreesSet DEF RecordWritten, RecordRefused
<1>6. ASSUME NEW b \in Bases PROVE TierAgrees(ext'[b])
  <2>1. \/ ext'[b] = ext[b]
        \/ ext'[b] = [ext[b] EXCEPT ![o.name] = Item(o.data, o.data)]
        \/ ext'[b] = [ext[b] EXCEPT ![o.name] = NoItem]
    BY <1>1, <1>2, Kept DEF RecordWritten, RecordRefused
  <2>2. ext[b] \in [Names -> Items] /\ TierAgrees(ext[b])
    BY Kept
  <2> QED BY <1>1, <2>1, <2>2, AgreesDrop, AgreesItem, AgreesSet
<1>7. /\ \A b \in Bases, n \in Names :
            b # o.dir \/ n # o.name => disk'[b][n] = disk[b][n] /\ ext'[b][n] = ext[b][n]
      /\ \/ disk'[o.dir][o.name] = None
         \/ /\ disk'[o.dir][o.name] = disk[o.dir][o.name]
            /\ o.name \in Shared => ext'[o.dir][o.name].data = o.data
  <2>1. CASE RecordWritten(o)
    <3>1. disk' = disk
      BY <2>1 DEF RecordWritten
    <3>2. \/ ext' = [ext EXCEPT ![o.dir][o.name] = Item(o.data, o.data)]
          \/ ext' = ext /\ o.name \notin Shared
      BY <2>1 DEF RecordWritten
    <3>3. Item(o.data, o.data).data = o.data
      BY DEF Item
    <3> HIDE DEF o
    <3> QED BY <1>1, <3>1, <3>2, <3>3, Kept
  <2>2. CASE RecordRefused(o)
    BY <1>1, <2>2, Kept DEF RecordRefused
  <2> QED BY <1>2, <2>1, <2>2
<1> HIDE DEF o, k
<1>8. FilesPaired'
  <2> SUFFICES ASSUME NEW b \in Bases, NEW n \in Shared,
                      disk'[b][n] \in Contents, ext'[b][n] # NoItem
               PROVE  ext'[b][n].data = disk'[b][n] \/ (b = base /\ lock'[Canon[n]] # None)
    BY <1>2 DEF FilesPaired, Free
  <2>1. n \in Names /\ Canon[n] \in CacheKeys
    BY Kept, CanonInKeys
  <2>2. CASE b = o.dir /\ n = o.name
    <3>1. disk'[b][n] = disk[b][n] /\ ext'[b][n].data = o.data
      BY <1>7, <2>2, PayloadAssumption
    <3>2. disk[b][n] \in {o.data, None, Corrupt}
      BY <1>1, <2>2 DEF WrittenThere
    <3> QED BY <3>1, <3>2, PayloadAssumption
  <2>3. CASE ~(b = o.dir /\ n = o.name)
    <3>1. disk'[b][n] = disk[b][n] /\ ext'[b][n] = ext[b][n]
      BY <1>7, <2>1, <2>3
    <3>2. ext[b][n].data = disk[b][n] \/ (b = base /\ lock[Canon[n]] # None)
      BY <3>1, Kept DEF FilesPaired, Free
    <3>3. b = base => Canon[n] # k
      BY <1>1, <2>3, SharedAlone DEF k
    <3> QED BY <1>4, <2>1, <3>1, <3>2, <3>3
  <2> QED BY <2>2, <2>3
<1>9. LocksHeld'
  <2> SUFFICES ASSUME NEW j \in CacheKeys, lock'[j] # None
               PROVE  op'[lock'[j]].at = "written" /\ Canon[op'[lock'[j]].name] = j
    BY DEF LocksHeld
  <2>1. j # k /\ lock'[j] = lock[j] /\ lock[j] \in Actors
    BY <1>4, Kept
  <2>2. op[lock[j]].at = "written" /\ Canon[op[lock[j]].name] = j
    BY <2>1, Kept DEF LocksHeld
  <2>3. lock[j] # a
    BY <2>1, <2>2 DEF k, o
  <2> QED BY <1>4, <2>1, <2>2, <2>3
<1>10. ASSUME NEW c \in Actors PROVE PairRead(op'[c]) /\ WrittenThere(op[c])'
  <2>1. CASE c = a
    BY <1>4, <2>1, NothingRead DEF WrittenThere
  <2>2. CASE c # a
    <3>1. /\ op'[c] = op[c] /\ PairRead(op[c]) /\ WrittenThere(op[c])
          /\ op[c] \in Op /\ Locked(c)
      BY <1>4, <2>2, Kept
    <3>2. op[c].at = "written" /\ op[c].name \in Shared => op[c].name # o.name
      BY <1>1, <2>2, <3>1 DEF Locked, k
    <3>3. op[c].dir \in Bases
      BY <3>1 DEF Op
    <3>4. WrittenThere(op[c])'
      BY <1>7, <3>1, <3>2, <3>3, Kept DEF WrittenThere
    <3> QED BY <3>1, <3>4
  <2> QED BY <2>1, <2>2
<1> QED BY <1>3, <1>5, <1>6, <1>8, <1>9, <1>10 DEF Together, RecordsAgree, PairRead

\* Steps that change every operation leave what it has read.
LEMMA EverybodyStep ==
  ASSUME IInv, Together, UNCHANGED lock,
         \A c \in Actors :
           /\ op'[c].at = op[c].at /\ op'[c].kind = op[c].kind /\ op'[c].name = op[c].name
           /\ op'[c].file = op[c].file /\ op'[c].dir = op[c].dir
           /\ op'[c].data = op[c].data /\ op'[c].etag = op[c].etag,
         RecordsAgree', FilesPaired',
         \A b \in Bases, n \in Shared : disk'[b][n] \in {disk[b][n], None, Corrupt}
  PROVE  Together'
<1>1. LocksHeld'
  <2> SUFFICES ASSUME NEW k \in CacheKeys, lock[k] # None
               PROVE  op'[lock[k]].at = "written" /\ Canon[op'[lock[k]].name] = k
    BY DEF LocksHeld
  <2> QED BY Kept DEF LocksHeld
<1>2. ASSUME NEW c \in Actors PROVE PairRead(op'[c]) /\ WrittenThere(op[c])'
  <2>1. PairRead(op[c]) /\ WrittenThere(op[c]) /\ op[c] \in Op
    BY Kept
  <2>2. op[c].dir \in Bases
    BY <2>1 DEF Op
  <2>3. PairRead(op'[c])
    BY <2>1 DEF PairRead
  <2>4. WrittenThere(op[c])'
    BY <2>1, <2>2 DEF WrittenThere
  <2> QED BY <2>3, <2>4
<1> QED BY <1>1, <1>2 DEF Together, PairRead

\* An invalidation removes a file with its .ext.
LEMMA InvalidateTogether ==
  ASSUME IInv, Together, NEW n \in Names, Invalidate(n)
  PROVE  Together'
<1>1. /\ UNCHANGED <<base, lock>>
      /\ meta' = Cleared(meta, Removed(n)) /\ ram' = Cleared(ram, Removed(n))
      /\ resident' = Cleared(resident, Removed(n))
      /\ ext' = [ext EXCEPT ![base] = Cleared(ext[base], Removed(n))]
      /\ disk' = [disk EXCEPT ![base] = [m \in Names |->
                    IF m \in Removed(n) THEN None ELSE disk[base][m]]]
      /\ op' = [a \in Actors |->
                  IF op[a].name \in Names /\ Canon[op[a].name] \in {Canon[n]}
                    THEN [op[a] EXCEPT !.live = FALSE] ELSE op[a]]
  BY DEF Invalidate, modeVars, RevokeKeys
<1>2. ASSUME NEW c \in Actors
      PROVE  /\ op'[c].at = op[c].at /\ op'[c].kind = op[c].kind /\ op'[c].name = op[c].name
             /\ op'[c].file = op[c].file /\ op'[c].dir = op[c].dir
             /\ op'[c].data = op[c].data /\ op'[c].etag = op[c].etag
  <2>1. op[c] \in Op
    BY Kept
  <2>2. op'[c] = op[c] \/ op'[c] = [op[c] EXCEPT !.live = FALSE]
    BY <1>1
  <2> QED BY <2>1, <2>2 DEF Op
<1>3. ASSUME NEW b \in Bases PROVE TierAgrees(ext'[b])
  <2>1. ext'[b] = ext[b] \/ ext'[b] = Cleared(ext[b], Removed(n))
    BY <1>1, Kept
  <2> QED BY <2>1, Kept, AgreesCleared
<1>4. RecordsAgree'
  BY <1>1, <1>3, Kept, AgreesCleared DEF RecordsAgree
<1>5. ASSUME NEW b \in Bases, NEW m \in Shared
      PROVE  \/ disk'[b][m] = None
             \/ disk'[b][m] = disk[b][m] /\ ext'[b][m] = ext[b][m]
  <2>1. CASE b = base
    <3>1. disk'[b] = [j \in Names |-> IF j \in Removed(n) THEN None ELSE disk[base][j]]
      BY <1>1, <2>1, Kept
    <3>2. ext'[b] = Cleared(ext[base], Removed(n))
      BY <1>1, <2>1, Kept
    <3> QED BY <2>1, <3>1, <3>2, Kept DEF Cleared
  <2>2. CASE b # base
    BY <1>1, <2>2, Kept
  <2> QED BY <2>1, <2>2
<1>6. FilesPaired'
  <2> SUFFICES ASSUME NEW b \in Bases, NEW m \in Shared,
                      disk'[b][m] \in Contents, ext'[b][m] # NoItem
               PROVE  ext'[b][m].data = disk'[b][m] \/ (b = base' /\ ~Free(m)')
    BY DEF FilesPaired
  <2>1. disk'[b][m] = disk[b][m] /\ ext'[b][m] = ext[b][m]
    BY <1>5, PayloadAssumption
  <2>2. ext[b][m].data = disk[b][m] \/ (b = base /\ ~Free(m))
    BY <2>1, Kept DEF FilesPaired
  <2>3. base' = base /\ lock' = lock
    BY <1>1
  <2> QED BY <2>1, <2>2, <2>3 DEF Free
<1>7. /\ UNCHANGED lock
      /\ \A b \in Bases, m \in Shared : disk'[b][m] \in {disk[b][m], None, Corrupt}
  BY <1>1, <1>5
<1> QED BY <1>2, <1>4, <1>6, <1>7, EverybodyStep

\* So do a clear and a change of directory, while nobody holds a lock.
LEMMA ClearedTogether ==
  ASSUME IInv, Together, ClearAll \/ \E b \in Bases : SetCacheBase(b)
  PROVE  Together'
<1>1. /\ UNCHANGED lock /\ PersistMuFree /\ base' \in Bases
      /\ MemoryCleared /\ AllRevoked
  BY Kept DEF ClearAll, SetCacheBase
<1>2. \A k \in CacheKeys : lock[k] = None
  BY <1>1, Kept DEF PersistMuFree, LocksHeld
<1>3. ASSUME NEW c \in Actors
      PROVE  /\ op'[c].at = op[c].at /\ op'[c].kind = op[c].kind /\ op'[c].name = op[c].name
             /\ op'[c].file = op[c].file /\ op'[c].dir = op[c].dir
             /\ op'[c].data = op[c].data /\ op'[c].etag = op[c].etag
  <2> DEFINE dead == [op[c] EXCEPT !.live = FALSE]
  <2>1. op[c] \in Op /\ dead \in Op
    BY Kept DEF Op
  <2>2. op'[c] = dead \/ op'[c] = [dead EXCEPT !.pool = FALSE]
    BY <1>1 DEF AllRevoked, StopBoost
  <2> QED BY <2>1, <2>2 DEF Op
<1>4. ASSUME NEW b \in Bases, NEW m \in Shared
      PROVE  \/ disk'[b][m] = None /\ ext'[b][m] = NoItem
             \/ disk'[b][m] = disk[b][m] /\ ext'[b][m] = ext[b][m]
  BY Kept DEF ClearAll, SetCacheBase
<1>5. RecordsAgree'
  <2>1. TierAgrees(meta') /\ TierAgrees(ram') /\ TierAgrees(resident')
    BY <1>1, AgreesEmpty DEF MemoryCleared
  <2>2. \A b \in Bases : TierAgrees(ext'[b])
    BY <1>4, Kept, AgreesNoItem DEF TierAgrees
  <2> QED BY <2>1, <2>2 DEF RecordsAgree
<1>6. FilesPaired'
  <2>1. \A m \in Shared : lock[Canon[m]] = None
    BY <1>2, Kept, CanonInKeys
  <2> QED BY <1>1, <1>4, <2>1, Kept, PayloadAssumption DEF FilesPaired, Free
<1> QED BY <1>1, <1>3, <1>4, <1>5, <1>6, EverybodyStep

\* The switches, the eviction and the damage of a file.
LEMMA SwitchTogether ==
  ASSUME IInv, Together,
         \/ \E on \in BOOLEAN : SetRAMEnabled(on)
         \/ EnableBoost \/ DisableBoost
         \/ \E n \in Names : EvictRAM(n) \/ DamageFile(n)
  PROVE  Together'
<1>1. /\ UNCHANGED <<base, lock, ext, meta>>
      /\ op' = op \/ op' = StopBoost(op)
      /\ ram' = ram \/ ram' = [n \in Names |-> NoItem]
         \/ \E n \in Names : ram' = [ram EXCEPT ![n] = NoItem]
      /\ resident' = resident \/ resident' = [n \in Names |-> NoItem]
      /\ disk' = disk \/ \E n \in Names : disk' = [disk EXCEPT ![base][n] = Corrupt]
  BY DEF SetRAMEnabled, EnableBoost, DisableBoost, EvictRAM, DamageFile, modeVars
<1>2. RecordsAgree'
  <2>1. TierAgrees(ram')
    <3>1. CASE ram' = ram
      BY <3>1, Kept
    <3>2. CASE ram' = [n \in Names |-> NoItem]
      BY <3>2, AgreesEmpty
    <3>3. ASSUME NEW n \in Names, ram' = [ram EXCEPT ![n] = NoItem] PROVE TierAgrees(ram')
      <4>1. TierAgrees([ram EXCEPT ![n] = NoItem])
        BY Kept, AgreesDrop
      <4> QED BY <3>3, <4>1
    <3> QED BY <1>1, <3>1, <3>2, <3>3
  <2>2. TierAgrees(resident')
    BY <1>1, Kept, AgreesEmpty
  <2>3. meta' = meta /\ ext' = ext
    BY <1>1
  <2>4. TierAgrees(meta') /\ \A b \in Bases : TierAgrees(ext'[b])
    BY <2>3, Kept
  <2> QED BY <2>1, <2>2, <2>4 DEF RecordsAgree
<1>3. \A b \in Bases, n \in Shared : disk'[b][n] \in {disk[b][n], Corrupt}
  BY <1>1, Kept
<1>4. FilesPaired'
  BY <1>1, <1>3, Kept, PayloadAssumption DEF FilesPaired, Free
<1>5. ASSUME NEW c \in Actors
      PROVE  /\ op'[c].at = op[c].at /\ op'[c].kind = op[c].kind /\ op'[c].name = op[c].name
             /\ op'[c].file = op[c].file /\ op'[c].dir = op[c].dir
             /\ op'[c].data = op[c].data /\ op'[c].etag = op[c].etag
  BY <1>1, Kept, StopBoostFine
<1> QED BY <1>1, <1>2, <1>3, <1>4, <1>5, EverybodyStep

\* The cache finds files that it wrote, each with its .ext or without one.
LEMMA InitTogether == Init => Together
<1> SUFFICES ASSUME Init PROVE Together
  OBVIOUS
<1>1. /\ TierAgrees(meta) /\ TierAgrees(ram) /\ TierAgrees(resident)
  BY AgreesEmpty DEF Init
<1>2. ASSUME NEW b \in Bases, NEW n \in Shared
      PROVE  \/ ext[b][n] = NoItem
             \/ ext[b][n] = Item(disk[b][n], disk[b][n])
  BY NameAssumption DEF Init, Found
<1>3. \A b \in Bases : TierAgrees(ext[b])
  BY <1>2, AgreesNoItem, AgreesItem DEF TierAgrees
<1>4. FilesPaired
  <2> SUFFICES ASSUME NEW b \in Bases, NEW n \in Shared, ext[b][n] # NoItem
               PROVE  ext[b][n].data = disk[b][n]
    BY DEF FilesPaired
  <2>1. ext[b][n] = Item(disk[b][n], disk[b][n])
    BY <1>2
  <2> QED BY <2>1 DEF Item
<1>5. LocksHeld
  BY DEF Init, LocksHeld
<1>6. \A a \in Actors : PairRead(op[a]) /\ WrittenThere(op[a])
  BY NothingRead DEF Init, WrittenThere
<1> QED BY <1>1, <1>3, <1>4, <1>5, <1>6 DEF Together, RecordsAgree

LEMMA AliveTogether ==
  ASSUME IInv, Together, [Alive]_vars
  PROVE  Together'
<1>1. ASSUME NEW a \in Clients, Read(a) \/ Prewarm(a) \/ Save(a) \/ Stream(a)
      PROVE  Together'
  <2>1. a \in Actors
    BY DEF Actors
  <2>2. CASE Read(a)
    BY <2>1, <2>2, LookupTogether, ProceedTogether, LoadFileTogether, LoadMetadataTogether,
       JudgeContentTogether, IndexFileTogether, GetFinishTogether, GetFailedTogether,
       AnswerTogether
    DEF Read
  <2>3. CASE Prewarm(a)
    BY <2>1, <2>3, LookupTogether, AnswerTogether DEF Prewarm
  <2>4. CASE Save(a)
    BY <2>1, <2>4, SaveRAMTogether, MoveTogether DEF Save
  <2>5. CASE Stream(a)
    BY <2>1, <2>5, MoveTogether, RenameTogether, MetadataTogether DEF Stream
  <2> QED BY <1>1, <2>2, <2>3, <2>4, <2>5
<1>2. ASSUME NEW w \in Workers, TakeTask(w) PROVE Together'
  BY <1>2, MoveTogether DEF Actors
<1>3. ASSUME NEW a \in Actors, Persist(a) PROVE Together'
  BY <1>3, MoveTogether, RenameTogether, MetadataTogether DEF Persist
<1>4. ASSUME Control \/ (\E n \in Names : DamageFile(n)) PROVE Together'
  BY <1>4, InvalidateTogether, SwitchTogether, ClearedTogether DEF Control
<1>5. CASE UNCHANGED vars
  BY <1>5 DEF vars, tierVars, modeVars, Together, RecordsAgree, TierAgrees, FilesPaired,
     Free, LocksHeld, PairRead, WrittenThere
<1> QED BY <1>1, <1>2, <1>3, <1>4, <1>5 DEF Alive

\* While the process lives, a name under hosts/ never has the bytes of one payload
\* served, indexed or recorded under the ETag of another, for any payloads and
\* directories, and whatever part of writing them fails.
THEOREM PairsAlwaysAgree == SpecAlive => []SharedPairsAgree
<1>1. Init => IInv /\ Together
  BY InitInv, InitTogether
<1>2. IInv /\ Together /\ [Alive]_vars => IInv' /\ Together'
  BY NextInv, AliveTogether DEF Next
<1>3. Together => SharedPairsAgree
  BY DEF Together, RecordsAgree, TierAgrees, SharedPairsAgree, Pairs, Tiers
<1> QED BY <1>1, <1>2, <1>3, PTL DEF SpecAlive
=============================================================================
