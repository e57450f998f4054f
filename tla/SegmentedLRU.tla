---------------------------- MODULE SegmentedLRU ----------------------------
(***************************************************************************)
(* One shard of the segmented LRU cache (engine/cache/lru.go): a           *)
(* probationary and a protected list, both with the most recent entry      *)
(* first, the byte counters that the code keeps beside them, and the       *)
(* counter of the whole cache.  An entry is a key and a size.              *)
(*                                                                         *)
(* A shard is a record, so that a module which has one as a part of its    *)
(* state applies these operators to it.  A capacity of 0 is the code's     *)
(* "no limit": nothing is evicted then.                                    *)
(***************************************************************************)
EXTENDS Integers, SequencesExt

\* The bytes of a list of entries.
Sums(list) ==
  LET sum[i \in 0 .. Len(list)] == IF i = 0 THEN 0 ELSE sum[i - 1] + list[i].size
  IN sum
Bytes(list) == Sums(list)[Len(list)]

\* 25% of the capacity are meant for the probationary list (calcCapacities).
ProbMax(m) == IF m = 0 THEN 0 ELSE Max({m \div 4, 1})
ProtMax(m) == m - ProbMax(m)

Empty(m) == [prob |-> <<>>, prot |-> <<>>, probBytes |-> 0, protBytes |-> 0,
             max |-> m, total |-> 0]

Used(s) == s.probBytes + s.protBytes
Has(list, k) == \E i \in DOMAIN list : list[i].key = k
\* Faulty variant: the entry is not unlinked.
Linked(list, k) == list
Place(list, k) == CHOOSE i \in DOMAIN list : list[i].key = k
Without(list, k) == IF Has(list, k) THEN RemoveAt(list, Place(list, k)) ELSE list
SizeIn(list, k) == IF Has(list, k) THEN list[Place(list, k)].size ELSE 0
Entry(k, size) == [key |-> k, size |-> size]

\* How many entries of a list stay when its tail is popped until what is used
\* is no more than there is room for.
Kept(list, used, room) ==
  LET fits == {k \in 0 .. Len(list) :
                 used <= room + Bytes(SubSeq(list, k + 1, Len(list)))}
  IN IF fits = {} THEN 0 ELSE Max(fits)

\* demoteProtected: the tail of the protected list goes to the front of the
\* probationary one.
Demoted(s) ==
  IF ProtMax(s.max) = 0 THEN s
  ELSE LET k == Kept(s.prot, s.protBytes, ProtMax(s.max))
           out == SubSeq(s.prot, k + 1, Len(s.prot))
       IN [s EXCEPT !.prot = SubSeq(s.prot, 1, k), !.protBytes = @ - Bytes(out),
                    !.prob = out \o @, !.probBytes = @ + Bytes(out)]

\* evictProbation: pop the probationary list, and only then the protected one.
ProbEvicted(s) ==
  LET k == Kept(s.prob, Used(s), s.max)
  IN [s EXCEPT !.prob = SubSeq(s.prob, 1, k),
               !.probBytes = @ - Bytes(SubSeq(s.prob, k + 1, Len(s.prob)))]
ProtEvicted(s) ==
  LET k == Kept(s.prot, Used(s), s.max)
  IN [s EXCEPT !.prot = SubSeq(s.prot, 1, k),
               !.protBytes = @ - Bytes(SubSeq(s.prot, k + 1, Len(s.prot)))]
\* Faulty variant: the protected list first.
EvictedReversed(s) == IF s.max = 0 THEN s ELSE ProbEvicted(ProtEvicted(s))
Evicted(s) == IF s.max = 0 THEN s ELSE ProtEvicted(ProbEvicted(s))

\* updateDelta: the counter of the cache follows the shard.
Settled(old, s) == [s EXCEPT !.total = (@ + Used(s)) - Used(old)]

\* setMaxBytes
Resized(s, m) == Settled(s, Evicted(Demoted([s EXCEPT !.max = m])))

\* Faulty variant: the bytes of a protected entry stay counted.
Unlinked(s, k) == [s EXCEPT !.prob = Without(@, k), !.prot = Without(@, k),
                            !.probBytes = @ - SizeIn(s.prob, k)]

\* Entry k leaves the list it is in, and so do its bytes.
Removed(s, k) == [s EXCEPT !.prob = Without(@, k), !.prot = Without(@, k),
                           !.probBytes = @ - SizeIn(s.prob, k),
                           !.protBytes = @ - SizeIn(s.prot, k)]

\* delete
Deleted(s, k) == [Removed(s, k) EXCEPT !.total = @ - (SizeIn(s.prob, k) + SizeIn(s.prot, k))]

\* get of a key that is there: the second access promotes it.
Touched(s, k) ==
  LET size == SizeIn(s.prob, k) + SizeIn(s.prot, k)
  IN IF Has(s.prot, k)
       THEN [s EXCEPT !.prot = <<Entry(k, size)>> \o Without(@, k)]
       ELSE Settled(s, Evicted(Demoted(
              [Removed(s, k) EXCEPT !.prot = <<Entry(k, size)>> \o @,
                                    !.protBytes = @ + size])))

\* set: an item larger than the whole shard only drops the entry it replaces.
Stored(s, k, size, protected) ==
  LET rest == Removed(s, k)
      item == <<Entry(k, size)>>
  IN Settled(s,
       IF s.max > 0 /\ size > s.max THEN rest
       ELSE IF protected \/ Has(s.prot, k)
         THEN Evicted(Demoted([rest EXCEPT !.prot = item \o @, !.protBytes = @ + size]))
         ELSE Evicted([rest EXCEPT !.prob = item \o @, !.probBytes = @ + size]))

\* clear
Cleared(s) == Empty(s.max)
=============================================================================
