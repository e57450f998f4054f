--------------------------- MODULE Tables_proofs ---------------------------
(***************************************************************************)
(* Proofs about the two tables of the cache that have a fixed size.        *)
(*                                                                         *)
(* The invalidation tokens: for any number of keys, shards and operations, *)
(* any placement of keys on shards and any ring size.                      *)
(*                                                                         *)
(* The memory (the segmented LRU cache, the pool and their budget): for    *)
(* any finite set of files, any sizes, any set of memory limits and any    *)
(* number of pool generations.                                             *)
(***************************************************************************)
EXTENDS OpToken, ResidentPool, FiniteSetTheorems, SequenceTheorems, TLAPS

-----------------------------------------------------------------------------
(***************************************************************************)
(* The inductive invariant.  A token of the current generation is not      *)
(* ahead of its shard (TokensBehind); a revoked one is caught by the map   *)
(* or, once the ring has forgotten, by minValidSeq (RevokedCaught).  For   *)
(* exactness: nothing else is recorded against a token that was not        *)
(* revoked, and minValidSeq passes a token only when the shard is more     *)
(* than RingSize invalidations ahead of it (FreshNotCaught).  The ring     *)
(* holds the last RingSize invalidations in order (RingInOrder), which is  *)
(* why the slot that is reused is RingSize behind.                         *)
(***************************************************************************)
TokensBehind ==
  \A op \in Ops : Holds(op) =>
    /\ token[op].gen \in 1 .. generation
    /\ token[op].gen = generation => token[op].seq <= seq[ShardOf[token[op].key]]

RevokedCaught ==
  \A op \in Ops : Holds(op) /\ revoked[op] /\ token[op].gen = generation =>
    \/ token[op].seq < minValidSeq[ShardOf[token[op].key]]
    \/ token[op].seq < invalidSeq[token[op].key]

FreshNotCaught ==
  \A op \in Ops : Holds(op) /\ ~revoked[op] =>
    /\ token[op].gen = generation
    /\ token[op].seq >= invalidSeq[token[op].key]
    /\ \/ token[op].seq >= minValidSeq[ShardOf[token[op].key]]
       \/ seq[ShardOf[token[op].key]] - token[op].seq > RingSize

\* How many slots before the newest entry slot i of shard s was written.
Age(s, i) == IF i < ringPos[s] THEN ringPos[s] - 1 - i
                               ELSE ringPos[s] - 1 - i + RingSize

RingInOrder ==
  \A s \in Shards, i \in Slots :
    ring[s][i].seq = 0 \/ ring[s][i].seq = seq[s] - Age(s, i)

\* A shard's ring only names keys of that shard.
RingOfShard ==
  \A s \in Shards, i \in Slots :
    ring[s][i].key \in Keys => ShardOf[ring[s][i].key] = s

MapBehind ==
  \A k \in Keys : invalidSeq[k] <= seq[ShardOf[k]]

MinBehind == \A s \in Shards : minValidSeq[s] <= seq[s]

IndInv == /\ TypeOK
          /\ TokensBehind
          /\ RevokedCaught
          /\ FreshNotCaught
          /\ RingInOrder
          /\ RingOfShard
          /\ MapBehind
          /\ MinBehind
          /\ MapBoundedByRing

-----------------------------------------------------------------------------
\* The next slot is the one after, or slot 0 after the last.
LEMMA NextPosWraps ==
  ASSUME NEW i \in Slots
  PROVE  /\ NextPos(i) \in Slots
         /\ NextPos(i) = IF i + 1 = RingSize THEN 0 ELSE i + 1
  BY RingAssumption DEF NextPos, Slots

\* Initially no token is held and nothing is recorded.
LEMMA InitIndInv == Init => IndInv
<1> SUFFICES ASSUME Init PROVE IndInv
  OBVIOUS
<1>1. TypeOK
  BY KeysAssumption, ShardAssumption, RingAssumption
  DEF Init, TypeOK, Tokens, Entries, NoToken, NoEntry, Slots
<1>2. \A op \in Ops : ~Holds(op)
  BY DEF Init, Holds, NoToken
<1>3. TokensBehind /\ RevokedCaught /\ FreshNotCaught
  BY <1>2 DEF TokensBehind, RevokedCaught, FreshNotCaught
<1>4. RingInOrder /\ RingOfShard
  BY KeysAssumption DEF Init, RingInOrder, RingOfShard, NoEntry
<1>5. MapBehind /\ MinBehind
  BY ShardAssumption DEF Init, MapBehind, MinBehind
<1>6. MapBoundedByRing
  BY DEF Init, MapBoundedByRing
<1> QED
  BY <1>1, <1>3, <1>4, <1>5, <1>6 DEF IndInv

-----------------------------------------------------------------------------
(***************************************************************************)
(* One lemma per action.                                                   *)
(***************************************************************************)
LEMMA AcquireKeepsIndInv ==
  ASSUME IndInv, NEW op \in Ops, NEW k \in Keys, AcquireOpToken(op, k)
  PROVE  IndInv'
<1> USE ShardAssumption, KeysAssumption, RingAssumption
<1> DEFINE t == [gen |-> generation, seq |-> seq[ShardOf[k]], key |-> k]
<1>1. /\ token' = [token EXCEPT ![op] = t]
      /\ revoked' = [revoked EXCEPT ![op] = FALSE]
      /\ verdict' = [verdict EXCEPT ![op] = "none"]
      /\ UNCHANGED <<generation, seq, minValidSeq, invalidSeq, ring, ringPos>>
  BY DEF AcquireOpToken, tableVars
<1>2. /\ t \in Tokens /\ t.seq = seq[ShardOf[k]] /\ t.key = k
      /\ t.gen = generation /\ t.gen \in 1 .. generation
  BY DEF IndInv, TypeOK, Tokens
<1>3. TypeOK'
  BY <1>1, <1>2 DEF IndInv, TypeOK
<1>4. token'[op] = t /\ ~revoked'[op]
  BY <1>1 DEF IndInv, TypeOK
<1>5. \A o \in Ops \ {op} : token'[o] = token[o] /\ revoked'[o] = revoked[o]
  BY <1>1 DEF IndInv, TypeOK
<1> HIDE DEF t
<1>6. TokensBehind'
  BY <1>1, <1>2, <1>4, <1>5 DEF IndInv, TypeOK, TokensBehind, Holds
<1>7. RevokedCaught'
  BY <1>1, <1>4, <1>5 DEF IndInv, RevokedCaught, Holds
<1>8. FreshNotCaught'
  <2>1. t.seq >= invalidSeq[t.key] /\ t.seq >= minValidSeq[ShardOf[t.key]]
    BY <1>2 DEF IndInv, TypeOK, MapBehind, MinBehind
  <2> QED
    BY <2>1, <1>1, <1>2, <1>4, <1>5 DEF IndInv, FreshNotCaught, Holds
<1>9. RingInOrder' /\ RingOfShard' /\ MapBehind' /\ MinBehind' /\ MapBoundedByRing'
  BY <1>1 DEF IndInv, RingInOrder, RingOfShard, Age, MapBehind, MinBehind, MapBoundedByRing
<1> QED
  BY <1>3, <1>6, <1>7, <1>8, <1>9 DEF IndInv

LEMMA ReleaseKeepsIndInv ==
  ASSUME IndInv, NEW op \in Ops, ReleaseToken(op)
  PROVE  IndInv'
<1>1. /\ token' = [token EXCEPT ![op] = NoToken]
      /\ revoked' = [revoked EXCEPT ![op] = FALSE]
      /\ verdict' = [verdict EXCEPT ![op] = "none"]
      /\ UNCHANGED <<generation, seq, minValidSeq, invalidSeq, ring, ringPos>>
  BY DEF ReleaseToken, tableVars
<1>2. TypeOK'
  BY <1>1 DEF IndInv, TypeOK, Tokens, NoToken
<1>3. ~Holds(op)'
  BY <1>1 DEF IndInv, TypeOK, Holds, NoToken
<1>4. \A o \in Ops \ {op} : token'[o] = token[o] /\ revoked'[o] = revoked[o]
  BY <1>1 DEF IndInv, TypeOK
<1>5. TokensBehind'
  BY <1>1, <1>3, <1>4 DEF IndInv, TokensBehind, Holds
<1>6. RevokedCaught'
  BY <1>1, <1>3, <1>4 DEF IndInv, RevokedCaught, Holds
<1>7. FreshNotCaught'
  BY <1>1, <1>3, <1>4 DEF IndInv, FreshNotCaught, Holds
<1>8. RingInOrder' /\ RingOfShard' /\ MapBehind' /\ MinBehind' /\ MapBoundedByRing'
  BY <1>1 DEF IndInv, RingInOrder, RingOfShard, Age, MapBehind, MinBehind, MapBoundedByRing
<1> QED
  BY <1>2, <1>5, <1>6, <1>7, <1>8 DEF IndInv

\* Checking a token, and stuttering, change nothing the invariant reads
\* except the verdict.
LEMMA CheckKeepsIndInv ==
  ASSUME IndInv, NEW op \in Ops, CheckToken(op)
  PROVE  IndInv'
<1>1. /\ verdict' \in [Ops -> {"none", "accepted", "refused"}]
      /\ UNCHANGED <<generation, seq, minValidSeq, invalidSeq, ring, ringPos,
                     token, revoked>>
  BY DEF CheckToken, tableVars, IndInv, TypeOK
<1> QED
  BY <1>1 DEF IndInv, TypeOK, TokensBehind, RevokedCaught, FreshNotCaught, Holds,
              RingInOrder, RingOfShard, Age, MapBehind, MinBehind, MapBoundedByRing

LEMMA ClearKeepsIndInv ==
  ASSUME IndInv, ClearTable
  PROVE  IndInv'
<1> USE ShardAssumption, KeysAssumption, RingAssumption
<1>1. /\ generation' = generation + 1
      /\ seq' = [s \in Shards |-> seq[s] + 1]
      /\ minValidSeq' = [s \in Shards |-> seq[s] + 1]
      /\ invalidSeq' = [k \in Keys |-> 0]
      /\ ring' = [s \in Shards |-> [i \in Slots |-> NoEntry]]
      /\ ringPos' = [s \in Shards |-> 0]
      /\ revoked' = [op \in Ops |-> revoked[op] \/ token[op].key \in Keys]
      /\ UNCHANGED <<token, verdict>>
  BY DEF ClearTable
<1>2. 0 \in Slots /\ NoEntry \in Entries
  BY DEF Slots, NoEntry, Entries
<1>3. TypeOK'
  BY <1>1, <1>2 DEF IndInv, TypeOK
<1>4. \A op \in Ops : Holds(op) => /\ token[op].gen \in 1 .. generation'
                                    /\ token[op].gen # generation'
  <2>1. generation \in Nat /\ generation' = generation + 1
    BY <1>1 DEF IndInv, TypeOK
  <2>2. \A op \in Ops : Holds(op) => token[op].gen \in 1 .. generation
    BY DEF IndInv, TokensBehind
  <2> QED
    BY <2>1, <2>2
<1>5. TokensBehind'
  BY <1>1, <1>4 DEF TokensBehind, Holds
<1>6. \A op \in Ops : Holds(op) => token[op].key \in Keys
  BY DEF IndInv, TypeOK, Tokens, Holds
<1>7. RevokedCaught' /\ FreshNotCaught'
  BY <1>1, <1>4, <1>6 DEF RevokedCaught, FreshNotCaught, Holds
<1>8. RingInOrder' /\ RingOfShard'
  BY <1>1 DEF RingInOrder, RingOfShard, NoEntry
<1>9. MapBehind' /\ MinBehind'
  BY <1>1 DEF IndInv, TypeOK, MapBehind, MinBehind
<1>10. MapBoundedByRing'
  BY <1>1 DEF MapBoundedByRing
<1> QED
  BY <1>3, <1>5, <1>7, <1>8, <1>9, <1>10 DEF IndInv

LEMMA BumpKeepsIndInv ==
  ASSUME IndInv, NEW k \in Keys, BumpInvalidateToken(k)
  PROVE  IndInv'
<1> USE ShardAssumption, KeysAssumption, RingAssumption
<1> DEFINE s == ShardOf[k]
           new == seq[s] + 1
           pos == ringPos[s]
           old == ring[s][pos]
           entry == [key |-> k, seq |-> new]
<1>1. /\ seq' = [seq EXCEPT ![s] = new]
      /\ minValidSeq' = [minValidSeq EXCEPT ![s] = MinAfterReuse(@, old)]
      /\ ring' = [ring EXCEPT ![s][pos] = entry]
      /\ ringPos' = [ringPos EXCEPT ![s] = NextPos(@)]
      /\ invalidSeq' = [MapAfterReuse(old) EXCEPT ![k] = new]
      /\ revoked' = [op \in Ops |-> revoked[op] \/ token[op].key = k]
      /\ UNCHANGED <<generation, token, verdict>>
  BY DEF BumpInvalidateToken
<1>2. /\ s \in Shards /\ pos \in Slots /\ old \in Entries /\ entry \in Entries
      /\ seq[s] \in Nat /\ new \in Nat /\ minValidSeq[s] \in Nat
      /\ old.seq \in Nat /\ old.key \in Keys \cup {NoKey}
  BY DEF IndInv, TypeOK, Entries
<1>3. /\ NextPos(pos) \in Slots
      /\ NextPos(pos) = IF pos + 1 = RingSize THEN 0 ELSE pos + 1
  BY <1>2, NextPosWraps
<1>4. /\ seq'[s] = new /\ ringPos'[s] = NextPos(pos)
      /\ minValidSeq'[s] = MinAfterReuse(minValidSeq[s], old)
      /\ ring'[s][pos] = entry
      /\ \A i \in Slots \ {pos} : ring'[s][i] = ring[s][i]
  BY <1>1, <1>2 DEF IndInv, TypeOK
<1>5. \A r \in Shards \ {s} : /\ seq'[r] = seq[r] /\ ringPos'[r] = ringPos[r]
                              /\ minValidSeq'[r] = minValidSeq[r]
                              /\ ring'[r] = ring[r]
  BY <1>1, <1>2 DEF IndInv, TypeOK
<1>6. /\ invalidSeq'[k] = new
      /\ \A j \in Keys \ {k} : invalidSeq'[j] =
            IF j = old.key /\ invalidSeq[j] = old.seq THEN 0 ELSE invalidSeq[j]
  BY <1>1 DEF MapAfterReuse
<1>7. /\ MinAfterReuse(minValidSeq[s], old) \in Nat
      /\ MinAfterReuse(minValidSeq[s], old) >= minValidSeq[s]
      /\ MinAfterReuse(minValidSeq[s], old) >= old.seq
      /\ MinAfterReuse(minValidSeq[s], old) \in {minValidSeq[s], old.seq}
  BY <1>2 DEF MinAfterReuse
\* The entry in the reused slot is the oldest one.
<1>8. old.seq = 0 \/ old.seq = new - RingSize
  BY <1>2 DEF IndInv, RingInOrder, Age, Slots
<1>9. \A op \in Ops : /\ token'[op] = token[op]
                      /\ revoked'[op] = (revoked[op] \/ token[op].key = k)
  BY <1>1
<1>10. \A op \in Ops : /\ token[op] \in Tokens /\ token[op].seq \in Nat
                       /\ Holds(op) => token[op].key \in Keys
  BY DEF IndInv, TypeOK, Tokens, Holds
<1> HIDE DEF s, new, pos, old, entry
<1>11. TypeOK'
  <2>1. seq' \in [Shards -> Nat] /\ ringPos' \in [Shards -> Slots]
    BY <1>1, <1>2, <1>3 DEF IndInv, TypeOK, pos
  <2>2. minValidSeq' \in [Shards -> Nat]
    BY <1>1, <1>2, <1>7 DEF IndInv, TypeOK
  <2>3. ring' \in [Shards -> [Slots -> Entries]]
    BY <1>1, <1>2 DEF IndInv, TypeOK
  <2>4. invalidSeq' \in [Keys -> Nat]
    BY <1>1, <1>2 DEF IndInv, TypeOK, MapAfterReuse
  <2>5. revoked' \in [Ops -> BOOLEAN]
    BY <1>1 DEF IndInv, TypeOK
  <2> QED
    BY <1>1, <2>1, <2>2, <2>3, <2>4, <2>5 DEF IndInv, TypeOK
<1>12. TokensBehind'
  <2> SUFFICES ASSUME NEW op \in Ops, Holds(op)
               PROVE  /\ token[op].gen \in 1 .. generation
                      /\ token[op].gen = generation
                           => token[op].seq <= seq'[ShardOf[token[op].key]]
    BY <1>1 DEF TokensBehind, Holds
  <2>1. seq[ShardOf[token[op].key]] <= seq'[ShardOf[token[op].key]]
    BY <1>2, <1>4, <1>5, <1>10 DEF IndInv, TypeOK, new
  <2>2. seq[ShardOf[token[op].key]] \in Nat /\ seq'[ShardOf[token[op].key]] \in Nat
    BY <1>10, <1>11 DEF IndInv, TypeOK
  <2> QED
    BY <2>1, <2>2, <1>10 DEF IndInv, TokensBehind
<1>13. RevokedCaught'
  <2> SUFFICES ASSUME NEW op \in Ops, Holds(op), token[op].gen = generation,
                      revoked[op] \/ token[op].key = k
               PROVE  \/ token[op].seq < minValidSeq'[ShardOf[token[op].key]]
                      \/ token[op].seq < invalidSeq'[token[op].key]
    BY <1>1, <1>9 DEF RevokedCaught, Holds
  <2> DEFINE j == token[op].key
  <2>1. j \in Keys /\ token[op].seq \in Nat /\ ShardOf[j] \in Shards
    BY <1>10
  <2>2. minValidSeq'[ShardOf[j]] \in Nat /\ minValidSeq[ShardOf[j]] \in Nat
        /\ invalidSeq[j] \in Nat
    BY <2>1, <1>11 DEF IndInv, TypeOK
  <2>3. minValidSeq'[ShardOf[j]] >= minValidSeq[ShardOf[j]]
    BY <2>1, <2>2, <1>4, <1>5, <1>7
  <2>4. CASE j = k
    BY <2>4, <2>1, <1>2, <1>6 DEF IndInv, TokensBehind, new, s
  <2>5. CASE j # k
    <3>1. \/ token[op].seq < minValidSeq[ShardOf[j]]
          \/ token[op].seq < invalidSeq[j]
      BY <2>5 DEF IndInv, RevokedCaught
    <3>2. CASE invalidSeq'[j] = invalidSeq[j]
      BY <3>1, <3>2, <2>1, <2>2, <2>3
    <3>3. CASE invalidSeq'[j] # invalidSeq[j]
      <4>1. j = old.key /\ invalidSeq[j] = old.seq
        BY <3>3, <2>5, <2>1, <1>6
      <4>2. ShardOf[j] = s
        BY <4>1, <2>1, <1>2 DEF IndInv, RingOfShard, old
      <4> QED
        BY <4>1, <4>2, <3>1, <2>1, <2>2, <2>3, <1>2, <1>4, <1>7
    <3> QED
      BY <3>2, <3>3
  <2> QED
    BY <2>4, <2>5
<1>14. FreshNotCaught'
  <2> SUFFICES ASSUME NEW op \in Ops, Holds(op), ~revoked[op], token[op].key # k
               PROVE  /\ token[op].gen = generation
                      /\ token[op].seq >= invalidSeq'[token[op].key]
                      /\ \/ token[op].seq >= minValidSeq'[ShardOf[token[op].key]]
                         \/ seq'[ShardOf[token[op].key]] - token[op].seq > RingSize
    BY <1>1, <1>9 DEF FreshNotCaught, Holds
  <2> DEFINE j == token[op].key
  <2>1. j \in Keys /\ token[op].seq \in Nat /\ ShardOf[j] \in Shards
        /\ invalidSeq[j] \in Nat /\ invalidSeq'[j] \in {0, invalidSeq[j]}
    BY <1>6, <1>10 DEF IndInv, TypeOK
  <2>2. /\ token[op].gen = generation
        /\ token[op].seq >= invalidSeq[j]
        /\ \/ token[op].seq >= minValidSeq[ShardOf[j]]
           \/ seq[ShardOf[j]] - token[op].seq > RingSize
    BY DEF IndInv, FreshNotCaught
  <2>3. CASE ShardOf[j] # s
    BY <2>1, <2>2, <2>3, <1>5
  <2>4. CASE ShardOf[j] = s
    <3>1. seq'[s] = new /\ new = seq[s] + 1
      BY <1>4 DEF new
    <3>2. CASE minValidSeq'[s] = minValidSeq[s]
      BY <3>1, <3>2, <2>1, <2>2, <2>4, <1>2
    <3>3. CASE minValidSeq'[s] # minValidSeq[s]
      <4>1. minValidSeq'[s] = old.seq /\ old.seq # 0
        BY <3>3, <1>2, <1>4, <1>7
      <4>2. minValidSeq'[s] = new - RingSize
        BY <4>1, <1>8
      <4> QED
        BY <4>2, <3>1, <2>1, <2>2, <2>4, <1>2
    <3> QED
      BY <3>2, <3>3
  <2> QED
    BY <2>3, <2>4
<1>15. RingInOrder'
  <2> SUFFICES ASSUME NEW r \in Shards, NEW i \in Slots
               PROVE  ring'[r][i].seq = 0 \/ ring'[r][i].seq = seq'[r] - Age(r, i)'
    BY DEF RingInOrder
  <2>1. CASE r # s
    BY <2>1, <1>5 DEF IndInv, RingInOrder, Age
  <2>2. CASE r = s /\ i = pos
    <3>1. Age(r, i)' = 0
      BY <2>2, <1>2, <1>3, <1>4 DEF Age, Slots
    <3>2. ring'[r][i].seq = new /\ seq'[r] = new
      BY <2>2, <1>4 DEF entry
    <3> QED
      BY <3>1, <3>2, <1>2
  <2>3. CASE r = s /\ i # pos
    <3>1. Age(r, i)' = Age(r, i) + 1
      BY <2>3, <1>2, <1>3, <1>4 DEF Age, Slots, pos
    <3>2. ring'[r][i] = ring[r][i] /\ seq'[r] = seq[r] + 1
      BY <2>3, <1>4 DEF new
    <3>3. Age(r, i) \in Int /\ seq[r] \in Nat
      BY <2>3, <1>2 DEF Age, Slots, pos
    <3>4. ring[r][i].seq = 0 \/ ring[r][i].seq = seq[r] - Age(r, i)
      BY DEF IndInv, RingInOrder
    <3> QED
      BY <3>1, <3>2, <3>3, <3>4
  <2> QED
    BY <2>1, <2>2, <2>3
<1>16. RingOfShard'
  <2> SUFFICES ASSUME NEW r \in Shards, NEW i \in Slots
               PROVE  ring'[r][i].key \in Keys => ShardOf[ring'[r][i].key] = r
    BY DEF RingOfShard
  <2>1. CASE r = s /\ i = pos
    BY <2>1, <1>4 DEF entry, s
  <2>2. CASE ~(r = s /\ i = pos)
    BY <2>2, <1>4, <1>5 DEF IndInv, RingOfShard
  <2> QED
    BY <2>1, <2>2
<1>17. MapBehind'
  <2> SUFFICES ASSUME NEW j \in Keys
               PROVE  invalidSeq'[j] <= seq'[ShardOf[j]]
    BY DEF MapBehind
  <2>1. CASE j = k
    BY <2>1, <1>2, <1>4, <1>6 DEF s
  <2>2. CASE j # k
    <3>1. invalidSeq'[j] \in {0, invalidSeq[j]} /\ invalidSeq[j] \in Nat
      BY <2>2, <1>6 DEF IndInv, TypeOK
    <3>2. seq'[ShardOf[j]] >= seq[ShardOf[j]] /\ seq[ShardOf[j]] \in Nat
          /\ seq'[ShardOf[j]] \in Nat
      <4>1. ShardOf[j] \in Shards /\ seq[ShardOf[j]] \in Nat
        BY DEF IndInv, TypeOK
      <4>2. CASE ShardOf[j] = s
        BY <4>1, <4>2, <1>2, <1>4 DEF new
      <4>3. CASE ShardOf[j] # s
        BY <4>1, <4>3, <1>5
      <4> QED
        BY <4>2, <4>3
    <3> QED
      BY <3>1, <3>2 DEF IndInv, MapBehind
  <2> QED
    BY <2>1, <2>2
<1>18. MinBehind'
  <2> SUFFICES ASSUME NEW r \in Shards
               PROVE  minValidSeq'[r] <= seq'[r]
    BY DEF MinBehind
  <2>1. CASE r # s
    BY <2>1, <1>5 DEF IndInv, MinBehind
  <2>2. CASE r = s
    <3>1. minValidSeq[s] <= new
      BY <1>2 DEF IndInv, MinBehind, new
    <3>2. old.seq <= new
      BY <1>2, <1>8
    <3> QED
      BY <3>1, <3>2, <2>2, <1>2, <1>4, <1>7
  <2> QED
    BY <2>1, <2>2
<1>19. MapBoundedByRing'
  <2> SUFFICES ASSUME NEW j \in Keys, invalidSeq'[j] # 0
               PROVE  \E i \in Slots :
                        ring'[ShardOf[j]][i] = [key |-> j, seq |-> invalidSeq'[j]]
    BY DEF MapBoundedByRing
  <2>1. CASE j = k
    <3>1. ring'[ShardOf[j]][pos] = [key |-> j, seq |-> invalidSeq'[j]]
      BY <2>1, <1>4, <1>6 DEF s, entry
    <3> QED
      BY <3>1, <1>2
  <2>2. CASE j # k
    <3>1. invalidSeq'[j] = invalidSeq[j] /\ ~(j = old.key /\ invalidSeq[j] = old.seq)
      BY <2>2, <1>6
    <3>2. PICK i \in Slots :
            ring[ShardOf[j]][i] = [key |-> j, seq |-> invalidSeq[j]]
      BY <3>1 DEF IndInv, MapBoundedByRing
    <3>3. ~(ShardOf[j] = s /\ i = pos)
      BY <3>1, <3>2 DEF old
    <3>4. ring'[ShardOf[j]][i] = ring[ShardOf[j]][i]
      BY <3>3, <1>4, <1>5
    <3> QED
      BY <3>1, <3>2, <3>4
  <2> QED
    BY <2>1, <2>2
<1> QED
  BY <1>11, <1>12, <1>13, <1>14, <1>15, <1>16, <1>17, <1>18, <1>19 DEF IndInv

-----------------------------------------------------------------------------
\* Every step of the table keeps the invariant.
LEMMA NextIndInv == IndInv /\ [Next]_vars => IndInv'
<1> SUFFICES ASSUME IndInv, [Next]_vars PROVE IndInv'
  OBVIOUS
<1>1. ASSUME NEW op \in Ops, NEW k \in Keys, AcquireOpToken(op, k) PROVE IndInv'
  BY <1>1, AcquireKeepsIndInv
<1>2. ASSUME NEW op \in Ops, CheckToken(op) PROVE IndInv'
  BY <1>2, CheckKeepsIndInv
<1>3. ASSUME NEW op \in Ops, ReleaseToken(op) PROVE IndInv'
  BY <1>3, ReleaseKeepsIndInv
<1>4. ASSUME NEW k \in Keys, BumpInvalidateToken(k) PROVE IndInv'
  BY <1>4, BumpKeepsIndInv
<1>5. CASE ClearTable
  BY <1>5, ClearKeepsIndInv
<1>6. CASE UNCHANGED vars
  BY <1>6 DEF vars, tableVars, opVars, IndInv, TypeOK, TokensBehind,
              RevokedCaught, FreshNotCaught, Holds, RingInOrder, RingOfShard,
              Age, MapBehind, MinBehind, MapBoundedByRing
<1> QED
  BY <1>1, <1>2, <1>3, <1>4, <1>5, <1>6 DEF Next

THEOREM IndInvAlways == Spec => []IndInv
<1> QED
  BY InitIndInv, NextIndInv, PTL DEF Spec

\* The table keeps its types.
THEOREM TypeOKAlways == Spec => []TypeOK
<1>1. IndInv => TypeOK
  BY DEF IndInv
<1> QED
  BY <1>1, IndInvAlways, PTL

\* What the invariant says of one state: see RevokedNeverValid.
LEMMA IndInvRevoked == IndInv => RevokedNeverValid
<1> SUFFICES ASSUME IndInv, NEW op \in Ops, Holds(op), revoked[op],
                    IsTokenValid(token[op])
             PROVE  FALSE
  BY DEF RevokedNeverValid
<1>1. /\ token[op].key \in Keys /\ token[op].seq \in Nat
      /\ ShardOf[token[op].key] \in Shards
  BY ShardAssumption DEF IndInv, TypeOK, Tokens, Holds
<1>2. /\ minValidSeq[ShardOf[token[op].key]] \in Nat
      /\ invalidSeq[token[op].key] \in Nat
  BY <1>1 DEF IndInv, TypeOK
<1> QED
  BY <1>1, <1>2 DEF IndInv, RevokedCaught, IsTokenValid

\* A token whose key was invalidated, or that predates a clear, is never valid
\* again (isTokenValidLocked), whatever the ring has forgotten.
THEOREM RevokedNeverValidAlways == Spec => []RevokedNeverValid
<1> QED
  BY IndInvRevoked, IndInvAlways, PTL

\* Within RingSize invalidations of its shard a token is refused only when it
\* was revoked: the bounded table loses no precision before its ring is full.
THEOREM ExactInWindowAlways == Spec => []ExactInWindow
<1>1. IndInv => ExactInWindow
  <2> SUFFICES ASSUME IndInv, NEW op \in Ops, Holds(op), ~revoked[op],
                      seq[ShardOf[token[op].key]] - token[op].seq <= RingSize
               PROVE  IsTokenValid(token[op])
    BY DEF ExactInWindow
  <2>1. /\ token[op].key \in Keys /\ token[op].seq \in Nat
        /\ ShardOf[token[op].key] \in Shards
    BY ShardAssumption DEF IndInv, TypeOK, Tokens, Holds
  <2>2. /\ token[op].gen = generation /\ generation # 0
        /\ token[op].seq >= invalidSeq[token[op].key]
        /\ token[op].seq >= minValidSeq[ShardOf[token[op].key]]
    BY <2>1, RingAssumption DEF IndInv, TypeOK, FreshNotCaught
  <2> QED
    BY <2>2 DEF IsTokenValid
<1> QED
  BY <1>1, IndInvAlways, PTL

\* The map of remembered invalidations never outgrows the ring.
THEOREM MapBoundedAlways == Spec => []MapBoundedByRing
<1>1. IndInv => MapBoundedByRing
  BY DEF IndInv
<1> QED
  BY <1>1, IndInvAlways, PTL

\* One step never makes a refused token acceptable.
LEMMA RefusedStaysRefused ==
  ASSUME IndInv, [Next]_vars, NEW op \in Ops, Holds(op), token'[op] = token[op],
         ~IsTokenValid(token[op])
  PROVE  ~IsTokenValid(token[op])'
<1> USE ShardAssumption, KeysAssumption
<1> DEFINE t == token[op]
           s == ShardOf[t.key]
<1>1. t.key \in Keys /\ t.seq \in Nat /\ s \in Shards /\ t.gen \in 1 .. generation
  BY DEF IndInv, TypeOK, Tokens, Holds, TokensBehind
<1>2. t.gen = generation => t.seq <= seq[s]
  BY DEF IndInv, TokensBehind
<1>3. generation \in Nat /\ seq[s] \in Nat /\ minValidSeq[s] \in Nat
      /\ invalidSeq[t.key] \in Nat
  BY <1>1 DEF IndInv, TypeOK
<1>4. \/ t.gen # generation
      \/ t.seq < minValidSeq[s]
      \/ t.seq < invalidSeq[t.key]
  BY <1>1, <1>3 DEF IsTokenValid
<1>5. CASE UNCHANGED <<generation, minValidSeq, invalidSeq>>
  BY <1>5 DEF IsTokenValid
<1>6. CASE ClearTable
  BY <1>6, <1>1, <1>3 DEF ClearTable, IsTokenValid
<1>7. ASSUME NEW k \in Keys, BumpInvalidateToken(k) PROVE ~IsTokenValid(t)'
  <2> DEFINE r == ShardOf[k]
             old == ring[r][ringPos[r]]
  <2>1. /\ old \in Entries /\ old.seq \in Nat /\ r \in Shards
        /\ seq[r] \in Nat /\ minValidSeq[r] \in Nat
        /\ ringPos[r] \in Slots
    BY DEF IndInv, TypeOK, Entries
  <2>2. /\ generation' = generation
        /\ minValidSeq' = [minValidSeq EXCEPT ![r] = MinAfterReuse(@, old)]
        /\ invalidSeq' = [MapAfterReuse(old) EXCEPT ![k] = seq[r] + 1]
    BY <1>7 DEF BumpInvalidateToken
  <2>3. minValidSeq'[s] \in Nat /\ minValidSeq'[s] >= minValidSeq[s]
    BY <2>1, <2>2, <1>1, <1>3 DEF IndInv, TypeOK, MinAfterReuse
  <2>4. CASE t.gen # generation \/ t.seq < minValidSeq[s]
    BY <2>2, <2>3, <2>4, <1>1, <1>3 DEF IsTokenValid
  <2>5. CASE t.gen = generation /\ t.seq < invalidSeq[t.key]
    <3>1. CASE t.key = k
      <4>1. invalidSeq'[k] = seq[r] + 1
        BY <2>2 DEF MapAfterReuse
      <4> QED
        BY <4>1, <3>1, <2>1, <2>5, <1>1, <1>2 DEF IsTokenValid
    <3>2. CASE t.key # k
      <4>1. invalidSeq'[t.key] = IF t.key = old.key /\ invalidSeq[t.key] = old.seq
                                 THEN 0 ELSE invalidSeq[t.key]
        BY <3>2, <2>2, <1>1 DEF MapAfterReuse
      <4>2. CASE t.key = old.key /\ invalidSeq[t.key] = old.seq
        <5>1. s = r
          BY <4>2, <2>1, <1>1 DEF IndInv, RingOfShard
        <5>2. minValidSeq'[s] = MinAfterReuse(minValidSeq[s], old)
          BY <5>1, <2>1, <2>2 DEF IndInv, TypeOK
        <5>3. t.seq < old.seq
          BY <4>2, <2>5
        <5>4. minValidSeq'[s] >= old.seq
          BY <5>2, <2>1, <1>3 DEF MinAfterReuse
        <5>5. t.seq < minValidSeq'[s]
          BY <5>3, <5>4, <2>1, <2>3, <1>1
        <5> QED
          BY <5>5, <2>3, <1>1 DEF IsTokenValid
      <4>3. CASE ~(t.key = old.key /\ invalidSeq[t.key] = old.seq)
        BY <4>1, <4>3, <2>5, <1>1, <1>3 DEF IsTokenValid
      <4> QED
        BY <4>2, <4>3
    <3> QED
      BY <3>1, <3>2
  <2> QED
    BY <2>4, <2>5, <1>4
<1> QED
  BY <1>5, <1>6, <1>7 DEF Next, vars, tableVars, AcquireOpToken, CheckToken,
                          ReleaseToken

\* A refusal is final: checking early and again late is no weaker than the
\* late check alone (saveToDiskWithNSAndToken does both).
THEOREM RefusalIsFinalAlways == Spec => RefusalIsFinal
<1>1. IndInv /\ [Next]_vars =>
        [\A op \in Ops : Holds(op) /\ ~IsTokenValid(token[op]) /\ token'[op] = token[op]
           => ~IsTokenValid(token[op])']_vars
  BY RefusedStaysRefused
<1> QED
  BY <1>1, IndInvAlways, PTL DEF Spec, RefusalIsFinal

-----------------------------------------------------------------------------
\* The bounded table implements the unbounded promise of TokenPromise: a check
\* accepts only tokens that were not revoked, and every other step of the
\* table is a step of the promise or invisible to it.
THEOREM ImplementsPromise == Spec => PromiseSpec
<1>1. Init => Promise!Init
  BY DEF Init, Promise!Init, NoToken
<1>2. IndInv /\ [Next]_vars => [Promise!Next]_(Promise!promiseVars)
  <2> SUFFICES ASSUME IndInv, [Next]_vars
               PROVE  [Promise!Next]_(Promise!promiseVars)
    OBVIOUS
  <2> DEFINE held == [op \in Ops |-> token[op].key]
  <2> USE KeysAssumption
  <2>1. ASSUME NEW op \in Ops, NEW k \in Keys, AcquireOpToken(op, k)
        PROVE  Promise!Acquire(op, k)
    BY <2>1 DEF AcquireOpToken, Promise!Acquire, Holds, IndInv, TypeOK
  <2>2. ASSUME NEW op \in Ops, CheckToken(op)
        PROVE  Promise!Check(op)
    BY <2>2, IndInvRevoked DEF CheckToken, Promise!Check, Holds, RevokedNeverValid
  <2>3. ASSUME NEW op \in Ops, ReleaseToken(op)
        PROVE  Promise!Release(op)
    BY <2>3 DEF ReleaseToken, Promise!Release, Holds, NoToken, IndInv, TypeOK
  <2>4. ASSUME NEW k \in Keys, BumpInvalidateToken(k)
        PROVE  Promise!Revoke({k})
    BY <2>4 DEF BumpInvalidateToken, Promise!Revoke
  <2>5. CASE ClearTable
    BY <2>5 DEF ClearTable, Promise!Revoke, Promise!Next
  <2>6. CASE UNCHANGED vars
    BY <2>6 DEF vars, opVars, Promise!promiseVars
  <2> QED
    BY <2>1, <2>2, <2>3, <2>4, <2>5, <2>6 DEF Next, Promise!Next
<1> QED
  BY <1>1, <1>2, InitIndInv, IndInvAlways, PTL DEF Spec, PromiseSpec, Promise!Spec

-----------------------------------------------------------------------------
(***************************************************************************)
(* Induction, as statements about sets: that the strict subsets of finite  *)
(* sets are well-founded needs no operator to be instantiated.             *)
(***************************************************************************)
Minimal(s, F) == \A t \in F : t \subseteq s => t = s

LEMMA MinimalSet ==
  ASSUME NEW F, F # {}, \A s \in F : IsFiniteSet(s)
  PROVE  \E s \in F : Minimal(s, F)
<1> DEFINE D == UNION F
<1>1. F \subseteq FiniteSubsetsOf(D)
  BY DEF FiniteSubsetsOf
<1>2. \A s \in F : s \in SUBSET D
  OBVIOUS
<1> HIDE DEF D
<1>3. \E s \in F : \A t \in F : ~ (<<t, s>> \in StrictSubsetOrdering(D))
  BY <1>1, WFMin, FS_StrictSubsetOrderingWellFounded
<1> QED  BY <1>2, <1>3, Zenon DEF StrictSubsetOrdering, Minimal

LEMMA SmallestOf ==
  ASSUME NEW T \in SUBSET Nat, T # {}
  PROVE  \E n \in T : \A m \in T : n <= m
<1> DEFINE F == {1 .. n : n \in T}
<1>1. F # {} /\ \A s \in F : IsFiniteSet(s)
  <2>1. \A n \in T : IsFiniteSet(1 .. n)
    BY FS_Interval
  <2> QED  BY <2>1
<1>2. PICK n \in T : \A m \in T : 1 .. m \subseteq 1 .. n => 1 .. m = 1 .. n
  <2>1. PICK s \in F : Minimal(s, F)
    <3> HIDE DEF F
    <3> QED  BY <1>1, MinimalSet
  <2>2. PICK n \in T : s = 1 .. n
    OBVIOUS
  <2>3. \A m \in T : 1 .. m \in F
    OBVIOUS
  <2> QED  BY <2>1, <2>2, <2>3 DEF Minimal
<1>3. ASSUME NEW m \in T PROVE n <= m
  <2>1. CASE m < n
    <3>1. 1 .. m \subseteq 1 .. n /\ n \in 1 .. n /\ n \notin 1 .. m
      BY <2>1
    <3> QED  BY <3>1, <1>2
  <2> QED  BY <2>1
<1> QED  BY <1>3

\* What holds of 0, and of n + 1 when it holds of n, holds of every number.
LEMMA EveryNumber ==
  ASSUME NEW T \in SUBSET Nat, 0 \in T, \A n \in T : n + 1 \in T
  PROVE  T = Nat
<1> SUFFICES ASSUME Nat \ T # {} PROVE FALSE
  OBVIOUS
<1>1. PICK n \in Nat \ T : \A m \in Nat \ T : n <= m
  BY SmallestOf
<1>2. n - 1 \in Nat
  BY <1>1
<1>3. n - 1 \in T
  BY <1>1, <1>2
<1> QED  BY <1>1, <1>3

-----------------------------------------------------------------------------
(***************************************************************************)
(* The bytes of a list.                                                    *)
(***************************************************************************)
Nodes == [key : PoolKeys, size : Nat \ {0}]
Lists == Seq(Nodes)

LEMMA NodeFields == \A e \in Nodes : e.key \in PoolKeys /\ e.size \in Nat \ {0}
BY DEF Nodes

LEMMA ListFields ==
  ASSUME NEW list \in Lists
  PROVE  /\ Len(list) \in Nat /\ DOMAIN list = 1 .. Len(list)
         /\ \A i \in 1 .. Len(list) :
              list[i] \in Nodes /\ list[i].size \in Nat \ {0} /\ list[i].key \in PoolKeys
<1>1. \A i \in 1 .. Len(list) : list[i] \in Nodes
  BY DEF Lists
<1> QED  BY <1>1, NodeFields DEF Lists

\* The recursion has a solution: the sums of the first n entries.
LEMMA SumsExist ==
  ASSUME NEW list \in Lists
  PROVE  \E g \in [0 .. Len(list) -> Nat] :
            g[0] = 0 /\ \A i \in 1 .. Len(list) : g[i] = g[i - 1] + list[i].size
<1> DEFINE Good(n, g) == g[0] = 0 /\ \A i \in 1 .. n : g[i] = g[i - 1] + list[i].size
           T == {n \in Nat : n <= Len(list) => \E g \in [0 .. n -> Nat] : Good(n, g)}
<1>1. 0 \in T
  <2>1. Good(0, [i \in 0 .. 0 |-> 0])
    OBVIOUS
  <2> QED  BY <2>1
<1>2. ASSUME NEW n \in T PROVE n + 1 \in T
  <2>1. ASSUME n + 1 <= Len(list) PROVE \E g \in [0 .. n + 1 -> Nat] : Good(n + 1, g)
    <3>1. n \in Nat /\ (n <= Len(list) => \E g \in [0 .. n -> Nat] : Good(n, g))
      OBVIOUS
    <3>2. n <= Len(list) /\ list[n + 1].size \in Nat
      BY <2>1, <3>1, ListFields
    <3>3. PICK g \in [0 .. n -> Nat] : Good(n, g)
      <4> HIDE DEF Good
      <4> QED  BY <3>1, <3>2
    <3> DEFINE h == [i \in 0 .. n + 1 |-> IF i <= n THEN g[i] ELSE g[n] + list[n + 1].size]
    <3>4. h \in [0 .. n + 1 -> Nat]
      BY <3>1, <3>2
    <3>5. h[0] = 0
      BY <3>1, <3>3
    <3>6. ASSUME NEW i \in 1 .. n + 1 PROVE h[i] = h[i - 1] + list[i].size
      <4>1. CASE i = n + 1
        BY <3>1, <4>1
      <4>2. CASE i # n + 1
        <5>1. i \in 1 .. n /\ h[i] = g[i] /\ h[i - 1] = g[i - 1]
          BY <3>1, <4>2
        <5> QED  BY <3>3, <5>1
      <4> QED  BY <4>1, <4>2
    <3>7. Good(n + 1, h)
      <4> HIDE DEF h
      <4> QED  BY <3>5, <3>6
    <3> HIDE DEF h, Good
    <3> QED  BY <3>4, <3>7
  <2>2. n + 1 \in Nat
    OBVIOUS
  <2> HIDE DEF Good
  <2> QED  BY <2>1, <2>2, Zenon
<1>3. Len(list) \in T
  <2> HIDE DEF T
  <2>1. T \subseteq Nat
    BY DEF T
  <2> QED  BY <1>1, <1>2, <2>1, EveryNumber, ListFields
<1> QED  BY <1>3, ListFields

LEMMA SumsAre ==
  ASSUME NEW list \in Lists
  PROVE  /\ Sums(list) \in [0 .. Len(list) -> Nat]
         /\ Sums(list)[0] = 0
         /\ \A i \in 1 .. Len(list) : Sums(list)[i] = Sums(list)[i - 1] + list[i].size
<1> DEFINE Solves(h) == h = [i \in 0 .. Len(list) |->
                              IF i = 0 THEN 0 ELSE h[i - 1] + list[i].size]
           s == Sums(list)
<1>1. s = CHOOSE h : Solves(h)
  BY DEF Sums
<1>2. \E h : Solves(h)
  <2>1. PICK g \in [0 .. Len(list) -> Nat] :
          g[0] = 0 /\ \A i \in 1 .. Len(list) : g[i] = g[i - 1] + list[i].size
    BY SumsExist
  <2>2. \A i \in 0 .. Len(list) : g[i] = IF i = 0 THEN 0 ELSE g[i - 1] + list[i].size
    BY <2>1, ListFields
  <2>3. Solves(g)
    BY <2>2
  <2> QED  BY <2>3
<1>3. Solves(s)
  <2> HIDE DEF Solves, s
  <2> QED  BY <1>1, <1>2
<1> HIDE DEF s
<1>4. s[0] = 0 /\ \A i \in 1 .. Len(list) : s[i] = s[i - 1] + list[i].size
  BY <1>3, ListFields
<1> DEFINE T == {n \in Nat : n <= Len(list) => s[n] \in Nat}
<1>5. T = Nat
  <2>1. 0 \in T
    BY <1>4
  <2>2. ASSUME NEW n \in T PROVE n + 1 \in T
    BY <1>4, ListFields
  <2> HIDE DEF T
  <2>3. T \subseteq Nat
    BY DEF T
  <2> QED  BY <2>1, <2>2, <2>3, EveryNumber
<1>6. \A i \in 0 .. Len(list) : s[i] \in Nat
  BY <1>5, ListFields
<1>7. s = [i \in 0 .. Len(list) |-> s[i]]
  BY <1>3
<1> QED  BY <1>4, <1>6, <1>7 DEF s

LEMMA SumsStep ==
  ASSUME NEW list \in Lists, NEW n \in Nat, n + 1 <= Len(list)
  PROVE  /\ Sums(list)[n + 1] = Sums(list)[n] + list[n + 1].size
         /\ Sums(list)[n] \in Nat /\ list[n + 1].size \in Nat
<1>1. n + 1 \in 1 .. Len(list) /\ n \in 0 .. Len(list) /\ n + 1 - 1 = n
  BY ListFields
<1>2. Sums(list)[n + 1] = Sums(list)[n + 1 - 1] + list[n + 1].size
  BY <1>1, SumsAre
<1> QED  BY <1>1, <1>2, SumsAre, ListFields

LEMMA BytesType ==
  ASSUME NEW list \in Lists PROVE Bytes(list) \in Nat
BY SumsAre, ListFields DEF Bytes

LEMMA BytesOfNone == Bytes(<<>>) = 0
<1>1. <<>> \in Lists /\ Len(<<>>) = 0
  BY DEF Lists
<1> QED  BY <1>1, SumsAre DEF Bytes

LEMMA BytesOfOne ==
  ASSUME NEW e \in Nodes PROVE <<e>> \in Lists /\ Bytes(<<e>>) = e.size
<1>1. <<e>> \in Lists /\ Len(<<e>>) = 1 /\ <<e>>[1] = e
  BY DEF Lists
<1>2. Sums(<<e>>)[1] = Sums(<<e>>)[0] + e.size /\ Sums(<<e>>)[0] = 0
  BY <1>1, SumsAre
<1> QED  BY <1>1, <1>2, NodeFields DEF Bytes

\* One list after another has the bytes of both.
LEMMA BytesOfBoth ==
  ASSUME NEW a \in Lists, NEW b \in Lists
  PROVE  a \o b \in Lists /\ Bytes(a \o b) = Bytes(a) + Bytes(b)
<1> DEFINE c == a \o b
<1>1. /\ c \in Lists /\ Len(c) = Len(a) + Len(b)
      /\ \A i \in 1 .. Len(a) : c[i] = a[i]
      /\ \A i \in 1 .. Len(b) : c[Len(a) + i] = b[i]
  BY ListFields, ConcatProperties DEF Lists
<1> HIDE DEF c
<1> DEFINE T == {n \in Nat : n <= Len(a) => Sums(c)[n] = Sums(a)[n]}
           U == {n \in Nat : n <= Len(b) => Sums(c)[Len(a) + n] = Bytes(a) + Sums(b)[n]}
<1>2. Len(a) \in T
  <2>1. 0 \in T
    BY <1>1, SumsAre
  <2>2. ASSUME NEW n \in T PROVE n + 1 \in T
    <3> SUFFICES ASSUME n + 1 <= Len(a) PROVE Sums(c)[n + 1] = Sums(a)[n + 1]
      OBVIOUS
    <3>1. n + 1 \in 1 .. Len(a) /\ n + 1 <= Len(c) /\ n \in Nat
      BY <1>1, ListFields
    <3>2. Sums(c)[n + 1] = Sums(c)[n] + c[n + 1].size
      BY <1>1, <3>1, SumsStep
    <3>3. Sums(a)[n + 1] = Sums(a)[n] + a[n + 1].size
      BY <3>1, SumsStep
    <3>4. Sums(c)[n] = Sums(a)[n] /\ c[n + 1] = a[n + 1]
      BY <1>1, <3>1, ListFields
    <3> QED  BY <3>2, <3>3, <3>4
  <2> HIDE DEF T
  <2>3. T \subseteq Nat
    BY DEF T
  <2> QED  BY <2>1, <2>2, <2>3, EveryNumber, ListFields
<1>3. Len(b) \in U
  <2>1. 0 \in U
    BY <1>1, <1>2, SumsAre, ListFields, BytesType DEF Bytes
  <2>2. ASSUME NEW n \in U PROVE n + 1 \in U
    <3> SUFFICES ASSUME n + 1 <= Len(b)
                 PROVE  Sums(c)[Len(a) + (n + 1)] = Bytes(a) + Sums(b)[n + 1]
      OBVIOUS
    <3>1. /\ n + 1 \in 1 .. Len(b) /\ Len(a) + (n + 1) \in 1 .. Len(c)
          /\ n + 1 - 1 = n /\ Len(a) + (n + 1) - 1 = Len(a) + n /\ n \in 0 .. Len(b)
      BY <1>1, ListFields
    <3>2. Sums(c)[Len(a) + (n + 1)] = Sums(c)[Len(a) + n] + c[Len(a) + (n + 1)].size
      BY <1>1, <3>1, SumsAre
    <3>3. Sums(b)[n + 1] = Sums(b)[n] + b[n + 1].size /\ Sums(b)[n] \in Nat
      BY <3>1, SumsAre
    <3>4. c[Len(a) + (n + 1)] = b[n + 1] /\ b[n + 1].size \in Nat /\ Bytes(a) \in Nat
      BY <1>1, <3>1, ListFields, BytesType
    <3>5. Sums(c)[Len(a) + n] = Bytes(a) + Sums(b)[n]
      OBVIOUS
    <3> QED  BY <3>2, <3>3, <3>4, <3>5
  <2> HIDE DEF U
  <2>3. U \subseteq Nat
    BY DEF U
  <2> QED  BY <2>1, <2>2, <2>3, EveryNumber, ListFields
<1> QED  BY <1>1, <1>3, ListFields DEF Bytes, c

\* A list cut in two.
LEMMA Cut ==
  ASSUME NEW list \in Lists, NEW k \in 0 .. Len(list)
  PROVE  LET a == SubSeq(list, 1, k)
             b == SubSeq(list, k + 1, Len(list))
         IN
         /\ a \in Lists /\ Len(a) = k /\ \A i \in 1 .. k : a[i] = list[i]
         /\ b \in Lists /\ Len(b) = Len(list) - k
         /\ \A i \in 1 .. Len(list) - k : b[i] = list[k + i]
         /\ Bytes(a) + Bytes(b) = Bytes(list)
         /\ Bytes(a) \in Nat /\ Bytes(b) \in Nat
         /\ a \o b = list
<1> DEFINE a == SubSeq(list, 1, k)
           b == SubSeq(list, k + 1, Len(list))
<1>1. k \in Int /\ k + 1 \in Int /\ Len(list) \in Nat
  BY ListFields
<1>2. a \in Lists /\ Len(a) = k /\ \A i \in 1 .. k : a[i] = list[i]
  <2>1. \A i \in 1 .. k : list[i] \in Nodes
    BY ListFields
  <2> QED  BY <1>1, <2>1, SubSeqProperties DEF Lists
<1>3. /\ b \in Lists /\ Len(b) = Len(list) - k
      /\ \A i \in 1 .. Len(list) - k : b[i] = list[k + i]
  <2>1. \A i \in k + 1 .. Len(list) : list[i] \in Nodes
    BY ListFields
  <2>2. /\ b \in Seq(Nodes)
        /\ Len(b) = IF k + 1 <= Len(list) THEN Len(list) - (k + 1) + 1 ELSE 0
        /\ \A i \in 1 .. Len(list) - (k + 1) + 1 : b[i] = list[k + 1 + i - 1]
    BY <1>1, <2>1, SubSeqProperties
  <2> QED  BY <1>1, <2>2 DEF Lists
<1> HIDE DEF a, b
<1>4. a \o b = list
  <2>1. a \in Seq(Nodes) /\ b \in Seq(Nodes) /\ list \in Seq(Nodes)
    BY <1>2, <1>3 DEF Lists
  <2>2. /\ a \o b \in Seq(Nodes) /\ Len(a \o b) = Len(a) + Len(b)
        /\ \A i \in 1 .. Len(a) + Len(b) :
              (a \o b)[i] = IF i <= Len(a) THEN a[i] ELSE b[i - Len(a)]
    BY <2>1, ConcatProperties
  <2>3. Len(a) + Len(b) = Len(list) /\ Len(a) = k
    <3>1. Len(a) = k /\ Len(b) = Len(list) - k
      BY <1>2, <1>3
    <3>2. \A n \in Nat, j \in Int : j + (n - j) = n
      OBVIOUS
    <3> QED  BY <1>1, <3>1, <3>2, Zenon
  <2>4. ASSUME NEW i \in 1 .. Len(list) PROVE (a \o b)[i] = list[i]
    <3>1. CASE i <= k
      <4>1. (a \o b)[i] = a[i]
        BY <1>1, <2>2, <2>3, <3>1
      <4>2. i \in 1 .. k
        BY <1>1, <3>1
      <4> QED  BY <1>2, <4>1, <4>2
    <3>2. CASE ~ (i <= k)
      <4>1. i - k \in 1 .. Len(list) - k /\ k + (i - k) = i
        BY <1>1, <3>2
      <4> QED  BY <1>3, <2>2, <2>3, <3>2, <4>1
    <3> QED  BY <3>1, <3>2
  <2> QED  BY <2>1, <2>2, <2>3, <2>4, SeqEqual
<1>5. Bytes(a \o b) = Bytes(a) + Bytes(b) /\ Bytes(a) \in Nat /\ Bytes(b) \in Nat
  BY <1>2, <1>3, BytesOfBoth, BytesType
<1> QED  BY <1>2, <1>3, <1>4, <1>5 DEF a, b

-----------------------------------------------------------------------------
(***************************************************************************)
(* The keys of a list.                                                     *)
(***************************************************************************)
KeysOf(list) == {list[i].key : i \in 1 .. Len(list)}
Distinct(list) == \A i, j \in 1 .. Len(list) : list[i].key = list[j].key => i = j

LEMMA KeysOfNone == KeysOf(<<>>) = {} /\ Distinct(<<>>) /\ <<>> \in Lists
BY DEF KeysOf, Distinct, Lists

LEMMA KeysOfOne ==
  ASSUME NEW e \in Nodes PROVE KeysOf(<<e>>) = {e.key} /\ Distinct(<<e>>)
<1>1. Len(<<e>>) = 1 /\ <<e>>[1] = e
  OBVIOUS
<1>2. 1 .. Len(<<e>>) = {1}
  BY <1>1
<1> QED  BY <1>1, <1>2 DEF KeysOf, Distinct

LEMMA KeysOfBoth ==
  ASSUME NEW a \in Lists, NEW b \in Lists
  PROVE  /\ KeysOf(a \o b) = KeysOf(a) \union KeysOf(b)
         /\ Distinct(a \o b) <=>
              Distinct(a) /\ Distinct(b) /\ KeysOf(a) \intersect KeysOf(b) = {}
<1> DEFINE c == a \o b
<1>1. /\ Len(a) \in Nat /\ Len(b) \in Nat /\ Len(c) = Len(a) + Len(b)
      /\ \A i \in 1 .. Len(a) : i \in 1 .. Len(c) /\ c[i] = a[i]
      /\ \A i \in 1 .. Len(b) : Len(a) + i \in 1 .. Len(c) /\ c[Len(a) + i] = b[i]
  BY ListFields, ConcatProperties DEF Lists
<1> HIDE DEF c
<1>2. \A i \in 1 .. Len(c) :
        \/ i \in 1 .. Len(a) /\ c[i] = a[i]
        \/ i - Len(a) \in 1 .. Len(b) /\ c[i] = b[i - Len(a)]
  <2> SUFFICES ASSUME NEW i \in 1 .. Len(c), i \notin 1 .. Len(a)
               PROVE  i - Len(a) \in 1 .. Len(b) /\ c[i] = b[i - Len(a)]
    BY <1>1
  <2>1. i - Len(a) \in 1 .. Len(b) /\ Len(a) + (i - Len(a)) = i
    BY <1>1
  <2> QED  BY <1>1, <2>1
<1>3. KeysOf(c) = KeysOf(a) \union KeysOf(b)
  <2>1. \A i \in 1 .. Len(c) : c[i].key \in KeysOf(a) \union KeysOf(b)
    BY <1>2 DEF KeysOf
  <2>2. \A i \in 1 .. Len(a) : a[i].key \in KeysOf(c)
    BY <1>1 DEF KeysOf
  <2>3. \A i \in 1 .. Len(b) : b[i].key \in KeysOf(c)
    BY <1>1 DEF KeysOf
  <2> QED  BY <2>1, <2>2, <2>3 DEF KeysOf
<1>4. ASSUME Distinct(c)
      PROVE  Distinct(a) /\ Distinct(b) /\ KeysOf(a) \intersect KeysOf(b) = {}
  <2>1. Distinct(a)
    BY <1>1, <1>4 DEF Distinct
  <2>2. ASSUME NEW i \in 1 .. Len(b), NEW j \in 1 .. Len(b), b[i].key = b[j].key PROVE i = j
    <3>1. Len(a) + i \in 1 .. Len(c) /\ Len(a) + j \in 1 .. Len(c)
      BY <1>1
    <3>2. c[Len(a) + i].key = c[Len(a) + j].key
      BY <1>1, <2>2
    <3>3. Len(a) + i = Len(a) + j
      BY <1>4, <3>1, <3>2, Zenon DEF Distinct
    <3> QED  BY <1>1, <3>3
  <2>3. ASSUME NEW i \in 1 .. Len(a), NEW j \in 1 .. Len(b) PROVE a[i].key # b[j].key
    <3>1. i # Len(a) + j
      BY <1>1
    <3> QED  BY <1>1, <1>4, <3>1 DEF Distinct
  <2> QED  BY <2>1, <2>2, <2>3 DEF Distinct, KeysOf
<1>5. ASSUME Distinct(a), Distinct(b), KeysOf(a) \intersect KeysOf(b) = {}
      PROVE  Distinct(c)
  <2>1. \A i \in 1 .. Len(a), j \in 1 .. Len(b) : a[i].key # b[j].key
    BY <1>5 DEF KeysOf
  <2> SUFFICES ASSUME NEW i \in 1 .. Len(c), NEW j \in 1 .. Len(c), c[i].key = c[j].key
               PROVE  i = j
    BY DEF Distinct
  <2>2. CASE i \in 1 .. Len(a) /\ j \in 1 .. Len(a)
    BY <1>1, <1>5, <2>2 DEF Distinct
  <2>3. CASE i \notin 1 .. Len(a) /\ j \notin 1 .. Len(a)
    <3>1. i - Len(a) = j - Len(a)
      BY <1>2, <1>5, <2>3 DEF Distinct
    <3> QED  BY <1>1, <3>1
  <2>4. CASE i \in 1 .. Len(a) /\ j \notin 1 .. Len(a)
    <3>1. j - Len(a) \in 1 .. Len(b) /\ c[j] = b[j - Len(a)] /\ c[i] = a[i]
      BY <1>1, <1>2, <2>4
    <3> QED  BY <2>1, <2>4, <3>1
  <2>5. CASE i \notin 1 .. Len(a) /\ j \in 1 .. Len(a)
    <3>1. i - Len(a) \in 1 .. Len(b) /\ c[i] = b[i - Len(a)] /\ c[j] = a[j]
      BY <1>1, <1>2, <2>5
    <3> QED  BY <2>1, <2>5, <3>1
  <2> QED  BY <2>2, <2>3, <2>4, <2>5
<1> QED  BY <1>3, <1>4, <1>5 DEF c

\* removeNode: the entry of k is unlinked, and its bytes are gone.
LEMMA WithoutIs ==
  ASSUME NEW list \in Lists, NEW k
  PROVE  /\ Without(list, k) \in Lists /\ SizeIn(list, k) \in Nat
         /\ Bytes(Without(list, k)) + SizeIn(list, k) = Bytes(list)
         /\ Has(list, k) <=> k \in KeysOf(list)
         /\ Has(list, k) => k \in PoolKeys /\ SizeIn(list, k) # 0
         /\ ~Has(list, k) => Without(list, k) = list /\ SizeIn(list, k) = 0
         /\ Distinct(list) =>
              Distinct(Without(list, k)) /\ KeysOf(Without(list, k)) = KeysOf(list) \ {k}
<1>1. Has(list, k) <=> k \in KeysOf(list)
  BY ListFields DEF Has, KeysOf
<1>2. CASE ~Has(list, k)
  BY <1>1, <1>2, BytesType DEF Without, SizeIn
<1>3. CASE Has(list, k)
  <2> DEFINE p == Place(list, k)
             a == SubSeq(list, 1, p - 1)
             b == SubSeq(list, p - 1 + 1, Len(list))
             e == SubSeq(b, 1, 1)
             d == SubSeq(b, 1 + 1, Len(b))
  <2>1. p \in 1 .. Len(list) /\ list[p].key = k
    BY <1>3, ListFields DEF Has, Place
  <2> HIDE DEF p
  <2>2. p - 1 \in 0 .. Len(list) /\ p - 1 + 1 = p /\ Len(list) \in Nat
    BY <2>1, ListFields
  <2>3. /\ a \in Lists /\ b \in Lists /\ Len(b) = Len(list) - (p - 1)
        /\ \A i \in 1 .. Len(list) - (p - 1) : b[i] = list[p - 1 + i]
        /\ Bytes(a) + Bytes(b) = Bytes(list) /\ Bytes(a) \in Nat /\ Bytes(b) \in Nat
        /\ a \o b = list
    BY <2>2, Cut
  <2>4. 1 \in 0 .. Len(b) /\ b[1] = list[p]
    BY <2>1, <2>2, <2>3
  <2> HIDE DEF a, b
  <2>5. /\ e \in Lists /\ Len(e) = 1 /\ e[1] = list[p]
        /\ d \in Lists /\ Bytes(e) + Bytes(d) = Bytes(b)
        /\ Bytes(e) \in Nat /\ Bytes(d) \in Nat /\ e \o d = b
    <3>1. /\ e \in Lists /\ Len(e) = 1 /\ \A i \in 1 .. 1 : e[i] = b[i]
          /\ d \in Lists /\ Bytes(e) + Bytes(d) = Bytes(b)
          /\ Bytes(e) \in Nat /\ Bytes(d) \in Nat /\ e \o d = b
      BY <2>3, <2>4, Cut
    <3>2. e[1] = b[1]
      BY <3>1
    <3> QED  BY <2>4, <3>1, <3>2
  <2>6. list[p] \in Nodes
    BY <2>1, ListFields
  <2>7. e = <<list[p]>>
    <3>1. e \in Seq(Nodes) /\ <<list[p]>> \in Seq(Nodes)
      BY <2>5, <2>6 DEF Lists
    <3>2. Len(<<list[p]>>) = Len(e) /\ \A i \in 1 .. Len(e) : e[i] = <<list[p]>>[i]
      BY <2>5
    <3> HIDE DEF e
    <3> QED  BY <3>1, <3>2, SeqEqual
  <2>8. d = SubSeq(list, p + 1, Len(list))
    <3> DEFINE r == SubSeq(list, p + 1, Len(list))
    <3>1. /\ d \in Lists /\ Len(d) = Len(b) - 1
          /\ \A i \in 1 .. Len(b) - 1 : d[i] = b[1 + i]
      BY <2>3, <2>4, Cut
    <3>2. p \in 0 .. Len(list)
      BY <2>1, <2>2
    <3>3. /\ r \in Lists /\ Len(r) = Len(list) - p
          /\ \A i \in 1 .. Len(list) - p : r[i] = list[p + i]
      BY <3>2, Cut
    <3>4. Len(d) = Len(r)
      BY <2>1, <2>2, <2>3, <3>1, <3>3
    <3>5. ASSUME NEW i \in 1 .. Len(d) PROVE d[i] = r[i]
      <4>1. /\ i \in 1 .. Len(list) - p /\ i \in 1 .. Len(b) - 1
            /\ 1 + i \in 1 .. Len(list) - (p - 1) /\ p - 1 + (1 + i) = p + i
        BY <2>1, <2>2, <2>3, <3>1
      <4>2. d[i] = b[1 + i] /\ r[i] = list[p + i]
        BY <3>1, <3>3, <4>1
      <4>3. b[1 + i] = list[p - 1 + (1 + i)]
        BY <2>3, <4>1
      <4> QED  BY <4>1, <4>2, <4>3
    <3> HIDE DEF d, r
    <3>6. d = r
      BY <3>1, <3>3, <3>4, <3>5, SeqEqual DEF Lists
    <3> QED  BY <3>6 DEF r
  <2> HIDE DEF d, e
  <2>9. Without(list, k) = a \o d
    BY <1>3, <2>8 DEF Without, RemoveAt, p, a
  <2>10. SizeIn(list, k) = list[p].size
    BY <1>3 DEF SizeIn, p
  <2>11. Bytes(e) = list[p].size /\ KeysOf(e) = {k}
    BY <2>1, <2>6, <2>7, BytesOfOne, KeysOfOne
  <2>12. a \o d \in Lists /\ Bytes(a \o d) = Bytes(a) + Bytes(d)
    BY <2>3, <2>5, BytesOfBoth
  <2>13. SizeIn(list, k) \in Nat /\ SizeIn(list, k) # 0 /\ k \in PoolKeys
    BY <2>1, <2>6, <2>10, NodeFields
  <2>14. Bytes(Without(list, k)) + SizeIn(list, k) = Bytes(list)
    BY <2>3, <2>5, <2>9, <2>10, <2>11, <2>12
  <2>15. /\ KeysOf(list) = KeysOf(a) \union ({k} \union KeysOf(d))
         /\ KeysOf(a \o d) = KeysOf(a) \union KeysOf(d)
    <3>1. /\ KeysOf(a \o b) = KeysOf(a) \union KeysOf(b)
          /\ KeysOf(e \o d) = KeysOf(e) \union KeysOf(d)
          /\ KeysOf(a \o d) = KeysOf(a) \union KeysOf(d)
      BY <2>3, <2>5, KeysOfBoth
    <3> QED  BY <2>3, <2>5, <2>11, <3>1
  <2>16. ASSUME Distinct(list)
         PROVE  Distinct(a \o d) /\ KeysOf(a \o d) = KeysOf(list) \ {k}
    <3>1. Distinct(a) /\ Distinct(b) /\ KeysOf(a) \intersect KeysOf(b) = {}
      BY <2>3, <2>16, KeysOfBoth
    <3>2. Distinct(d) /\ KeysOf(e) \intersect KeysOf(d) = {} /\ KeysOf(b) = {k} \union KeysOf(d)
      BY <2>5, <2>11, <3>1, KeysOfBoth
    <3>3. Distinct(a \o d)
      BY <2>3, <2>5, <3>1, <3>2, KeysOfBoth
    <3>4. k \notin KeysOf(a) /\ k \notin KeysOf(d)
      BY <2>11, <3>1, <3>2
    <3> QED  BY <2>15, <3>3, <3>4
  <2> QED  BY <1>1, <1>3, <2>9, <2>12, <2>13, <2>14, <2>16
<1> QED  BY <1>2, <1>3

\* How many entries stay when a list is popped.
LEMMA KeptIs ==
  ASSUME NEW list \in Lists, NEW used \in Nat, NEW room \in Nat
  PROVE  LET k == Kept(list, used, room)
             out == SubSeq(list, k + 1, Len(list))
         IN /\ k \in 0 .. Len(list)
            /\ used <= room + Bytes(list) => used <= room + Bytes(out)
            /\ used > room + Bytes(list) => k = 0
            /\ used <= room => k = Len(list)
            /\ Len(list) # 0 /\ used <= room + Bytes(SubSeq(list, 1 + 1, Len(list))) => k # 0
<1> DEFINE k == Kept(list, used, room)
           fits == {j \in 0 .. Len(list) :
                      used <= room + Bytes(SubSeq(list, j + 1, Len(list)))}
<1>0. Len(list) \in Nat /\ Bytes(list) \in Nat
  BY ListFields, BytesType
<1>1. k = IF fits = {} THEN 0 ELSE Max(fits)
  BY DEF Kept
<1>2. SubSeq(list, 0 + 1, Len(list)) = list
  BY SubSeqFull DEF Lists
<1>3. fits # {} => Max(fits) \in fits /\ \A j \in fits : j <= Max(fits)
  <2> SUFFICES ASSUME fits # {} PROVE \E x \in fits : \A y \in fits : x >= y
    BY <1>0 DEF Max
  <2> DEFINE rest == {n \in Nat : Len(list) - n \in fits}
  <2> HIDE DEF fits
  <2>1. fits \subseteq 0 .. Len(list)
    BY DEF fits
  <2>2. rest # {} /\ rest \in SUBSET Nat
    <3>1. PICK j \in fits : TRUE
      OBVIOUS
    <3>2. Len(list) - j \in Nat /\ Len(list) - (Len(list) - j) = j
      BY <1>0, <2>1
    <3> QED  BY <3>1, <3>2
  <2>3. PICK n \in rest : \A m \in rest : n <= m
    <3> HIDE DEF rest
    <3> QED  BY <2>2, SmallestOf
  <2>4. ASSUME NEW y \in fits PROVE Len(list) - n >= y
    <3>1. Len(list) - y \in Nat /\ Len(list) - (Len(list) - y) = y
      BY <1>0, <2>1
    <3>2. n <= Len(list) - y
      BY <2>3, <3>1
    <3> QED  BY <1>0, <2>1, <3>1, <3>2
  <2> QED  BY <2>3, <2>4
<1>4. used <= room + Bytes(list) => 0 \in fits
  <2>1. 0 \in 0 .. Len(list)
    BY <1>0
  <2> QED  BY <1>2, <2>1, Zenon
<1>5. \A j \in fits : used <= room + Bytes(list)
  <2> SUFFICES ASSUME NEW j \in 0 .. Len(list),
                      used <= room + Bytes(SubSeq(list, j + 1, Len(list)))
               PROVE  used <= room + Bytes(list)
    OBVIOUS
  <2> DEFINE b == Bytes(SubSeq(list, j + 1, Len(list)))
             a == Bytes(SubSeq(list, 1, j))
  <2>1. a + b = Bytes(list) /\ a \in Nat /\ b \in Nat
    BY Cut
  <2>2. used <= room + b
    OBVIOUS
  <2> HIDE DEF a, b
  <2> QED  BY <1>0, <2>1, <2>2
<1>6. used <= room => Len(list) \in fits
  <2>1. SubSeq(list, Len(list) + 1, Len(list)) = <<>>
    BY <1>0, SubSeqEmpty
  <2>2. Len(list) \in 0 .. Len(list) /\ Bytes(SubSeq(list, Len(list) + 1, Len(list))) = 0
    <3>1. Len(list) \in 0 .. Len(list)
      BY <1>0
    <3> QED  BY <2>1, <3>1, BytesOfNone, Zenon
  <2>3. used <= room => used <= room + 0
    OBVIOUS
  <2> QED  BY <2>2, <2>3
<1>7. k \in 0 .. Len(list)
  BY <1>0, <1>1, <1>3
<1>8. ASSUME used <= room + Bytes(list) PROVE used <= room + Bytes(SubSeq(list, k + 1, Len(list)))
  <2>1. k \in fits
    <3> HIDE DEF k, fits
    <3> QED  BY <1>1, <1>3, <1>4, <1>8
  <2> QED  BY <2>1
<1>9. used > room + Bytes(list) => k = 0
  <2> SUFFICES ASSUME used > room + Bytes(list) PROVE fits = {}
    BY <1>1
  <2> HIDE DEF fits
  <2> QED  BY <1>0, <1>5
<1>10. used <= room => k = Len(list)
  <2> SUFFICES ASSUME used <= room PROVE k = Len(list)
    OBVIOUS
  <2>1. k \in fits /\ Len(list) \in fits /\ Len(list) <= k
    <3> HIDE DEF k, fits
    <3> QED  BY <1>1, <1>3, <1>6
  <2> HIDE DEF k, fits
  <2> QED  BY <1>0, <1>7, <2>1
<1>11. ASSUME Len(list) # 0, used <= room + Bytes(SubSeq(list, 1 + 1, Len(list))) PROVE k # 0
  <2>1. 1 \in 0 .. Len(list)
    BY <1>0, <1>11
  <2>2. 1 \in fits
    BY <1>11, <2>1, Zenon
  <2> HIDE DEF k, fits
  <2> QED  BY <1>1, <1>3, <1>7, <2>2
<1> QED  BY <1>7, <1>8, <1>9, <1>10, <1>11

First(list) == list[1]
Begins(a, b) == a # <<>> => b # <<>> /\ First(a) = First(b)

\* What a list that is popped keeps, and what it loses.
Stays(list, used, room) == SubSeq(list, 1, Kept(list, used, room))
Leaves(list, used, room) == SubSeq(list, Kept(list, used, room) + 1, Len(list))

\* The first entries of two lists are one when their keys are.
OneOf(a, b) == a # <<>> /\ b # <<>> /\ First(a).key = First(b).key => First(a) = First(b)

IsCut(list, used, room) ==
  LET kept == Stays(list, used, room)
      out == Leaves(list, used, room)
  IN /\ kept \in Lists /\ out \in Lists
     /\ Bytes(kept) + Bytes(out) = Bytes(list)
     /\ Bytes(kept) \in Nat /\ Bytes(out) \in Nat
     /\ KeysOf(list) = KeysOf(kept) \union KeysOf(out)
     /\ Distinct(list) => /\ Distinct(kept) /\ Distinct(out)
                          /\ KeysOf(kept) \intersect KeysOf(out) = {}
     /\ used <= room + Bytes(list) => used <= room + Bytes(out)
     /\ used > room + Bytes(list) => kept = <<>>
     /\ used <= room => kept = list /\ out = <<>>
     /\ Begins(kept, list)
     /\ Distinct(list) => OneOf(out, list)

LEMMA Popped ==
  ASSUME NEW list \in Lists, NEW used \in Nat, NEW room \in Nat
  PROVE  IsCut(list, used, room)
<1> DEFINE k == Kept(list, used, room)
           kept == SubSeq(list, 1, k)
           out == SubSeq(list, k + 1, Len(list))
<1>1. /\ k \in 0 .. Len(list)
      /\ used <= room + Bytes(list) => used <= room + Bytes(out)
      /\ used > room + Bytes(list) => k = 0
      /\ used <= room => k = Len(list)
  BY KeptIs
<1>2. Len(list) \in Nat /\ k \in Int
  BY <1>1, ListFields
<1> HIDE DEF k
<1>9. /\ Len(out) = Len(list) - k /\ out \in Lists
      /\ \A i \in 1 .. Len(list) - k : out[i] = list[k + i]
  BY <1>1, Cut
<1>8. ASSUME Distinct(list), out # <<>>, list # <<>>, First(out).key = First(list).key
      PROVE  First(out) = First(list)
  <2> HIDE DEF kept, out
  <2>1. Len(out) \in Nat \ {0}
    BY <1>8, <1>9, EmptySeq DEF Lists
  <2>2. 1 \in 1 .. Len(list) - k /\ k + 1 \in 1 .. Len(list) /\ 1 \in 1 .. Len(list)
    BY <1>1, <1>2, <1>9, <2>1
  <2>3. out[1] = list[k + 1]
    BY <1>9, <2>2
  <2>4. list[k + 1].key = list[1].key
    BY <1>8, <2>3 DEF First
  <2>5. k + 1 = 1
    BY <1>8, <2>2, <2>4 DEF Distinct
  <2> QED  BY <2>3, <2>5 DEF First
<1>3. /\ kept \in Lists /\ Len(kept) = k /\ \A i \in 1 .. k : kept[i] = list[i]
      /\ out \in Lists /\ Bytes(kept) + Bytes(out) = Bytes(list)
      /\ Bytes(kept) \in Nat /\ Bytes(out) \in Nat /\ kept \o out = list
      /\ Len(out) = Len(list) - k
  BY <1>1, Cut
<1>4. k = 0 => kept = <<>>
  BY SubSeqEmpty
<1>5. k = Len(list) => kept = list /\ out = <<>>
  <2>1. SubSeq(list, 1, Len(list)) = list
    BY SubSeqFull DEF Lists
  <2>2. SubSeq(list, Len(list) + 1, Len(list)) = <<>>
    BY <1>2, SubSeqEmpty
  <2> QED  BY <2>1, <2>2, Zenon
<1> HIDE DEF kept, out
<1>6. /\ KeysOf(list) = KeysOf(kept) \union KeysOf(out)
      /\ Distinct(list) => /\ Distinct(kept) /\ Distinct(out)
                           /\ KeysOf(kept) \intersect KeysOf(out) = {}
  <2>1. /\ KeysOf(kept \o out) = KeysOf(kept) \union KeysOf(out)
        /\ Distinct(kept \o out) => /\ Distinct(kept) /\ Distinct(out)
                                    /\ KeysOf(kept) \intersect KeysOf(out) = {}
    BY <1>3, KeysOfBoth
  <2> QED  BY <1>3, <2>1, Zenon
<1>7. ASSUME kept # <<>> PROVE list # <<>> /\ kept[1] = list[1]
  <2>1. Len(kept) \in Nat \ {0}
    BY <1>3, <1>7, EmptySeq DEF Lists
  <2>2. 1 \in 1 .. k /\ Len(list) # 0
    BY <1>1, <1>2, <1>3, <2>1
  <2>3. kept[1] = list[1]
    BY <1>3, <2>2
  <2>4. list # <<>>
    BY <2>2
  <2> QED  BY <2>3, <2>4
<1>10. Begins(kept, list) /\ (Distinct(list) => OneOf(out, list))
  BY <1>7, <1>8 DEF First, Begins, OneOf
<1> QED  BY <1>1, <1>3, <1>4, <1>5, <1>6, <1>10 DEF kept, out, k, Stays, Leaves, IsCut

LEMMA FirstOf ==
  ASSUME NEW list \in Lists, list # <<>>
  PROVE  First(list) \in Nodes /\ First(list).key \in KeysOf(list) /\ Len(list) \in Nat \ {0}
<1>1. Len(list) \in Nat \ {0}
  BY EmptySeq DEF Lists
<1>2. 1 \in 1 .. Len(list)
  BY <1>1
<1> QED  BY <1>1, <1>2, ListFields DEF First, KeysOf

\* An entry for which there is room by itself stays when it is the first.
LEMMA FirstStays ==
  ASSUME NEW list \in Lists, list # <<>>, NEW room \in Nat, First(list).size <= room
  PROVE  Stays(list, Bytes(list), room) # <<>>
<1> DEFINE a == SubSeq(list, 1, 1)
           b == SubSeq(list, 1 + 1, Len(list))
           k == Kept(list, Bytes(list), room)
<1>1. Len(list) \in Nat /\ Len(list) # 0 /\ 1 \in 0 .. Len(list)
  BY FirstOf
<1>2. /\ a \in Lists /\ Len(a) = 1 /\ a[1] = list[1]
      /\ Bytes(a) + Bytes(b) = Bytes(list) /\ Bytes(a) \in Nat /\ Bytes(b) \in Nat
  <2>1. PICK j \in 0 .. Len(list) : j = 1
    BY <1>1
  <2>2. LET c == SubSeq(list, 1, j)
            d == SubSeq(list, j + 1, Len(list))
        IN /\ c \in Lists /\ Len(c) = j /\ \A i \in 1 .. j : c[i] = list[i]
           /\ Bytes(c) + Bytes(d) = Bytes(list) /\ Bytes(c) \in Nat /\ Bytes(d) \in Nat
    BY Cut
  <2>3. a = SubSeq(list, 1, j) /\ b = SubSeq(list, j + 1, Len(list)) /\ 1 \in 1 .. j
    BY <2>1
  <2> HIDE DEF a, b
  <2> QED  BY <2>1, <2>2, <2>3
<1>3. Bytes(a) = First(list).size
  <2>1. Sums(a)[1] = Sums(a)[1 - 1] + a[1].size /\ Sums(a)[0] = 0
    BY <1>2, SumsAre
  <2>2. list[1].size \in Nat
    BY <1>1, ListFields
  <2> QED  BY <1>2, <2>1, <2>2 DEF Bytes, First
<1> HIDE DEF a
<1>4. Bytes(list) \in Nat /\ Bytes(list) <= room + Bytes(b)
  BY <1>2, <1>3, BytesType
<1>5. k \in 0 .. Len(list) /\ k # 0
  BY <1>1, <1>4, KeptIs
<1>6. Len(SubSeq(list, 1, k)) = k
  <2> HIDE DEF k
  <2> QED  BY <1>5, Cut
<1> HIDE DEF k
<1>7. SubSeq(list, 1, k) # <<>>
  BY <1>5, <1>6
<1> QED  BY <1>7 DEF Stays, k

-----------------------------------------------------------------------------
(***************************************************************************)
(* A shard.                                                                *)
(***************************************************************************)
Caches == [prob : Lists, prot : Lists, probBytes : Nat, protBytes : Nat,
           max : Nat, total : Nat]

OneEach(s) == /\ Distinct(s.prob) /\ Distinct(s.prot)
              /\ KeysOf(s.prob) \intersect KeysOf(s.prot) = {}
Counted(s) == /\ s \in Caches /\ OneEach(s)
              /\ s.probBytes = Bytes(s.prob) /\ s.protBytes = Bytes(s.prot)
AllKeys(s) == KeysOf(s.prob) \union KeysOf(s.prot)

\* What holds of a shard between its operations.
Sound(s) == /\ Counted(s) /\ s.total = Used(s)
            /\ s.max # 0 => Used(s) <= s.max
            /\ ProtMax(s.max) # 0 => s.protBytes <= ProtMax(s.max)

LEMMA CacheFields ==
  ASSUME NEW s \in Caches
  PROVE  /\ s.prob \in Lists /\ s.prot \in Lists /\ s.probBytes \in Nat /\ s.protBytes \in Nat
         /\ s.max \in Nat /\ s.total \in Nat /\ Used(s) \in Nat
BY DEF Caches, Used

LEMMA Shares ==
  /\ ProtMax(0) = 0
  /\ \A m \in Nat : ProtMax(m) \in Nat /\ ProtMax(m) <= m
  /\ \A m, n \in Nat : m <= n => ProtMax(m) <= ProtMax(n)
<1>1. \A j \in Nat : Max({j, 1}) = IF j = 0 THEN 1 ELSE j
  <2> SUFFICES ASSUME NEW j \in Nat PROVE Max({j, 1}) = IF j = 0 THEN 1 ELSE j
    OBVIOUS
  <2>1. (IF j = 0 THEN 1 ELSE j) \in {j, 1}
    OBVIOUS
  <2>2. \A y \in {j, 1} : (IF j = 0 THEN 1 ELSE j) >= y
    OBVIOUS
  <2>3. \A x \in {j, 1} : (\A y \in {j, 1} : x >= y) => x = IF j = 0 THEN 1 ELSE j
    OBVIOUS
  <2> HIDE DEF Max
  <2>4. Max({j, 1}) \in {j, 1} /\ \A y \in {j, 1} : Max({j, 1}) >= y
    BY <2>1, <2>2 DEF Max
  <2> QED  BY <2>3, <2>4
<1>2. \A m \in Nat : m \div 4 \in Nat
  OBVIOUS
<1>3. \A m \in Nat : ProtMax(m) = IF m = 0 THEN 0 ELSE m - (IF m \div 4 = 0 THEN 1 ELSE m \div 4)
  BY <1>1, <1>2 DEF ProtMax, ProbMax
<1>4. \A m, n \in Nat : m <= n => m \div 4 <= n \div 4 /\ (n \div 4) - (m \div 4) <= n - m
  OBVIOUS
<1>5. \A m \in Nat : m \div 4 <= m
  OBVIOUS
<1> QED  BY <1>2, <1>3, <1>4, <1>5

\* demoteProtected: nothing is lost, and the protected list keeps to its share.
LEMMA DemotedIs ==
  ASSUME NEW s, Counted(s), NEW t, t = Demoted(s)
  PROVE  /\ Counted(t) /\ t.max = s.max /\ t.total = s.total /\ Used(t) = Used(s)
         /\ AllKeys(t) = AllKeys(s)
         /\ ProtMax(s.max) # 0 => t.protBytes <= ProtMax(s.max)
         /\ ProtMax(s.max) = 0 \/ s.protBytes <= ProtMax(s.max) => t = s
         /\ s.prot # <<>> /\ First(s.prot).size <= ProtMax(s.max)
              => First(s.prot).key \in KeysOf(t.prot)
         /\ OneOf(t.prob, s.prot)
<1> DEFINE m == ProtMax(s.max)
           kept == Stays(s.prot, s.protBytes, m)
           out == Leaves(s.prot, s.protBytes, m)
<1>0. /\ s \in Caches /\ s.prob \in Lists /\ s.prot \in Lists /\ s.probBytes \in Nat
      /\ s.protBytes \in Nat /\ s.max \in Nat /\ s.total \in Nat /\ Used(s) \in Nat
      /\ m \in Nat
  BY CacheFields, Shares DEF Counted
<1>1. CASE m = 0
  <2>1. t = s
    BY <1>1 DEF Demoted
  <2>2. OneOf(s.prob, s.prot)
    BY <1>0, FirstOf DEF OneOf, Counted, OneEach
  <2> QED  BY <1>0, <1>1, <2>1, <2>2, FirstOf
<1>2. CASE m # 0
  <2> HIDE DEF m
  <2>1. /\ kept \in Lists /\ out \in Lists
        /\ Bytes(kept) + Bytes(out) = Bytes(s.prot)
        /\ Bytes(kept) \in Nat /\ Bytes(out) \in Nat
        /\ KeysOf(s.prot) = KeysOf(kept) \union KeysOf(out)
        /\ Distinct(s.prot) => /\ Distinct(kept) /\ Distinct(out)
                               /\ KeysOf(kept) \intersect KeysOf(out) = {}
        /\ s.protBytes <= m + Bytes(s.prot) => s.protBytes <= m + Bytes(out)
        /\ s.protBytes <= m => kept = s.prot /\ out = <<>>
        /\ Begins(kept, s.prot)
        /\ Distinct(s.prot) => OneOf(out, s.prot)
    <3>1. IsCut(s.prot, s.protBytes, m)
      BY <1>0, Popped
    <3> HIDE DEF kept, out
    <3> QED  BY <3>1 DEF IsCut, kept, out
  <2>2. t = [s EXCEPT !.prot = kept, !.protBytes = @ - Bytes(out),
                      !.prob = out \o @, !.probBytes = @ + Bytes(out)]
    BY <1>2 DEF Demoted, m, Stays, Leaves
  <2> HIDE DEF kept, out
  <2>3. /\ out \o s.prob \in Lists /\ Bytes(out \o s.prob) = Bytes(out) + Bytes(s.prob)
        /\ KeysOf(out \o s.prob) = KeysOf(out) \union KeysOf(s.prob)
        /\ Distinct(out \o s.prob) <=>
             Distinct(out) /\ Distinct(s.prob) /\ KeysOf(out) \intersect KeysOf(s.prob) = {}
    BY <1>0, <2>1, BytesOfBoth, KeysOfBoth
  <2>4. /\ s.protBytes = Bytes(s.prot) /\ s.probBytes = Bytes(s.prob)
        /\ Distinct(s.prob) /\ Distinct(s.prot)
        /\ KeysOf(s.prob) \intersect KeysOf(s.prot) = {}
    BY DEF Counted, OneEach
  <2>5. s.protBytes - Bytes(out) = Bytes(kept) /\ s.protBytes <= m + Bytes(s.prot)
    BY <1>0, <2>1, <2>4
  <2>6. /\ t.prot = kept /\ t.prob = out \o s.prob /\ t.max = s.max /\ t.total = s.total
        /\ t.protBytes = s.protBytes - Bytes(out) /\ t.probBytes = s.probBytes + Bytes(out)
    BY <1>0, <2>2 DEF Caches
  <2>7. t \in Caches
    <3>1. s.protBytes - Bytes(out) \in Nat /\ s.probBytes + Bytes(out) \in Nat
      BY <1>0, <2>1, <2>5
    <3> QED  BY <1>0, <2>1, <2>2, <2>3, <3>1 DEF Caches
  <2>8. Counted(t)
    <3>1. t.probBytes = Bytes(t.prob) /\ t.protBytes = Bytes(t.prot)
      BY <1>0, <2>1, <2>3, <2>4, <2>5, <2>6
    <3>2. OneEach(t)
      BY <2>1, <2>3, <2>4, <2>6 DEF OneEach
    <3> QED  BY <2>7, <3>1, <3>2 DEF Counted
  <2>9. Used(t) = Used(s) /\ AllKeys(t) = AllKeys(s)
    BY <1>0, <2>1, <2>3, <2>6 DEF Used, AllKeys
  <2>10. t.protBytes <= m
    BY <1>0, <2>1, <2>5, <2>6
  <2>11. ASSUME s.protBytes <= m PROVE t = s
    <3>1. kept = s.prot /\ out = <<>> /\ Bytes(out) = 0
      BY <2>1, <2>11, BytesOfNone
    <3>2. out \o s.prob = s.prob
      BY <1>0, <3>1, ConcatEmptySeq DEF Lists
    <3>3. s.protBytes - Bytes(out) = s.protBytes /\ s.probBytes + Bytes(out) = s.probBytes
      BY <1>0, <3>1
    <3> QED  BY <1>0, <2>7, <2>6, <3>1, <3>2, <3>3 DEF Caches
  <2>12. ASSUME s.prot # <<>>, First(s.prot).size <= m PROVE First(s.prot).key \in KeysOf(t.prot)
    <3>1. Stays(s.prot, Bytes(s.prot), m) # <<>>
      BY <1>0, <2>12, FirstStays
    <3>2. kept # <<>> /\ First(kept) = First(s.prot)
      BY <2>1, <2>4, <3>1 DEF kept, Begins
    <3> QED  BY <2>1, <2>6, <3>2, FirstOf
  <2>13. OneOf(out \o s.prob, s.prot)
    <3>1. CASE out = <<>>
      <4>1. out \o s.prob = s.prob
        BY <1>0, <3>1, ConcatEmptySeq DEF Lists
      <4>2. OneOf(s.prob, s.prot)
        BY <1>0, <2>4, FirstOf DEF OneOf
      <4> QED  BY <4>1, <4>2
    <3>2. CASE out # <<>>
      <4>1. Len(out) \in Nat \ {0} /\ Len(s.prob) \in Nat
        BY <1>0, <2>1, <3>2, EmptySeq DEF Lists
      <4>2. 1 \in 1 .. Len(out) + Len(s.prob) /\ 1 <= Len(out)
        BY <4>1
      <4>3. (out \o s.prob)[1] = out[1]
        BY <1>0, <2>1, <4>2, ConcatProperties DEF Lists
      <4>4. First(out \o s.prob) = First(out)
        BY <4>3 DEF First
      <4> QED  BY <2>1, <2>4, <3>2, <4>4 DEF OneOf
    <3> QED  BY <3>1, <3>2
  <2> QED  BY <1>2, <2>6, <2>8, <2>9, <2>10, <2>11, <2>12, <2>13 DEF m
<1> QED  BY <1>1, <1>2

Within(t, s) == AllKeys(t) \subseteq AllKeys(s)

\* evictProbation, the probationary list.
LEMMA ProbEvictedIs ==
  ASSUME NEW s, Counted(s), NEW t, t = ProbEvicted(s)
  PROVE  /\ Counted(t) /\ t.max = s.max /\ t.total = s.total /\ Within(t, s)
         /\ t.prot = s.prot /\ t.protBytes = s.protBytes /\ Used(t) <= Used(s)
         /\ Used(s) <= s.max + s.probBytes => Used(t) <= s.max
         /\ Used(s) > s.max + s.probBytes => t.prob = <<>>
         /\ Used(s) <= s.max => t = s
         /\ Begins(t.prob, s.prob)
<1> DEFINE kept == Stays(s.prob, Used(s), s.max)
           out == Leaves(s.prob, Used(s), s.max)
<1>1. /\ s \in Caches /\ s.prob \in Lists /\ s.prot \in Lists /\ s.probBytes \in Nat
      /\ s.protBytes \in Nat /\ s.max \in Nat /\ s.total \in Nat /\ Used(s) \in Nat
  BY CacheFields DEF Counted
<1>2. /\ s.protBytes = Bytes(s.prot) /\ s.probBytes = Bytes(s.prob)
      /\ Distinct(s.prob) /\ Distinct(s.prot)
      /\ KeysOf(s.prob) \intersect KeysOf(s.prot) = {}
  BY DEF Counted, OneEach
<1>3. /\ kept \in Lists /\ out \in Lists
      /\ Bytes(kept) + Bytes(out) = Bytes(s.prob)
      /\ Bytes(kept) \in Nat /\ Bytes(out) \in Nat
      /\ KeysOf(s.prob) = KeysOf(kept) \union KeysOf(out)
      /\ Distinct(s.prob) => Distinct(kept)
      /\ Used(s) <= s.max + Bytes(s.prob) => Used(s) <= s.max + Bytes(out)
      /\ Used(s) > s.max + Bytes(s.prob) => kept = <<>>
      /\ Used(s) <= s.max => kept = s.prob /\ out = <<>>
      /\ Begins(kept, s.prob)
  <2>1. IsCut(s.prob, Used(s), s.max)
    BY <1>1, Popped
  <2> HIDE DEF kept, out
  <2> QED  BY <2>1 DEF IsCut, kept, out
<1>4. t = [s EXCEPT !.prob = kept, !.probBytes = @ - Bytes(out)]
  BY DEF ProbEvicted, Stays, Leaves
<1> HIDE DEF kept, out
<1>5. /\ t.prob = kept /\ t.prot = s.prot /\ t.max = s.max /\ t.total = s.total
      /\ t.probBytes = s.probBytes - Bytes(out) /\ t.protBytes = s.protBytes
  BY <1>1, <1>4 DEF Caches
<1>6. t.probBytes = Bytes(kept)
  BY <1>1, <1>2, <1>3, <1>5
<1>7. t \in Caches
  <2>1. s.probBytes - Bytes(out) \in Nat
    BY <1>3, <1>5, <1>6
  <2> QED  BY <1>1, <1>3, <1>4, <2>1 DEF Caches
<1>8. Counted(t) /\ Within(t, s)
  <2>1. OneEach(t)
    BY <1>2, <1>3, <1>5 DEF OneEach
  <2> QED  BY <1>2, <1>3, <1>5, <1>6, <1>7, <2>1 DEF Counted, Within, AllKeys
<1>9. Used(t) = Used(s) - Bytes(out)
  BY <1>1, <1>3, <1>5 DEF Used
<1>10. ASSUME Used(s) <= s.max PROVE t = s
  <2>1. kept = s.prob /\ Bytes(out) = 0
    BY <1>3, <1>10, BytesOfNone
  <2>2. t.probBytes = s.probBytes
    BY <1>1, <1>5, <2>1
  <2> QED  BY <1>1, <1>5, <1>7, <2>1, <2>2 DEF Caches
<1>11. Used(t) <= Used(s)
  BY <1>1, <1>3, <1>9
<1>12. Used(s) <= s.max + s.probBytes => Used(t) <= s.max
  BY <1>1, <1>2, <1>3, <1>9
<1> QED  BY <1>2, <1>3, <1>5, <1>8, <1>10, <1>11, <1>12

\* evictProbation, the protected list.
LEMMA ProtEvictedIs ==
  ASSUME NEW s, Counted(s), NEW t, t = ProtEvicted(s)
  PROVE  /\ Counted(t) /\ t.max = s.max /\ t.total = s.total /\ Within(t, s)
         /\ t.prob = s.prob /\ t.protBytes <= s.protBytes /\ Used(t) <= Used(s)
         /\ Used(s) <= s.max + s.protBytes => Used(t) <= s.max
         /\ Used(s) <= s.max => t = s
<1> DEFINE kept == Stays(s.prot, Used(s), s.max)
           out == Leaves(s.prot, Used(s), s.max)
<1>1. /\ s \in Caches /\ s.prob \in Lists /\ s.prot \in Lists /\ s.probBytes \in Nat
      /\ s.protBytes \in Nat /\ s.max \in Nat /\ s.total \in Nat /\ Used(s) \in Nat
  BY CacheFields DEF Counted
<1>2. /\ s.protBytes = Bytes(s.prot) /\ s.probBytes = Bytes(s.prob)
      /\ Distinct(s.prob) /\ Distinct(s.prot)
      /\ KeysOf(s.prob) \intersect KeysOf(s.prot) = {}
  BY DEF Counted, OneEach
<1>3. /\ kept \in Lists /\ out \in Lists
      /\ Bytes(kept) + Bytes(out) = Bytes(s.prot)
      /\ Bytes(kept) \in Nat /\ Bytes(out) \in Nat
      /\ KeysOf(s.prot) = KeysOf(kept) \union KeysOf(out)
      /\ Distinct(s.prot) => Distinct(kept)
      /\ Used(s) <= s.max + Bytes(s.prot) => Used(s) <= s.max + Bytes(out)
      /\ Used(s) <= s.max => kept = s.prot /\ out = <<>>
  <2>1. IsCut(s.prot, Used(s), s.max)
    BY <1>1, Popped
  <2> HIDE DEF kept, out
  <2> QED  BY <2>1 DEF IsCut, kept, out
<1>4. t = [s EXCEPT !.prot = kept, !.protBytes = @ - Bytes(out)]
  BY DEF ProtEvicted, Stays, Leaves
<1> HIDE DEF kept, out
<1>5. /\ t.prot = kept /\ t.prob = s.prob /\ t.max = s.max /\ t.total = s.total
      /\ t.protBytes = s.protBytes - Bytes(out) /\ t.probBytes = s.probBytes
  BY <1>1, <1>4 DEF Caches
<1>6. t.protBytes = Bytes(kept)
  BY <1>1, <1>2, <1>3, <1>5
<1>7. t \in Caches
  <2>1. s.protBytes - Bytes(out) \in Nat
    BY <1>3, <1>5, <1>6
  <2> QED  BY <1>1, <1>3, <1>4, <2>1 DEF Caches
<1>8. Counted(t) /\ Within(t, s)
  <2>1. OneEach(t)
    BY <1>2, <1>3, <1>5 DEF OneEach
  <2> QED  BY <1>2, <1>3, <1>5, <1>6, <1>7, <2>1 DEF Counted, Within, AllKeys
<1>9. Used(t) = Used(s) - Bytes(out)
  BY <1>1, <1>3, <1>5 DEF Used
<1>10. ASSUME Used(s) <= s.max PROVE t = s
  <2>1. kept = s.prot /\ Bytes(out) = 0
    BY <1>3, <1>10, BytesOfNone
  <2>2. t.protBytes = s.protBytes
    BY <1>1, <1>5, <2>1
  <2> QED  BY <1>1, <1>5, <1>7, <2>1, <2>2 DEF Caches
<1>11. Used(t) <= Used(s) /\ t.protBytes <= s.protBytes
  BY <1>1, <1>3, <1>5, <1>9
<1>12. Used(s) <= s.max + s.protBytes => Used(t) <= s.max
  BY <1>1, <1>2, <1>3, <1>9
<1> QED  BY <1>2, <1>3, <1>5, <1>8, <1>10, <1>11, <1>12

\* evictProbation: the cache keeps to its capacity, and the protected list is touched
\* only when the probationary one is empty.
LEMMA EvictedIs ==
  ASSUME NEW s, Counted(s), NEW t, t = Evicted(s)
  PROVE  /\ Counted(t) /\ t.max = s.max /\ t.total = s.total /\ Within(t, s)
         /\ t.protBytes <= s.protBytes /\ Used(t) <= Used(s)
         /\ s.max # 0 => Used(t) <= s.max
         /\ s.max = 0 \/ Used(s) <= s.max => t = s
         /\ t.prob # <<>> => t.prot = s.prot
         /\ Begins(t.prob, s.prob)
<1>1. /\ s.probBytes \in Nat /\ s.protBytes \in Nat /\ s.max \in Nat /\ Used(s) \in Nat
      /\ Used(s) = s.probBytes + s.protBytes
  BY CacheFields DEF Counted, Used
<1>2. CASE s.max = 0
  <2>1. t = s
    BY <1>2 DEF Evicted
  <2> QED  BY <1>1, <1>2, <2>1 DEF Within, Begins
<1>3. CASE s.max # 0
  <2> DEFINE u == ProbEvicted(s)
  <2>1. t = ProtEvicted(u)
    BY <1>3 DEF Evicted
  <2>2. /\ Counted(u) /\ u.max = s.max /\ u.total = s.total /\ Within(u, s)
        /\ u.prot = s.prot /\ u.protBytes = s.protBytes /\ Used(u) <= Used(s)
        /\ Used(s) <= s.max + s.probBytes => Used(u) <= s.max
        /\ Used(s) > s.max + s.probBytes => u.prob = <<>>
        /\ Used(s) <= s.max => u = s
        /\ Begins(u.prob, s.prob)
    BY ProbEvictedIs
  <2> HIDE DEF u
  <2>3. /\ Counted(t) /\ t.max = u.max /\ t.total = u.total /\ Within(t, u)
        /\ t.prob = u.prob /\ t.protBytes <= u.protBytes /\ Used(t) <= Used(u)
        /\ Used(u) <= u.max + u.protBytes => Used(t) <= u.max
        /\ Used(u) <= u.max => t = u
    BY <2>1, <2>2, ProtEvictedIs
  <2>4. /\ Used(u) \in Nat /\ Used(t) \in Nat /\ u.protBytes \in Nat /\ t.protBytes \in Nat
        /\ Used(u) = u.probBytes + u.protBytes
    BY <2>2, <2>3, CacheFields DEF Counted, Used
  <2>5. Within(t, s)
    BY <2>2, <2>3 DEF Within
  <2>6. CASE Used(s) <= s.max + s.probBytes
    <3>1. t = u /\ Used(u) <= s.max
      BY <2>2, <2>3, <2>6
    <3> QED  BY <1>1, <1>3, <2>2, <2>3, <2>4, <2>5, <3>1
  <2>7. CASE Used(s) > s.max + s.probBytes
    <3>1. u.prob = <<>> /\ t.prob = <<>>
      BY <2>2, <2>3, <2>7
    <3>2. u.probBytes = 0
      BY <2>2, <3>1, BytesOfNone DEF Counted
    <3>3. Used(u) <= u.max + u.protBytes
      BY <1>1, <2>2, <2>4, <3>2
    <3>4. ~ (Used(s) <= s.max)
      BY <1>1, <2>7
    <3> QED  BY <1>1, <1>3, <2>2, <2>3, <2>4, <2>5, <3>1, <3>3, <3>4
  <2> QED  BY <1>1, <2>6, <2>7
<1> QED  BY <1>2, <1>3

\* Entry k leaves its list.
LEMMA RemovedIs ==
  ASSUME NEW s, Counted(s), NEW k, NEW r, r = Removed(s, k)
  PROVE  /\ Counted(r) /\ r.max = s.max /\ r.total = s.total
         /\ AllKeys(r) = AllKeys(s) \ {k}
         /\ SizeIn(s.prob, k) + SizeIn(s.prot, k) \in Nat
         /\ Used(r) + (SizeIn(s.prob, k) + SizeIn(s.prot, k)) = Used(s)
         /\ r.protBytes <= s.protBytes
         /\ k \notin AllKeys(s) => r = s
         /\ k \in AllKeys(s) => /\ k \in PoolKeys
                                /\ SizeIn(s.prob, k) + SizeIn(s.prot, k) # 0
<1> DEFINE a == Without(s.prob, k)
           b == Without(s.prot, k)
           x == SizeIn(s.prob, k)
           y == SizeIn(s.prot, k)
<1>1. /\ s \in Caches /\ s.prob \in Lists /\ s.prot \in Lists /\ s.probBytes \in Nat
      /\ s.protBytes \in Nat /\ s.max \in Nat /\ s.total \in Nat
  BY CacheFields DEF Counted
<1>2. /\ s.protBytes = Bytes(s.prot) /\ s.probBytes = Bytes(s.prob)
      /\ Distinct(s.prob) /\ Distinct(s.prot)
      /\ KeysOf(s.prob) \intersect KeysOf(s.prot) = {}
  BY DEF Counted, OneEach
<1>3. /\ a \in Lists /\ x \in Nat /\ Bytes(a) + x = Bytes(s.prob)
      /\ Distinct(a) /\ KeysOf(a) = KeysOf(s.prob) \ {k}
      /\ k \in KeysOf(s.prob) => k \in PoolKeys /\ x # 0
      /\ k \notin KeysOf(s.prob) => a = s.prob /\ x = 0
  BY <1>1, <1>2, WithoutIs
<1>4. /\ b \in Lists /\ y \in Nat /\ Bytes(b) + y = Bytes(s.prot)
      /\ Distinct(b) /\ KeysOf(b) = KeysOf(s.prot) \ {k}
      /\ k \in KeysOf(s.prot) => k \in PoolKeys /\ y # 0
      /\ k \notin KeysOf(s.prot) => b = s.prot /\ y = 0
  BY <1>1, <1>2, WithoutIs
<1>5. Bytes(a) \in Nat /\ Bytes(b) \in Nat
  BY <1>3, <1>4, BytesType
<1>6. r = [s EXCEPT !.prob = a, !.prot = b, !.probBytes = @ - x, !.protBytes = @ - y]
  BY DEF Removed
<1> HIDE DEF a, b, x, y
<1>7. /\ r.prob = a /\ r.prot = b /\ r.max = s.max /\ r.total = s.total
      /\ r.probBytes = s.probBytes - x /\ r.protBytes = s.protBytes - y
  BY <1>1, <1>6 DEF Caches
<1>8. r.probBytes = Bytes(a) /\ r.protBytes = Bytes(b)
  BY <1>1, <1>2, <1>3, <1>4, <1>5, <1>7
<1>9. r \in Caches
  <2>1. s.probBytes - x \in Nat /\ s.protBytes - y \in Nat
    BY <1>5, <1>7, <1>8
  <2> QED  BY <1>1, <1>3, <1>4, <1>6, <2>1 DEF Caches
<1>10. Counted(r) /\ AllKeys(r) = AllKeys(s) \ {k}
  <2>1. OneEach(r)
    BY <1>2, <1>3, <1>4, <1>7 DEF OneEach
  <2> QED  BY <1>3, <1>4, <1>7, <1>8, <1>9, <2>1 DEF Counted, AllKeys
<1>11. x + y \in Nat /\ Used(r) + (x + y) = Used(s) /\ r.protBytes <= s.protBytes
  BY <1>1, <1>3, <1>4, <1>7 DEF Used
<1>12. ASSUME k \notin AllKeys(s) PROVE r = s
  <2>1. a = s.prob /\ b = s.prot /\ x = 0 /\ y = 0
    BY <1>3, <1>4, <1>12 DEF AllKeys
  <2>2. r.probBytes = s.probBytes /\ r.protBytes = s.protBytes
    BY <1>1, <1>7, <2>1
  <2> QED  BY <1>1, <1>7, <1>9, <2>1, <2>2 DEF Caches
<1>13. k \in AllKeys(s) => k \in PoolKeys /\ x + y # 0
  BY <1>3, <1>4 DEF AllKeys
<1> QED  BY <1>7, <1>10, <1>11, <1>12, <1>13 DEF x, y

\* A new entry goes in front of a list.
LEMMA PushedIs ==
  ASSUME NEW list \in Lists, NEW e \in Nodes, Distinct(list), e.key \notin KeysOf(list)
  PROVE  /\ <<e>> \o list \in Lists /\ Bytes(<<e>> \o list) = Bytes(list) + e.size
         /\ Distinct(<<e>> \o list) /\ KeysOf(<<e>> \o list) = KeysOf(list) \union {e.key}
         /\ <<e>> \o list # <<>> /\ First(<<e>> \o list) = e
<1>1. /\ <<e>> \in Lists /\ Bytes(<<e>>) = e.size /\ KeysOf(<<e>>) = {e.key}
      /\ Distinct(<<e>>) /\ e.size \in Nat
  BY BytesOfOne, KeysOfOne, NodeFields
<1>2. /\ <<e>> \o list \in Lists /\ Bytes(<<e>> \o list) = Bytes(<<e>>) + Bytes(list)
      /\ KeysOf(<<e>> \o list) = KeysOf(<<e>>) \union KeysOf(list)
      /\ Distinct(<<e>>) /\ Distinct(list) /\ KeysOf(<<e>>) \intersect KeysOf(list) = {}
           => Distinct(<<e>> \o list)
  BY <1>1, BytesOfBoth, KeysOfBoth
<1>3. Len(<<e>> \o list) = 1 + Len(list) /\ (<<e>> \o list)[1] = e
  <2>1. Len(<<e>>) = 1 /\ <<e>>[1] = e /\ Len(list) \in Nat
    BY ListFields
  <2>2. 1 \in 1 .. 1 + Len(list)
    BY <2>1
  <2> QED  BY <1>1, <2>1, <2>2, ConcatProperties DEF Lists
<1>4. <<e>> \o list # <<>>
  BY <1>3, ListFields
<1> QED  BY <1>1, <1>2, <1>3, <1>4, BytesType DEF First

PutProb(s, e) == [s EXCEPT !.prob = <<e>> \o @, !.probBytes = @ + e.size]

LEMMA PutProbIs ==
  ASSUME NEW s, Counted(s), NEW e \in Nodes, e.key \notin AllKeys(s),
         NEW t, t = PutProb(s, e)
  PROVE  /\ Counted(t) /\ t.max = s.max /\ t.total = s.total /\ t.prot = s.prot
         /\ t.protBytes = s.protBytes /\ Used(t) = Used(s) + e.size
         /\ AllKeys(t) = AllKeys(s) \union {e.key}
<1> DEFINE a == <<e>> \o s.prob
<1>1. /\ s \in Caches /\ s.prob \in Lists /\ s.prot \in Lists /\ s.probBytes \in Nat
      /\ s.protBytes \in Nat /\ s.max \in Nat /\ s.total \in Nat /\ e.size \in Nat
  BY CacheFields, NodeFields DEF Counted
<1>2. /\ s.protBytes = Bytes(s.prot) /\ s.probBytes = Bytes(s.prob)
      /\ Distinct(s.prob) /\ Distinct(s.prot)
      /\ KeysOf(s.prob) \intersect KeysOf(s.prot) = {}
  BY DEF Counted, OneEach
<1>3. a \in Lists /\ Bytes(a) = Bytes(s.prob) + e.size /\ Distinct(a)
      /\ KeysOf(a) = KeysOf(s.prob) \union {e.key}
  BY <1>1, <1>2, PushedIs DEF AllKeys
<1>4. t = [s EXCEPT !.prob = a, !.probBytes = @ + e.size]
  BY DEF PutProb
<1> HIDE DEF a
<1>5. /\ t.prob = a /\ t.prot = s.prot /\ t.max = s.max /\ t.total = s.total
      /\ t.probBytes = s.probBytes + e.size /\ t.protBytes = s.protBytes
  BY <1>1, <1>4 DEF Caches
<1>6. t \in Caches
  <2>1. s.probBytes + e.size \in Nat
    BY <1>1
  <2> QED  BY <1>1, <1>3, <1>4, <2>1 DEF Caches
<1>7. Counted(t)
  <2>1. OneEach(t)
    BY <1>2, <1>3, <1>5 DEF OneEach, AllKeys
  <2>2. t.probBytes = Bytes(t.prob)
    BY <1>2, <1>3, <1>5
  <2> QED  BY <1>2, <1>5, <1>6, <2>1, <2>2 DEF Counted
<1>8. Used(t) = Used(s) + e.size
  BY <1>1, <1>5 DEF Used
<1>9. AllKeys(t) = AllKeys(s) \union {e.key}
  BY <1>3, <1>5 DEF AllKeys
<1> QED  BY <1>3, <1>5, <1>7, <1>8, <1>9

PutProt(s, e) == [s EXCEPT !.prot = <<e>> \o @, !.protBytes = @ + e.size]

LEMMA PutProtIs ==
  ASSUME NEW s, Counted(s), NEW e \in Nodes, e.key \notin AllKeys(s),
         NEW t, t = PutProt(s, e)
  PROVE  /\ Counted(t) /\ t.max = s.max /\ t.total = s.total
         /\ t.prot # <<>> /\ First(t.prot) = e /\ Used(t) = Used(s) + e.size
         /\ AllKeys(t) = AllKeys(s) \union {e.key}
<1> DEFINE a == <<e>> \o s.prot
<1>1. /\ s \in Caches /\ s.prob \in Lists /\ s.prot \in Lists /\ s.probBytes \in Nat
      /\ s.protBytes \in Nat /\ s.max \in Nat /\ s.total \in Nat /\ e.size \in Nat
  BY CacheFields, NodeFields DEF Counted
<1>2. /\ s.protBytes = Bytes(s.prot) /\ s.probBytes = Bytes(s.prob)
      /\ Distinct(s.prob) /\ Distinct(s.prot)
      /\ KeysOf(s.prob) \intersect KeysOf(s.prot) = {}
  BY DEF Counted, OneEach
<1>3. /\ a \in Lists /\ Bytes(a) = Bytes(s.prot) + e.size /\ Distinct(a)
      /\ KeysOf(a) = KeysOf(s.prot) \union {e.key} /\ a # <<>> /\ First(a) = e
  BY <1>1, <1>2, PushedIs DEF AllKeys
<1>4. t = [s EXCEPT !.prot = a, !.protBytes = @ + e.size]
  BY DEF PutProt
<1> HIDE DEF a
<1>5. /\ t.prot = a /\ t.prob = s.prob /\ t.max = s.max /\ t.total = s.total
      /\ t.protBytes = s.protBytes + e.size /\ t.probBytes = s.probBytes
  BY <1>1, <1>4 DEF Caches
<1>6. t \in Caches
  <2>1. s.protBytes + e.size \in Nat
    BY <1>1
  <2> QED  BY <1>1, <1>3, <1>4, <2>1 DEF Caches
<1>7. Counted(t)
  <2>1. OneEach(t)
    BY <1>2, <1>3, <1>5 DEF OneEach, AllKeys
  <2>2. t.protBytes = Bytes(t.prot)
    BY <1>2, <1>3, <1>5
  <2> QED  BY <1>2, <1>5, <1>6, <2>1, <2>2 DEF Counted
<1>8. Used(t) = Used(s) + e.size
  BY <1>1, <1>5 DEF Used
<1>9. AllKeys(t) = AllKeys(s) \union {e.key}
  BY <1>3, <1>5 DEF AllKeys
<1> QED  BY <1>3, <1>5, <1>7, <1>8, <1>9

\* Between its operations a cache keeps to its capacity.
InBounds(s) == /\ Counted(s)
               /\ s.max # 0 => Used(s) <= s.max
               /\ ProtMax(s.max) # 0 => s.protBytes <= ProtMax(s.max)

\* A new key in front of the probationary list leaves the protected list alone.
Resists(s, t) == t.prob # <<>> /\ First(t.prob).key \notin AllKeys(s)
                 /\ First(t.prob).size <= ProtMax(s.max)
                 => t.prot = s.prot

\* No operation adds a key and touches the protected list at once.
LEMMA OldKeysResist ==
  ASSUME NEW s, NEW t, Counted(t), Within(t, s)
  PROVE  Resists(s, t)
<1>1. t.prob \in Lists
  BY CacheFields DEF Counted
<1> QED  BY <1>1, FirstOf DEF Resists, Within, AllKeys

LEMMA EmptyIs ==
  ASSUME NEW m \in Nat
  PROVE  Sound(Empty(m)) /\ Empty(m).max = m /\ AllKeys(Empty(m)) = {}
<1> DEFINE s == Empty(m)
<1>1. s = [prob |-> <<>>, prot |-> <<>>, probBytes |-> 0, protBytes |-> 0, max |-> m, total |-> 0]
  BY DEF Empty
<1>2. <<>> \in Lists /\ Bytes(<<>>) = 0 /\ KeysOf(<<>>) = {} /\ Distinct(<<>>)
  BY BytesOfNone, KeysOfNone
<1> HIDE DEF s
<1>3. /\ s.prob = <<>> /\ s.prot = <<>> /\ s.probBytes = 0 /\ s.protBytes = 0
      /\ s.max = m /\ s.total = 0
  BY <1>1
<1>4. s \in Caches
  BY <1>1, <1>2 DEF Caches
<1>5. OneEach(s) /\ AllKeys(s) = {}
  BY <1>2, <1>3 DEF OneEach, AllKeys
<1>6. Counted(s)
  BY <1>2, <1>3, <1>4, <1>5 DEF Counted
<1>7. ProtMax(m) \in Nat
  BY Shares
<1>8. Used(s) = 0
  BY <1>3 DEF Used
<1> QED  BY <1>3, <1>5, <1>6, <1>7, <1>8 DEF Sound, s

\* updateDelta: the counter of the cache follows the shard.
LEMMA SettledIs ==
  ASSUME NEW s, Sound(s), NEW t, InBounds(t), t.total = s.total, NEW v, v = Settled(s, t)
  PROVE  /\ Sound(v) /\ v.max = t.max /\ AllKeys(v) = AllKeys(t)
         /\ v.prob = t.prob /\ v.prot = t.prot
<1>1. s.total = Used(s) /\ Used(s) \in Nat /\ Used(t) \in Nat /\ t \in Caches /\ Counted(t)
  BY CacheFields DEF Sound, InBounds, Counted
<1>2. v = [t EXCEPT !.total = Used(t)]
  <2>1. (t.total + Used(t)) - Used(s) = Used(t)
    BY <1>1
  <2> QED  BY <2>1 DEF Settled
<1>3. /\ v.prob = t.prob /\ v.prot = t.prot /\ v.probBytes = t.probBytes
      /\ v.protBytes = t.protBytes /\ v.max = t.max /\ v.total = Used(t)
  BY <1>1, <1>2 DEF Caches
<1>4. v \in Caches
  BY <1>1, <1>2 DEF Caches
<1>5. Used(v) = Used(t) /\ AllKeys(v) = AllKeys(t)
  BY <1>3 DEF Used, AllKeys
<1>6. Counted(v)
  BY <1>1, <1>3, <1>4 DEF Counted, OneEach
<1> QED  BY <1>3, <1>5, <1>6 DEF Sound, InBounds

\* A demotion and an eviction bring a cache within its bounds.
LEMMA SettlesWithin ==
  ASSUME NEW s, Counted(s), NEW t, t = Evicted(Demoted(s))
  PROVE  /\ InBounds(t) /\ t.max = s.max /\ t.total = s.total /\ Within(t, s)
         /\ InBounds(s) => t = s
         /\ s.prot # <<>> /\ t.prob # <<>> /\ First(t.prob).key = First(s.prot).key
              => ~ (First(t.prob).size <= ProtMax(s.max))
<1> DEFINE u == Demoted(s)
<1>1. /\ Counted(u) /\ u.max = s.max /\ u.total = s.total /\ Used(u) = Used(s)
      /\ AllKeys(u) = AllKeys(s)
      /\ ProtMax(s.max) # 0 => u.protBytes <= ProtMax(s.max)
      /\ ProtMax(s.max) = 0 \/ s.protBytes <= ProtMax(s.max) => u = s
      /\ s.prot # <<>> /\ First(s.prot).size <= ProtMax(s.max)
           => First(s.prot).key \in KeysOf(u.prot)
      /\ OneOf(u.prob, s.prot)
  BY DemotedIs
<1> HIDE DEF u
<1>2. /\ Counted(t) /\ t.max = u.max /\ t.total = u.total /\ Within(t, u)
      /\ t.protBytes <= u.protBytes
      /\ u.max # 0 => Used(t) <= u.max
      /\ u.max = 0 \/ Used(u) <= u.max => t = u
      /\ t.prob # <<>> => t.prot = u.prot
      /\ Begins(t.prob, u.prob)
  BY <1>1, EvictedIs DEF u
<1>3. /\ s.max \in Nat /\ u.protBytes \in Nat /\ t.protBytes \in Nat /\ ProtMax(s.max) \in Nat
  BY <1>1, <1>2, CacheFields, Shares DEF Counted
<1>4. InBounds(t) /\ Within(t, s)
  BY <1>1, <1>2, <1>3 DEF InBounds, Within
<1>5. ASSUME s.prot # <<>>, t.prob # <<>>, First(t.prob).key = First(s.prot).key,
             First(t.prob).size <= ProtMax(s.max)
      PROVE  FALSE
  <2>1. First(t.prob) = First(s.prot)
    BY <1>1, <1>2, <1>5 DEF Begins, OneOf
  <2>2. First(t.prob).key \in KeysOf(t.prot)
    BY <1>1, <1>2, <1>5, <2>1
  <2>3. First(t.prob).key \in KeysOf(t.prob)
    BY <1>2, <1>5, CacheFields, FirstOf DEF Counted
  <2> QED  BY <1>2, <2>2, <2>3 DEF Counted, OneEach
<1> QED  BY <1>1, <1>2, <1>4, <1>5 DEF InBounds

\* setMaxBytes
LEMMA ResizedIs ==
  ASSUME NEW s, Sound(s), NEW m \in Nat, NEW t, t = Resized(s, m)
  PROVE  /\ Sound(t) /\ t.max = m /\ Within(t, s)
         /\ s.max # 0 /\ ProtMax(s.max) # 0 /\ s.max <= m => t.prob = s.prob /\ t.prot = s.prot
<1> DEFINE u == [s EXCEPT !.max = m]
           v == Evicted(Demoted(u))
<1>1. /\ s \in Caches /\ s.max \in Nat /\ Counted(s) /\ Used(s) \in Nat /\ s.protBytes \in Nat
  BY CacheFields DEF Sound, Counted
<1>2. /\ u \in Caches /\ u.prob = s.prob /\ u.prot = s.prot /\ u.probBytes = s.probBytes
      /\ u.protBytes = s.protBytes /\ u.max = m /\ u.total = s.total
  BY <1>1 DEF Caches
<1>3. t = Settled(s, v)
  BY DEF Resized
<1> HIDE DEF u
<1>4. Counted(u) /\ AllKeys(u) = AllKeys(s) /\ Used(u) = Used(s)
  BY <1>1, <1>2 DEF Counted, OneEach, AllKeys, Used
<1>5. /\ InBounds(v) /\ v.max = m /\ v.total = s.total /\ Within(v, u)
      /\ InBounds(u) => v = u
  BY <1>2, <1>4, SettlesWithin
<1> HIDE DEF v
<1>6. Sound(t) /\ t.max = v.max /\ AllKeys(t) = AllKeys(v) /\ t.prob = v.prob /\ t.prot = v.prot
  BY <1>3, <1>5, SettledIs
<1>7. ASSUME s.max # 0, ProtMax(s.max) # 0, s.max <= m PROVE InBounds(u)
  <2>1. Used(s) <= s.max /\ s.protBytes <= ProtMax(s.max)
    BY <1>7 DEF Sound
  <2>2. ProtMax(s.max) <= ProtMax(m) /\ ProtMax(s.max) \in Nat /\ ProtMax(m) \in Nat
    BY <1>1, <1>7, Shares
  <2> QED  BY <1>1, <1>2, <1>4, <1>7, <2>1, <2>2 DEF InBounds
<1>8. Within(t, s)
  BY <1>4, <1>5, <1>6 DEF Within
<1> QED  BY <1>2, <1>5, <1>6, <1>7, <1>8

\* An entry leaves a cache that is within its bounds, and it stays so.
LEMMA RemovedInBounds ==
  ASSUME NEW s, Sound(s), NEW k, NEW r, r = Removed(s, k)
  PROVE  InBounds(r)
<1>1. /\ Counted(r) /\ r.max = s.max /\ r.protBytes <= s.protBytes
      /\ SizeIn(s.prob, k) + SizeIn(s.prot, k) \in Nat
      /\ Used(r) + (SizeIn(s.prob, k) + SizeIn(s.prot, k)) = Used(s)
  BY RemovedIs DEF Sound
<1>2. /\ Used(r) \in Nat /\ Used(s) \in Nat /\ s.max \in Nat /\ r.protBytes \in Nat
      /\ s.protBytes \in Nat /\ ProtMax(s.max) \in Nat
  BY <1>1, CacheFields, Shares DEF Sound, Counted
<1>3. Used(r) <= Used(s)
  BY <1>1, <1>2
<1> QED  BY <1>1, <1>2, <1>3 DEF InBounds, Sound

\* clear
LEMMA ClearedIs ==
  ASSUME NEW s, Sound(s)
  PROVE  Sound(Cleared(s)) /\ Cleared(s).max = s.max /\ Within(Cleared(s), s)
<1>1. s.max \in Nat
  BY CacheFields DEF Sound, Counted
<1> QED  BY <1>1, EmptyIs DEF Cleared, Within

\* delete
LEMMA DeletedIs ==
  ASSUME NEW s, Sound(s), NEW k, NEW t, t = Deleted(s, k)
  PROVE  Sound(t) /\ t.max = s.max /\ Within(t, s)
<1> DEFINE r == Removed(s, k)
           n == SizeIn(s.prob, k) + SizeIn(s.prot, k)
<1>1. /\ Counted(r) /\ r.max = s.max /\ r.total = s.total /\ AllKeys(r) = AllKeys(s) \ {k}
      /\ n \in Nat /\ Used(r) + n = Used(s)
  BY RemovedIs DEF Sound
<1>2. InBounds(r)
  BY RemovedInBounds
<1>3. t = [r EXCEPT !.total = @ - n]
  BY DEF Deleted
<1> HIDE DEF r, n
<1>4. Used(r) \in Nat /\ Used(s) \in Nat /\ s.total = Used(s)
  BY <1>1, CacheFields DEF Sound, Counted
<1>5. r.total - n = Used(r)
  BY <1>1, <1>4
<1>6. t = Settled(s, r)
  <2>1. (r.total + Used(r)) - Used(s) = Used(r)
    BY <1>1, <1>4
  <2> QED  BY <1>3, <1>5, <2>1 DEF Settled, Caches, Counted
<1>7. Sound(t) /\ t.max = r.max /\ AllKeys(t) = AllKeys(r)
  BY <1>1, <1>2, <1>6, SettledIs
<1> QED  BY <1>1, <1>7 DEF Within

\* set of an entry that fits: it goes in front of one of the lists.
LEMMA StoredProb ==
  ASSUME NEW s, Sound(s), NEW e \in Nodes, NEW r, r = Removed(s, e.key),
         NEW t, t = Settled(s, Evicted(PutProb(r, e)))
  PROVE  Sound(t) /\ t.max = s.max /\ Resists(s, t)
<1> DEFINE u == PutProb(r, e)
           v == Evicted(u)
<1>1. /\ Counted(r) /\ r.max = s.max /\ r.total = s.total
      /\ AllKeys(r) = AllKeys(s) \ {e.key} /\ r.protBytes <= s.protBytes
      /\ e.key \notin AllKeys(s) => r = s
  BY RemovedIs DEF Sound
<1>2. InBounds(r)
  BY RemovedInBounds
<1>3. /\ Counted(u) /\ u.max = r.max /\ u.total = r.total /\ u.prot = r.prot
      /\ u.protBytes = r.protBytes /\ AllKeys(u) = AllKeys(r) \union {e.key}
  BY <1>1, PutProbIs
<1> HIDE DEF u
<1>4. /\ Counted(v) /\ v.max = u.max /\ v.total = u.total /\ Within(v, u)
      /\ v.protBytes <= u.protBytes
      /\ u.max # 0 => Used(v) <= u.max
      /\ v.prob # <<>> => v.prot = u.prot
  BY <1>3, EvictedIs
<1>5. t = Settled(s, v)
  BY DEF u
<1> HIDE DEF v
<1>6. InBounds(v)
  <2>1. v.protBytes \in Nat /\ u.protBytes \in Nat /\ s.max \in Nat /\ ProtMax(s.max) \in Nat
    BY <1>3, <1>4, CacheFields, Shares DEF Counted, Sound
  <2> QED  BY <1>1, <1>2, <1>3, <1>4, <2>1 DEF InBounds
<1>7. Sound(t) /\ t.max = v.max /\ AllKeys(t) = AllKeys(v) /\ t.prob = v.prob /\ t.prot = v.prot
  BY <1>1, <1>3, <1>4, <1>5, <1>6, SettledIs
<1>8. Resists(s, t)
  <2>1. CASE e.key \in AllKeys(s)
    <3>1. Within(t, s)
      BY <1>1, <1>3, <1>4, <1>7, <2>1 DEF Within
    <3> QED  BY <1>7, <3>1, OldKeysResist DEF Sound
  <2>2. CASE e.key \notin AllKeys(s)
    <3>1. r = s
      BY <1>1, <2>2
    <3> QED  BY <1>3, <1>4, <1>7, <3>1 DEF Resists
  <2> QED  BY <2>1, <2>2
<1> QED  BY <1>1, <1>3, <1>4, <1>7, <1>8

LEMMA StoredProt ==
  ASSUME NEW s, Sound(s), NEW e \in Nodes, NEW r, r = Removed(s, e.key),
         NEW t, t = Settled(s, Evicted(Demoted(PutProt(r, e))))
  PROVE  /\ Sound(t) /\ t.max = s.max /\ Resists(s, t)
         /\ e.key \in AllKeys(s) => Within(t, s)
<1> DEFINE u == PutProt(r, e)
           v == Evicted(Demoted(u))
<1>1. /\ Counted(r) /\ r.max = s.max /\ r.total = s.total
      /\ AllKeys(r) = AllKeys(s) \ {e.key}
  BY RemovedIs DEF Sound
<1>2. /\ Counted(u) /\ u.max = r.max /\ u.total = r.total
      /\ u.prot # <<>> /\ First(u.prot) = e /\ AllKeys(u) = AllKeys(r) \union {e.key}
  BY <1>1, PutProtIs
<1> HIDE DEF u
<1>3. /\ InBounds(v) /\ v.max = u.max /\ v.total = u.total /\ Within(v, u)
      /\ u.prot # <<>> /\ v.prob # <<>> /\ First(v.prob).key = First(u.prot).key
           => ~ (First(v.prob).size <= ProtMax(u.max))
  BY <1>2, SettlesWithin
<1>4. t = Settled(s, v)
  BY DEF u
<1> HIDE DEF v
<1>5. Sound(t) /\ t.max = v.max /\ AllKeys(t) = AllKeys(v) /\ t.prob = v.prob /\ t.prot = v.prot
  BY <1>1, <1>2, <1>3, <1>4, SettledIs
<1>6. Resists(s, t)
  <2> SUFFICES ASSUME t.prob # <<>>, First(t.prob).key \notin AllKeys(s),
                      First(t.prob).size <= ProtMax(s.max)
               PROVE  FALSE
    BY DEF Resists
  <2>1. First(t.prob).key \in AllKeys(t)
    BY <1>5, CacheFields, FirstOf DEF Sound, Counted, AllKeys
  <2>2. First(t.prob).key = e.key
    BY <1>1, <1>2, <1>3, <1>5, <2>1 DEF Within
  <2> QED  BY <1>1, <1>2, <1>3, <1>5, <2>2
<1>7. e.key \in AllKeys(s) => Within(t, s)
  BY <1>1, <1>2, <1>3, <1>5 DEF Within
<1> QED  BY <1>1, <1>2, <1>3, <1>5, <1>6, <1>7

LEMMA EntryIs ==
  ASSUME NEW k \in PoolKeys, NEW size \in Nat \ {0}
  PROVE  Entry(k, size) \in Nodes /\ Entry(k, size).key = k /\ Entry(k, size).size = size
BY DEF Entry, Nodes

\* set
LEMMA StoredIs ==
  ASSUME NEW s, Sound(s), NEW k \in PoolKeys, NEW size \in Nat \ {0}, NEW protected \in BOOLEAN,
         NEW t, t = Stored(s, k, size, protected)
  PROVE  Sound(t) /\ t.max = s.max /\ Resists(s, t)
<1> DEFINE e == Entry(k, size)
           r == Removed(s, k)
<1>1. e \in Nodes /\ e.key = k /\ e.size = size
  BY EntryIs
<1>2. CASE s.max > 0 /\ size > s.max
  <2>1. t = Settled(s, r)
    BY <1>2 DEF Stored
  <2>2. InBounds(r) /\ r.max = s.max /\ r.total = s.total /\ AllKeys(r) = AllKeys(s) \ {k}
    BY RemovedIs, RemovedInBounds DEF Sound
  <2> HIDE DEF r
  <2>3. Sound(t) /\ t.max = r.max /\ AllKeys(t) = AllKeys(r)
    BY <2>1, <2>2, SettledIs
  <2>4. Within(t, s)
    BY <2>2, <2>3 DEF Within
  <2> QED  BY <2>2, <2>3, <2>4, OldKeysResist DEF Sound
<1>3. CASE ~ (s.max > 0 /\ size > s.max) /\ (protected \/ Has(s.prot, k))
  <2>1. t = Settled(s, Evicted(Demoted(PutProt(r, e))))
    BY <1>1, <1>3 DEF Stored, PutProt
  <2>2. r = Removed(s, e.key)
    BY <1>1
  <2> HIDE DEF e, r
  <2> QED  BY <1>1, <2>1, <2>2, StoredProt
<1>4. CASE ~ (s.max > 0 /\ size > s.max) /\ ~ (protected \/ Has(s.prot, k))
  <2>1. t = Settled(s, Evicted(PutProb(r, e)))
    BY <1>1, <1>4 DEF Stored, PutProb
  <2>2. r = Removed(s, e.key)
    BY <1>1
  <2> HIDE DEF e, r
  <2> QED  BY <1>1, <2>1, <2>2, StoredProb
<1> QED  BY <1>2, <1>3, <1>4

\* get
LEMMA TouchedIs ==
  ASSUME NEW s, Sound(s), NEW k, k \in AllKeys(s), NEW t, t = Touched(s, k)
  PROVE  Sound(t) /\ t.max = s.max /\ Within(t, s)
<1> DEFINE size == SizeIn(s.prob, k) + SizeIn(s.prot, k)
           e == Entry(k, size)
           r == Removed(s, k)
<1>1. k \in PoolKeys /\ size \in Nat \ {0}
  BY RemovedIs DEF Sound
<1>2. e \in Nodes /\ e.key = k /\ e.size = size
  BY <1>1, EntryIs
<1>3. CASE Has(s.prot, k)
  <2> DEFINE a == <<e>> \o Without(s.prot, k)
  <2>1. t = [s EXCEPT !.prot = a]
    BY <1>3 DEF Touched
  <2>2. /\ s \in Caches /\ s.prob \in Lists /\ s.prot \in Lists /\ s.probBytes \in Nat
        /\ s.protBytes \in Nat /\ s.max \in Nat /\ s.total \in Nat
    BY CacheFields DEF Counted, Sound
  <2>3. /\ s.protBytes = Bytes(s.prot) /\ s.probBytes = Bytes(s.prob)
        /\ Distinct(s.prob) /\ Distinct(s.prot)
        /\ KeysOf(s.prob) \intersect KeysOf(s.prot) = {}
    BY DEF Counted, OneEach, Sound
  <2>4. k \in KeysOf(s.prot) /\ SizeIn(s.prob, k) = 0 /\ SizeIn(s.prot, k) \in Nat
    BY <1>3, <2>2, <2>3, WithoutIs
  <2>5. /\ Without(s.prot, k) \in Lists /\ Distinct(Without(s.prot, k))
        /\ KeysOf(Without(s.prot, k)) = KeysOf(s.prot) \ {k}
        /\ Bytes(Without(s.prot, k)) + size = Bytes(s.prot)
    BY <2>2, <2>3, <2>4, WithoutIs
  <2> HIDE DEF e
  <2>6. /\ a \in Lists /\ Bytes(a) = Bytes(Without(s.prot, k)) + e.size /\ Distinct(a)
        /\ KeysOf(a) = KeysOf(Without(s.prot, k)) \union {k}
    BY <1>2, <2>5, PushedIs
  <2>7. Bytes(a) = Bytes(s.prot) /\ KeysOf(a) = KeysOf(s.prot)
    BY <1>2, <2>4, <2>5, <2>6
  <2> HIDE DEF a
  <2>8. /\ t \in Caches /\ t.prob = s.prob /\ t.prot = a /\ t.probBytes = s.probBytes
        /\ t.protBytes = s.protBytes /\ t.max = s.max /\ t.total = s.total
    BY <2>1, <2>2, <2>6 DEF Caches
  <2>9. Counted(t) /\ AllKeys(t) = AllKeys(s)
    BY <2>3, <2>6, <2>7, <2>8 DEF Counted, OneEach, AllKeys
  <2>10. Used(t) = Used(s)
    BY <2>8 DEF Used
  <2> QED  BY <2>8, <2>9, <2>10 DEF Sound, Within
<1>4. CASE ~ Has(s.prot, k)
  <2>1. t = Settled(s, Evicted(Demoted(PutProt(r, e))))
    BY <1>2, <1>4 DEF Touched, PutProt
  <2>2. r = Removed(s, e.key)
    BY <1>2
  <2> HIDE DEF e, r, size
  <2> QED  BY <1>2, <2>1, <2>2, StoredProt
<1> QED  BY <1>3, <1>4

-----------------------------------------------------------------------------
(***************************************************************************)
(* Sums of the pool.                                                       *)
(***************************************************************************)
Units(f, S) == UNION {{k} \X (1 .. f[k]) : k \in S}

LEMMA UnitsFinite ==
  ASSUME NEW f \in [PoolKeys -> Sizes], NEW S \in SUBSET PoolKeys
  PROVE  IsFiniteSet(Units(f, S)) /\ Cardinality(Units(f, S)) \in Nat
<1>1. IsFiniteSet(PoolKeys \X (1 .. MaxSize))
  <2>1. IsFiniteSet(1 .. MaxSize)
    BY FS_Interval, SizeAssumption
  <2> QED  BY <2>1, FS_Product, PoolAssumption
<1>2. Units(f, S) \subseteq PoolKeys \X (1 .. MaxSize)
  BY SizeAssumption DEF Units, Sizes
<1> QED  BY <1>1, <1>2, FS_Subset, FS_CardinalityType

LEMMA SumIs ==
  ASSUME NEW f \in [PoolKeys -> Sizes]
  PROVE  Sum(f) \in Nat /\ Sum(f) = Cardinality(Units(f, PoolKeys))
<1>1. Sum(f) = Cardinality(Units(f, PoolKeys))
  BY DEF Sum, Units
<1> QED  BY <1>1, UnitsFinite

LEMMA SumOfNone ==
  Sum([k \in PoolKeys |-> 0]) = 0
<1> DEFINE f == [k \in PoolKeys |-> 0]
<1>1. Units(f, PoolKeys) = {}
  BY DEF Units
<1>2. f \in [PoolKeys -> Sizes]
  BY SizeAssumption DEF Sizes
<1> QED  BY <1>1, <1>2, SumIs, FS_EmptySet

LEMMA SumSplits ==
  ASSUME NEW f \in [PoolKeys -> Sizes], NEW k \in PoolKeys
  PROVE  Sum(f) = Cardinality(Units(f, PoolKeys \ {k})) + f[k]
<1> DEFINE a == Units(f, PoolKeys \ {k})
           b == {k} \X (1 .. f[k])
<1>1. Units(f, PoolKeys) = a \union b
  BY DEF Units
<1>2. a \intersect b = {}
  BY DEF Units
<1>3. IsFiniteSet(a) /\ Cardinality(a) \in Nat
  BY UnitsFinite
<1>4. f[k] \in Nat
  BY SizeAssumption DEF Sizes
<1>5. IsFiniteSet(b) /\ Cardinality(b) = f[k]
  <2>1. IsFiniteSet(1 .. f[k]) /\ Cardinality(1 .. f[k]) = f[k]
    BY <1>4, FS_Interval
  <2>2. IsFiniteSet({k}) /\ Cardinality({k}) = 1
    BY FS_Singleton
  <2>3. IsFiniteSet(b) /\ Cardinality(b) = Cardinality({k}) * Cardinality(1 .. f[k])
    BY <2>1, <2>2, FS_Product
  <2> QED  BY <1>4, <2>1, <2>2, <2>3
<1> HIDE DEF a, b
<1>6. Cardinality(a \union b) = Cardinality(a) + Cardinality(b) - Cardinality(a \intersect b)
  BY <1>3, <1>5, FS_Union
<1>7. Cardinality(a \intersect b) = 0
  BY <1>2, FS_EmptySet
<1>8. Sum(f) = Cardinality(a) + f[k]
  <2>1. Cardinality(a \union b) = Cardinality(a) + f[k]
    BY <1>3, <1>4, <1>5, <1>6, <1>7
  <2>2. Sum(f) = Cardinality(a \union b)
    BY <1>1, SumIs
  <2> QED  BY <2>1, <2>2
<1> QED  BY <1>8 DEF a

Changed(f, k, v) == [f EXCEPT ![k] = v]

LEMMA SumExcept ==
  ASSUME NEW f \in [PoolKeys -> Sizes], NEW k \in PoolKeys, NEW v \in Sizes
  PROVE  Sum(Changed(f, k, v)) + f[k] = Sum(f) + v
<1> DEFINE g == [f EXCEPT ![k] = v]
<1>1. g \in [PoolKeys -> Sizes] /\ g[k] = v
  OBVIOUS
<1>2. Units(g, PoolKeys \ {k}) = Units(f, PoolKeys \ {k})
  <2>1. \A j \in PoolKeys \ {k} : g[j] = f[j]
    OBVIOUS
  <2> HIDE DEF g
  <2> QED  BY <2>1 DEF Units
<1> HIDE DEF g
<1>3. /\ Sum(g) = Cardinality(Units(g, PoolKeys \ {k})) + v
      /\ Sum(f) = Cardinality(Units(f, PoolKeys \ {k})) + f[k]
  BY <1>1, SumSplits
<1>4. v \in Nat /\ f[k] \in Nat /\ Cardinality(Units(f, PoolKeys \ {k})) \in Nat
  BY UnitsFinite, SizeAssumption DEF Sizes
<1>5. Sum(g) + f[k] = Sum(f) + v
  BY <1>2, <1>3, <1>4
<1> QED  BY <1>5 DEF g, Changed

-----------------------------------------------------------------------------
(***************************************************************************)
(* The invariant of the memory.                                            *)
(***************************************************************************)

\* The LRU cache is sound, and has the room that the pool leaves it.
CacheOK == Sound(slru) /\ slru.max = Room(total, resident)

LimitOK == /\ limiting \in [at : {"no", "close", "reset", "set"}, bytes : Limits \cup {0}]
           /\ limiting.at # "no" => limiting.bytes \in Limits

\* What the run holds at each of its stages, and that it brings each file into the
\* pool once: a file it has still to read is not there, nor is the one at hand.
EmptyPool == \A k \in PoolKeys : pool[k] = 0
RunOK ==
  /\ run.at \in {"none", "begun"} => run.gen = 0
  /\ run.at \notin {"none", "begun"} => run.gen # 0
  /\ run.at \in {"none", "begun", "reset", "scan", "next"} => run.held = 0
  /\ run.at = "commit" => run.held = run.size
  /\ run.at \in {"read", "loaded", "commit"} => run.key \in PoolKeys

FreshOK ==
  /\ ~enabled => EmptyPool
  /\ ~Stopped /\ run.at = "scan" => EmptyPool
  /\ ~Stopped /\ run.at \in {"next", "read", "loaded", "commit"} =>
       \A k \in PoolKeys : run.todo[k] # 0 => pool[k] = 0
  /\ ~Stopped /\ run.at \in {"read", "loaded", "commit"} =>
       run.todo[run.key] = 0 /\ pool[run.key] = 0

MemoryInv == PoolTypeOK /\ CacheOK /\ LimitOK /\ RunOK /\ FreshOK /\ NothingLeaks

LEMMA RoomIs ==
  ASSUME NEW all \in Nat, NEW used \in Nat
  PROVE  Room(all, used) \in Nat /\ Room(all, used) <= all /\ Room(all, 0) = all
BY DEF Room

LEMMA MoreRoom ==
  ASSUME NEW all \in Nat, NEW used \in Nat, NEW less \in Nat, less <= used
  PROVE  Room(all, used) <= Room(all, less)
BY DEF Room

LEMMA RunFields ==
  ASSUME PoolTypeOK
  PROVE  /\ run.gen \in 0 .. MaxPoolGen /\ run.todo \in [PoolKeys -> Sizes]
         /\ run.held \in Sizes /\ run.size \in Sizes /\ run.held \in Nat /\ run.size \in Nat
         /\ gen \in Nat \ {0} /\ total \in Nat \ {0} /\ resident \in Nat
         /\ \A k \in PoolKeys : pool[k] \in Nat /\ run.todo[k] \in Nat
<1>1. MaxSize \in Nat /\ Limits \subseteq Nat \ {0} /\ MaxPoolGen \in Nat
  BY SizeAssumption, PoolGenAssumption
<1> QED  BY <1>1 DEF PoolTypeOK, Run, Sizes

LEMMA NoRunIs ==
  /\ NoRun \in Run /\ NoRun.at = "none" /\ NoRun.gen = 0 /\ NoRun.held = 0
  /\ NoRun.todo = [k \in PoolKeys |-> 0]
BY SizeAssumption, PoolGenAssumption DEF NoRun, Run, Sizes

LEMMA InitMemoryInv == PoolInit => MemoryInv
<1> SUFFICES ASSUME PoolInit PROVE MemoryInv
  OBVIOUS
<1> USE DEF PoolInit
<1>1. total \in Nat \ {0}
  BY SizeAssumption
<1>2. PoolTypeOK
  <2>1. 0 \in Sizes /\ 1 \in 1 .. MaxPoolGen
    BY SizeAssumption, PoolGenAssumption DEF Sizes
  <2> QED  BY <2>1, NoRunIs DEF PoolTypeOK
<1>3. CacheOK
  <2>1. Sound(Empty(total)) /\ Empty(total).max = total
    BY <1>1, EmptyIs
  <2>2. Room(total, 0) = total
    BY <1>1, RoomIs
  <2> QED  BY <2>1, <2>2 DEF CacheOK
<1>4. LimitOK
  BY DEF LimitOK
<1>5. RunOK /\ FreshOK
  BY NoRunIs DEF RunOK, FreshOK, EmptyPool, Stopped
<1>6. NothingLeaks
  <2>1. InHand = 0 /\ Sum(pool) = 0
    BY SumOfNone, NoRunIs DEF InHand
  <2> QED  BY <2>1 DEF NothingLeaks
<1> QED  BY <1>2, <1>3, <1>4, <1>5, <1>6 DEF MemoryInv

-----------------------------------------------------------------------------
(***************************************************************************)
(* The cache is sound after every step, and has its capacity.              *)
(***************************************************************************)
LEMMA ResizedCacheOK ==
  ASSUME NEW s, Sound(s), total' \in Nat, resident' \in Nat,
         slru' = Resized(s, Room(total', resident'))
  PROVE  CacheOK'
<1>1. Room(total', resident') \in Nat
  BY RoomIs
<1>2. Sound(slru') /\ slru'.max = Room(total', resident')
  BY <1>1, ResizedIs
<1> QED  BY <1>2 DEF CacheOK

LEMMA SameCapacity ==
  ASSUME CacheOK, Sound(slru'), slru'.max = slru.max, total' = total, resident' = resident
  PROVE  CacheOK'
BY DEF CacheOK

LEMMA SameBudget ==
  ASSUME CacheOK, UNCHANGED budgetVars
  PROVE  CacheOK'
BY DEF CacheOK, budgetVars

LEMMA ReleaseOK ==
  ASSUME PoolTypeOK, CacheOK, NEW bytes \in Nat, Release(bytes), total' = total
  PROVE  CacheOK' /\ resident' \in Nat
<1>1. resident' = Room(resident, bytes) /\ resident' \in Nat
  BY RoomIs, RunFields DEF Release, Left
<1>2. slru' = Resized(slru, Room(total', resident'))
  BY <1>1 DEF Release, Left
<1> QED  BY <1>1, <1>2, RunFields, ResizedCacheOK DEF CacheOK

LEMMA ReleaseOfRunOK ==
  ASSUME PoolTypeOK, CacheOK, NEW bytes \in Nat, ReleaseOfRun(bytes)
  PROVE  CacheOK' /\ resident' \in Nat /\ total' = total
<1>1. CASE Stopped
  BY <1>1, SameBudget, RunFields DEF ReleaseOfRun, budgetVars
<1>2. CASE ~Stopped
  BY <1>2, ReleaseOK DEF ReleaseOfRun
<1> QED  BY <1>1, <1>2

LEMMA AcquireOK ==
  ASSUME PoolTypeOK, CacheOK, NEW bytes \in Nat, Acquire(bytes), total' = total
  PROVE  CacheOK' /\ resident' \in Nat
<1>1. resident' = resident + bytes /\ resident' \in Nat
  BY RunFields DEF Acquire
<1>2. slru' = Resized(slru, Room(total', resident'))
  BY <1>1 DEF Acquire
<1> QED  BY <1>1, <1>2, RunFields, ResizedCacheOK DEF CacheOK

LEMMA ResetOK ==
  ASSUME PoolTypeOK, CacheOK, Reset, total' = total
  PROVE  CacheOK' /\ resident' \in Nat
<1>1. resident' = 0 /\ Room(total', resident') = total
  BY RoomIs, RunFields DEF Reset
<1>2. slru' = Resized(slru, Room(total', resident'))
  BY <1>1 DEF Reset
<1> QED  BY <1>1, <1>2, RunFields, ResizedCacheOK DEF CacheOK

LEMMA DroppedOK ==
  ASSUME PoolTypeOK, CacheOK, NEW s, Sound(s), s.max = slru.max, NEW k \in PoolKeys,
         Dropped(s, k), total' = total
  PROVE  CacheOK' /\ resident' \in Nat /\ resident' <= resident
<1>1. CASE enabled /\ pool[k] > 0
  <2>1. resident' = Room(resident, pool[k]) /\ resident' \in Nat /\ resident' <= resident
    BY <1>1, RoomIs, RunFields DEF Dropped, Left
  <2>2. slru' = Resized(s, Room(total', resident'))
    BY <1>1, <2>1 DEF Dropped, Left
  <2> QED  BY <2>1, <2>2, RunFields, ResizedCacheOK
<1>2. CASE ~ (enabled /\ pool[k] > 0)
  <2>1. slru' = s /\ resident' = resident
    BY <1>2 DEF Dropped
  <2> QED  BY <2>1, RunFields, SameCapacity
<1> QED  BY <1>1, <1>2

LEMMA HasAny ==
  ASSUME NEW s, Counted(s), NEW k
  PROVE  Has(s.prob \o s.prot, k) <=> k \in AllKeys(s)
<1>1. s.prob \in Lists /\ s.prot \in Lists
  BY CacheFields DEF Counted
<1>2. KeysOf(s.prob \o s.prot) = AllKeys(s)
  BY <1>1, KeysOfBoth DEF AllKeys
<1>3. Has(s.prob \o s.prot, k) <=> k \in KeysOf(s.prob \o s.prot)
  BY <1>1, BytesOfBoth, WithoutIs
<1> QED  BY <1>2, <1>3

LEMMA NextCacheOK ==
  ASSUME MemoryInv, PoolNext
  PROVE  CacheOK' /\ resident' \in Nat
<1> USE DEF MemoryInv
<1>0. /\ Sound(slru) /\ resident \in Nat /\ total \in Nat /\ run.held \in Nat /\ run.size \in Nat
      /\ \A k \in PoolKeys : run.todo[k] \in Nat /\ pool[k] \in Nat
  BY RunFields DEF CacheOK
<1>1. CASE Prewarm
  <2>1. CASE Begin \/ TakeGeneration \/ \E files \in [PoolKeys -> Sizes] : Scan(files)
    <3>1. UNCHANGED budgetVars
      BY <2>1 DEF Begin, TakeGeneration, Scan
    <3> QED  BY <1>0, <3>1, SameBudget DEF budgetVars
  <2>2. CASE ResetForGen
    BY <2>2, ResetOK DEF ResetForGen
  <2>3. ASSUME NEW k \in PoolKeys, Reserve(k) PROVE CacheOK' /\ resident' \in Nat
    BY <1>0, <2>3, AcquireOK DEF Reserve
  <2>4. ASSUME NEW size \in 1 .. MaxSize, ReadFile(size) PROVE CacheOK' /\ resident' \in Nat
    <3>1. UNCHANGED budgetVars \/ ReleaseOfRun(run.held)
      BY <2>4 DEF ReadFile
    <3> QED  BY <1>0, <3>1, SameBudget, ReleaseOfRunOK DEF budgetVars
  <2>5. CASE Adjust
    <3>1. CASE run.size <= run.held /\ ReleaseOfRun(run.held - run.size)
      <4>1. run.held - run.size \in Nat
        BY <1>0, <3>1
      <4> QED  BY <3>1, <4>1, ReleaseOfRunOK
    <3>2. CASE run.size > run.held /\ Acquire(run.size - run.held) /\ total' = total
      <4>1. run.size - run.held \in Nat
        BY <1>0, <3>2
      <4> QED  BY <3>2, <4>1, AcquireOK
    <3>3. CASE ReleaseOfRun(run.held)
      BY <1>0, <3>3, ReleaseOfRunOK
    <3> QED  BY <2>5, <3>1, <3>2, <3>3 DEF Adjust
  <2>6. CASE Commit
    <3>1. UNCHANGED budgetVars \/ ReleaseOfRun(run.size)
      BY <2>6 DEF Commit
    <3> QED  BY <1>0, <3>1, SameBudget, ReleaseOfRunOK DEF budgetVars
  <2>7. CASE End
    <3>1. CASE Stopped
      <4>1. UNCHANGED budgetVars
        BY <2>7, <3>1 DEF End, budgetVars
      <4> QED  BY <1>0, <4>1, SameBudget DEF budgetVars
    <3>2. CASE ~Stopped
      <4>1. total' = total /\ resident' = resident /\ slru' = Resized(slru, Room(total', resident'))
        BY <2>7, <3>2 DEF End
      <4> QED  BY <1>0, <4>1, ResizedCacheOK
    <3> QED  BY <3>1, <3>2
  <2> QED  BY <1>1, <2>1, <2>2, <2>3, <2>4, <2>5, <2>6, <2>7 DEF Prewarm
<1>2. CASE Traffic
  <2>1. ASSUME NEW k \in PoolKeys, NEW size \in 1 .. MaxSize, NEW protected \in BOOLEAN,
               SaveRAM(k, size, protected)
        PROVE  CacheOK' /\ resident' \in Nat
    <3>1. size \in Nat \ {0}
      BY SizeAssumption
    <3>2. /\ Sound(Stored(slru, k, size, protected))
          /\ Stored(slru, k, size, protected).max = slru.max
      BY <1>0, <3>1, StoredIs
    <3> QED  BY <2>1, <3>2, DroppedOK DEF SaveRAM
  <2>2. ASSUME NEW k \in PoolKeys, NEW size \in 1 .. MaxSize, Backfill(k, size)
        PROVE  CacheOK' /\ resident' \in Nat
    <3>1. size \in Nat \ {0} /\ FALSE \in BOOLEAN
      BY SizeAssumption
    <3>2. /\ Sound(Stored(slru, k, size, FALSE))
          /\ Stored(slru, k, size, FALSE).max = slru.max
      BY <1>0, <3>1, StoredIs
    <3> QED  BY <1>0, <2>2, <3>2, SameCapacity DEF Backfill
  <2>3. ASSUME NEW k \in PoolKeys, Hit(k) PROVE CacheOK' /\ resident' \in Nat
    <3>1. k \in AllKeys(slru)
      BY <1>0, <2>3, HasAny DEF Hit, Sound
    <3>2. Sound(Touched(slru, k)) /\ Touched(slru, k).max = slru.max
      BY <1>0, <3>1, TouchedIs
    <3> QED  BY <1>0, <2>3, <3>2, SameCapacity DEF Hit
  <2>4. ASSUME NEW k \in PoolKeys, Invalidate(k) PROVE CacheOK' /\ resident' \in Nat
    <3>1. Sound(Deleted(slru, k)) /\ Deleted(slru, k).max = slru.max
      BY <1>0, DeletedIs
    <3> QED  BY <2>4, <3>1, DroppedOK DEF Invalidate
  <2> QED  BY <1>2, <2>1, <2>2, <2>3, <2>4 DEF Traffic
<1>3. CASE Control
  <2>1. CASE ClearRAM
    <3>1. Sound(Cleared(slru)) /\ Cleared(slru).max = slru.max
      BY <1>0, ClearedIs
    <3> QED  BY <1>0, <2>1, <3>1, SameCapacity DEF ClearRAM
  <2>2. CASE DisableBoost \/ ResetBudget \/ CloseForLimit \/ ResetForLimit
    <3>1. Reset /\ total' = total
      BY <2>2 DEF DisableBoost, ResetBudget, CloseForLimit, ResetForLimit, Disable
    <3> QED  BY <3>1, ResetOK
  <2>3. ASSUME NEW bytes \in Limits, SetRAMLimit(bytes) PROVE CacheOK' /\ resident' \in Nat
    <3>1. UNCHANGED budgetVars
      BY <2>3 DEF SetRAMLimit
    <3> QED  BY <1>0, <3>1, SameBudget DEF budgetVars
  <2>4. CASE SetTotalBudget
    <3>1. total' \in Nat /\ resident' = resident
      BY <2>4, SizeAssumption DEF SetTotalBudget, LimitOK
    <3>2. slru' = Resized(slru, Room(total', resident'))
      BY <2>4, <3>1 DEF SetTotalBudget
    <3> QED  BY <1>0, <3>1, <3>2, ResizedCacheOK
  <2> QED  BY <1>3, <2>1, <2>2, <2>3, <2>4 DEF Control
<1> QED  BY <1>1, <1>2, <1>3 DEF PoolNext

-----------------------------------------------------------------------------
(***************************************************************************)
(* Types, and what the run holds.                                          *)
(***************************************************************************)
RunParts(r) ==
  /\ r.at \in {"none", "begun", "reset", "scan", "next", "read", "loaded", "commit"}
  /\ r.gen \in 0 .. MaxPoolGen /\ r.cancelled \in BOOLEAN /\ r.todo \in [PoolKeys -> Sizes]
  /\ r.key \in PoolKeys \cup {None} /\ r.held \in Sizes /\ r.size \in Sizes
  /\ r.live \in BOOLEAN

LEMMA RunTyped ==
  ASSUME run \in Run PROVE RunParts(run)
BY DEF Run, RunParts

LEMMA NextTypeOK ==
  ASSUME MemoryInv, PoolNext
  PROVE  PoolTypeOK' /\ LimitOK'
<1> USE DEF MemoryInv
<1>0. /\ resident' \in Nat /\ 0 \in Sizes /\ 0 \in 0 .. MaxPoolGen /\ FALSE \in BOOLEAN /\ TRUE \in BOOLEAN
      /\ MaxPoolGen \in Nat /\ \A size \in 1 .. MaxSize : size \in Sizes
  BY NextCacheOK, SizeAssumption, PoolGenAssumption DEF Sizes
<1>1. /\ total \in Limits /\ enabled \in BOOLEAN /\ gen \in 1 .. MaxPoolGen
      /\ pool \in [PoolKeys -> Sizes] /\ run \in Run /\ closing \in {"no", "reset"}
      /\ limiting.at \in {"no", "close", "reset", "set"} /\ RunParts(run)
  BY RunTyped DEF PoolTypeOK
<1>2. [k \in PoolKeys |-> 0] \in [PoolKeys -> Sizes]
  BY <1>0
<1>3. \A k \in PoolKeys : [pool EXCEPT ![k] = 0] \in [PoolKeys -> Sizes]
  BY <1>0, <1>1
<1>4. CASE UNCHANGED <<total, closing, limiting>> /\ enabled' \in BOOLEAN /\ gen' \in 1 .. MaxPoolGen
           /\ pool' \in [PoolKeys -> Sizes] /\ run' \in Run
  BY <1>0, <1>1, <1>4 DEF PoolTypeOK, LimitOK
<1>5. CASE Prewarm
  <2>1. CASE Begin
    BY <1>0, <1>1, <1>4, <2>1, NoRunIs DEF Begin, budgetVars, poolVars, Run
  <2>2. CASE TakeGeneration
    <3>1. gen + 1 \in 1 .. MaxPoolGen /\ gen + 1 \in 0 .. MaxPoolGen
      BY <1>0, <1>1, <2>2 DEF TakeGeneration
    <3> QED  BY <1>0, <1>1, <1>4, <2>2, <3>1 DEF TakeGeneration, budgetVars, Run
  <2>3. CASE ResetForGen
    <3>1. run.gen \in 1 .. MaxPoolGen
      BY <1>0, <1>1, <2>3 DEF ResetForGen, RunOK, RunParts
    <3> QED  BY <1>0, <1>1, <1>2, <1>4, <2>3, <3>1 DEF ResetForGen, budgetVars, Run
  <2>4. ASSUME NEW files \in [PoolKeys -> Sizes], Scan(files) PROVE PoolTypeOK' /\ LimitOK'
    BY <1>0, <1>1, <1>4, <2>4 DEF Scan, budgetVars, poolVars, Run
  <2>5. ASSUME NEW k \in PoolKeys, Reserve(k) PROVE PoolTypeOK' /\ LimitOK'
    <3>1. run.todo[k] \in Sizes /\ [run.todo EXCEPT ![k] = 0] \in [PoolKeys -> Sizes]
      BY <1>0, <1>1 DEF RunParts
    <3>2. run' \in Run
      BY <1>0, <1>1, <2>5, <3>1 DEF Reserve, Run
    <3> QED  BY <1>0, <1>1, <1>4, <2>5, <3>2 DEF Reserve, poolVars
  <2>6. ASSUME NEW size \in 1 .. MaxSize, ReadFile(size) PROVE PoolTypeOK' /\ LimitOK'
    <3>1. run' \in Run
      BY <1>0, <1>1, <2>6, NoRunIs DEF ReadFile, Run
    <3>2. total' = total
      BY <2>6, RunFields, ReleaseOfRunOK DEF ReadFile, budgetVars
    <3> QED  BY <1>0, <1>1, <1>4, <2>6, <3>1, <3>2 DEF ReadFile, poolVars
  <2>7. CASE Adjust
    <3>1. run' \in Run
      BY <1>0, <1>1, <2>7, NoRunIs DEF Adjust, Run
    <3>2. total' = total
      BY <2>7 DEF Adjust, ReleaseOfRun, budgetVars
    <3> QED  BY <1>0, <1>1, <1>4, <2>7, <3>1, <3>2 DEF Adjust, poolVars
  <2>8. CASE Commit
    <3>1. run' \in Run
      BY <1>0, <1>1, <2>8, NoRunIs DEF Commit, Run
    <3>2. total' = total
      BY <2>8 DEF Commit, ReleaseOfRun, budgetVars
    <3>3. pool' \in [PoolKeys -> Sizes]
      BY <1>1, <2>8 DEF Commit, RunParts
    <3> QED  BY <1>0, <1>1, <1>4, <2>8, <3>1, <3>2, <3>3 DEF Commit
  <2>9. CASE End
    BY <1>0, <1>1, <1>4, <2>9, NoRunIs DEF End, poolVars
  <2> QED  BY <1>5, <2>1, <2>2, <2>3, <2>4, <2>5, <2>6, <2>7, <2>8, <2>9 DEF Prewarm
<1>6. CASE Traffic
  <2>1. ASSUME NEW k \in PoolKeys, NEW size \in 1 .. MaxSize, NEW protected \in BOOLEAN,
               SaveRAM(k, size, protected)
        PROVE  PoolTypeOK' /\ LimitOK'
    BY <1>1, <1>3, <1>4, <2>1 DEF SaveRAM, Dropped
  <2>2. ASSUME NEW k \in PoolKeys, NEW size \in 1 .. MaxSize, Backfill(k, size)
        PROVE  PoolTypeOK' /\ LimitOK'
    BY <1>1, <1>4, <2>2 DEF Backfill, poolVars
  <2>3. ASSUME NEW k \in PoolKeys, Hit(k) PROVE PoolTypeOK' /\ LimitOK'
    BY <1>1, <1>4, <2>3 DEF Hit, poolVars
  <2>4. ASSUME NEW k \in PoolKeys, Invalidate(k) PROVE PoolTypeOK' /\ LimitOK'
    <3>1. run' \in Run
      BY <1>0, <1>1, <2>4 DEF Invalidate, Run
    <3> QED  BY <1>1, <1>3, <1>4, <2>4, <3>1 DEF Invalidate, Dropped
  <2> QED  BY <1>6, <2>1, <2>2, <2>3, <2>4 DEF Traffic
<1>7. CASE Control
  <2>1. CASE ClearRAM
    BY <1>1, <1>4, <2>1 DEF ClearRAM, poolVars
  <2>2. CASE DisableBoost \/ CloseForLimit
    <3>1. gen' \in 1 .. MaxPoolGen /\ enabled' = FALSE /\ pool' \in [PoolKeys -> Sizes]
      BY <1>0, <1>1, <1>2, <2>2 DEF DisableBoost, CloseForLimit, Disable
    <3>2. run' \in Run /\ total' = total /\ closing' \in {"no", "reset"}
      BY <1>0, <1>1, <2>2 DEF DisableBoost, CloseForLimit, Run
    <3>3. limiting' = limiting \/ (limiting' = [limiting EXCEPT !.at = "reset"] /\ limiting.at # "no")
      BY <2>2 DEF DisableBoost, CloseForLimit
    <3>4. LimitOK' /\ limiting'.at \in {"no", "close", "reset", "set"}
      BY <3>3 DEF LimitOK
    <3> QED  BY <1>0, <1>1, <3>1, <3>2, <3>4 DEF PoolTypeOK
  <2>3. CASE ResetBudget \/ ResetForLimit
    <3>1. UNCHANGED <<total, poolVars, run>> /\ closing' \in {"no", "reset"}
      BY <1>1, <2>3 DEF ResetBudget, ResetForLimit
    <3>2. limiting' = limiting \/ (limiting' = [limiting EXCEPT !.at = "set"] /\ limiting.at # "no")
      BY <2>3 DEF ResetBudget, ResetForLimit
    <3>3. LimitOK' /\ limiting'.at \in {"no", "close", "reset", "set"}
      BY <3>2 DEF LimitOK
    <3> QED  BY <1>0, <1>1, <3>1, <3>3 DEF PoolTypeOK, poolVars
  <2>4. ASSUME NEW bytes \in Limits, SetRAMLimit(bytes) PROVE PoolTypeOK' /\ LimitOK'
    <3>1. LimitOK' /\ limiting'.at \in {"no", "close", "reset", "set"}
      BY <2>4 DEF SetRAMLimit, LimitOK
    <3> QED  BY <1>0, <1>1, <2>4, <3>1 DEF SetRAMLimit, PoolTypeOK, budgetVars, poolVars
  <2>5. CASE SetTotalBudget
    <3>1. LimitOK' /\ limiting'.at \in {"no", "close", "reset", "set"} /\ total' \in Limits
      BY <2>5 DEF SetTotalBudget, LimitOK
    <3> QED  BY <1>0, <1>1, <2>5, <3>1 DEF SetTotalBudget, PoolTypeOK, poolVars
  <2> QED  BY <1>7, <2>1, <2>2, <2>3, <2>4, <2>5 DEF Control
<1> QED  BY <1>5, <1>6, <1>7 DEF PoolNext

\* The run holds nothing of a pool that is closed or not its own.
LEMMA NotRunning ==
  ASSUME PoolTypeOK, RunOK, run.at \in {"none", "begun"}
  PROVE  Stopped
BY RunFields DEF RunOK, Stopped

LEMMA RunStays ==
  ASSUME RunOK, run'.at = run.at, run'.gen = run.gen, run'.held = run.held, run'.size = run.size,
         run'.key = run.key
  PROVE  RunOK'
BY DEF RunOK

\* The run has ended.
LEMMA RunEnds ==
  ASSUME PoolTypeOK, FreshOK, run' = NoRun, UNCHANGED poolVars
  PROVE  RunOK' /\ FreshOK' /\ Stopped'
<1>1. run'.at = "none" /\ run'.gen = 0 /\ run'.held = 0
  BY NoRunIs
<1>2. RunOK'
  BY <1>1 DEF RunOK
<1>3. Stopped'
  BY <1>1, RunFields DEF Stopped, poolVars
<1> QED  BY <1>1, <1>2, <1>3 DEF FreshOK, EmptyPool, poolVars

LEMMA PrewarmRunOK ==
  ASSUME MemoryInv, Prewarm
  PROVE  RunOK' /\ FreshOK'
<1> USE DEF MemoryInv
<1>0. run \in Run /\ RunParts(run) /\ gen \in Nat \ {0} /\ pool \in [PoolKeys -> Sizes]
  BY RunTyped, RunFields DEF PoolTypeOK
<1>1. CASE Begin
  <2>1. run'.at = "begun" /\ run'.gen = 0 /\ run'.held = 0
    BY <1>1, NoRunIs DEF Begin, Run
  <2>2. Stopped'
    BY <1>0, <1>1, <2>1 DEF Stopped, Begin, poolVars
  <2> QED  BY <1>1, <2>1, <2>2 DEF RunOK, FreshOK, EmptyPool, Begin, poolVars
<1>2. CASE TakeGeneration
  <2>1. run'.at = "reset" /\ run'.gen = gen + 1 /\ run'.held = run.held /\ gen + 1 # 0
    BY <1>0, <1>2 DEF TakeGeneration, Run
  <2>2. RunOK'
    BY <1>2, <2>1 DEF RunOK, TakeGeneration
  <2> QED  BY <1>2, <2>1, <2>2 DEF FreshOK, EmptyPool, TakeGeneration
<1>3. CASE ResetForGen
  <2>1. run'.at = "scan" /\ run'.gen = run.gen /\ run'.held = run.held
    BY <1>0, <1>3 DEF ResetForGen, Run
  <2>2. EmptyPool' /\ enabled' = TRUE
    BY <1>3 DEF ResetForGen, EmptyPool
  <2>3. RunOK'
    BY <1>3, <2>1 DEF RunOK, ResetForGen
  <2> QED  BY <2>1, <2>2, <2>3 DEF FreshOK
<1>4. ASSUME NEW files \in [PoolKeys -> Sizes], Scan(files) PROVE RunOK' /\ FreshOK'
  <2>1. run'.at = "next" /\ run'.gen = run.gen /\ run'.held = run.held
    BY <1>0, <1>4 DEF Scan, Run
  <2>2. EmptyPool /\ EmptyPool' /\ enabled'
    BY <1>4 DEF Scan, FreshOK, EmptyPool, poolVars, Stopped
  <2>3. RunOK'
    BY <1>4, <2>1 DEF RunOK, Scan
  <2> QED  BY <2>1, <2>2, <2>3 DEF FreshOK, EmptyPool
<1>5. ASSUME NEW k \in PoolKeys, Reserve(k) PROVE RunOK' /\ FreshOK'
  <2>1. /\ run'.at = "read" /\ run'.gen = run.gen /\ run'.key = k
        /\ run'.todo = [run.todo EXCEPT ![k] = 0]
    BY <1>0, <1>5 DEF Reserve, Run
  <2>2. /\ run'.todo[k] = 0 /\ \A j \in PoolKeys : run'.todo[j] # 0 => run.todo[j] # 0
    BY <1>0, <2>1 DEF RunParts
  <2>3. enabled /\ enabled' /\ pool' = pool /\ run.todo[k] # 0 /\ run.at = "next" /\ ~Stopped
    BY <1>5, RunFields DEF Reserve, poolVars, Stopped
  <2>4. RunOK'
    BY <2>1, <2>3 DEF RunOK
  <2> QED  BY <2>1, <2>2, <2>3, <2>4 DEF FreshOK, EmptyPool
<1>6. ASSUME NEW size \in 1 .. MaxSize, ReadFile(size) PROVE RunOK' /\ FreshOK'
  <2>1. CASE run' = NoRun
    BY <1>6, <2>1, RunEnds DEF ReadFile
  <2>2. CASE run' = [run EXCEPT !.at = "loaded", !.size = size]
    <3>1. /\ run'.at = "loaded" /\ run'.gen = run.gen /\ run'.key = run.key
          /\ run'.todo = run.todo /\ run.at = "read" /\ UNCHANGED poolVars
      BY <1>0, <1>6, <2>2 DEF ReadFile, Run
    <3> QED  BY <3>1 DEF RunOK, FreshOK, EmptyPool, Stopped, poolVars
  <2>3. CASE run' = [run EXCEPT !.at = "next", !.held = 0]
    <3>1. /\ run'.at = "next" /\ run'.gen = run.gen /\ run'.key = run.key /\ run'.held = 0
          /\ run'.todo = run.todo /\ run.at = "read" /\ UNCHANGED poolVars
      BY <1>0, <1>6, <2>3 DEF ReadFile, Run
    <3> QED  BY <3>1 DEF RunOK, FreshOK, EmptyPool, Stopped, poolVars
  <2> QED  BY <1>6, <2>1, <2>2, <2>3 DEF ReadFile
<1>7. CASE Adjust
  <2>1. CASE run' = NoRun
    BY <1>7, <2>1, RunEnds DEF Adjust
  <2>2. CASE run' = [run EXCEPT !.at = "commit", !.held = run.size]
    <3>1. /\ run'.at = "commit" /\ run'.gen = run.gen /\ run'.key = run.key /\ run'.held = run.size
          /\ run'.size = run.size /\ run'.todo = run.todo /\ run.at = "loaded" /\ UNCHANGED poolVars
      BY <1>0, <1>7, <2>2 DEF Adjust, Run
    <3> QED  BY <3>1 DEF RunOK, FreshOK, EmptyPool, Stopped, poolVars
  <2> QED  BY <1>7, <2>1, <2>2 DEF Adjust
<1>8. CASE Commit
  <2>1. CASE run.live /\ Stopped
    BY <1>8, <2>1, RunEnds DEF Commit, poolVars
  <2>2. CASE ~ (run.live /\ Stopped)
    <3>1. /\ run'.at = "next" /\ run'.gen = run.gen /\ run'.held = 0
          /\ run'.todo = run.todo /\ run.at = "commit" /\ UNCHANGED <<enabled, gen>>
          /\ pool' = pool \/ (~Stopped /\ pool' = [pool EXCEPT ![run.key] = run.size])
      BY <1>0, <1>8, <2>2 DEF Commit, Run
    <3>2. RunOK'
      BY <3>1 DEF RunOK
    <3>3. Stopped' <=> Stopped
      BY <3>1 DEF Stopped
    <3>4. CASE pool' = pool
      BY <3>1, <3>2, <3>3, <3>4 DEF FreshOK, EmptyPool
    <3>5. CASE ~Stopped /\ pool' = [pool EXCEPT ![run.key] = run.size]
      <4>1. \A k \in PoolKeys : k # run.key => pool'[k] = pool[k]
        BY <1>0, <3>5
      <4>2. run.todo[run.key] = 0 /\ enabled /\ enabled'
        BY <3>1, <3>5 DEF FreshOK, Stopped
      <4> QED  BY <3>1, <3>2, <3>5, <4>1, <4>2 DEF FreshOK
    <3> QED  BY <3>1, <3>4, <3>5
  <2> QED  BY <2>1, <2>2
<1>9. CASE End
  BY <1>9, RunEnds DEF End
<1> QED  BY <1>1, <1>2, <1>3, <1>4, <1>5, <1>6, <1>7, <1>8, <1>9 DEF Prewarm

LEMMA OthersRunOK ==
  ASSUME MemoryInv, Traffic \/ Control
  PROVE  RunOK' /\ FreshOK'
<1> USE DEF MemoryInv
<1>0. run \in Run /\ pool \in [PoolKeys -> Sizes]
  BY DEF PoolTypeOK
<1>1. CASE UNCHANGED <<run, poolVars>>
  BY <1>1 DEF RunOK, FreshOK, EmptyPool, Stopped, poolVars
<1>2. ASSUME NEW s, NEW k \in PoolKeys, Dropped(s, k), UNCHANGED <<enabled, gen>>,
             run'.at = run.at, run'.gen = run.gen, run'.todo = run.todo, run'.key = run.key,
             run'.held = run.held, run'.size = run.size
      PROVE  RunOK' /\ FreshOK'
  <2>1. \A j \in PoolKeys : pool'[j] = pool[j] \/ pool'[j] = 0
    BY <1>0, <1>2 DEF Dropped
  <2>2. EmptyPool => EmptyPool'
    BY <2>1 DEF EmptyPool
  <2>3. Stopped' <=> Stopped
    BY <1>2 DEF Stopped
  <2>4. RunOK'
    BY <1>2, RunStays
  <2>5. FreshOK'
    BY <1>2, <2>1, <2>2, <2>3 DEF FreshOK, RunOK
  <2> QED  BY <2>4, <2>5
<1>3. CASE Disable /\ run'.at = run.at /\ run'.gen = run.gen /\ run'.key = run.key
           /\ run'.held = run.held /\ run'.size = run.size
  <2>1. EmptyPool' /\ ~enabled' /\ Stopped'
    BY <1>3 DEF Disable, EmptyPool, Stopped
  <2> QED  BY <1>3, <2>1, RunStays DEF FreshOK
<1>4. ASSUME NEW k \in PoolKeys, NEW size \in 1 .. MaxSize, NEW protected \in BOOLEAN,
             SaveRAM(k, size, protected)
      PROVE  RunOK' /\ FreshOK'
  BY <1>2, <1>4 DEF SaveRAM
<1>5. ASSUME NEW k \in PoolKeys, NEW size \in 1 .. MaxSize, Backfill(k, size)
      PROVE  RunOK' /\ FreshOK'
  BY <1>1, <1>5 DEF Backfill
<1>6. ASSUME NEW k \in PoolKeys, Hit(k) PROVE RunOK' /\ FreshOK'
  BY <1>1, <1>6 DEF Hit
<1>7. ASSUME NEW k \in PoolKeys, Invalidate(k) PROVE RunOK' /\ FreshOK'
  <2>1. /\ run'.at = run.at /\ run'.gen = run.gen /\ run'.todo = run.todo /\ run'.key = run.key
        /\ run'.held = run.held /\ run'.size = run.size
    BY <1>0, <1>7 DEF Invalidate, Run
  <2> QED  BY <1>2, <1>7, <2>1 DEF Invalidate
<1>8. CASE ClearRAM \/ ResetBudget \/ ResetForLimit \/ SetTotalBudget
           \/ \E bytes \in Limits : SetRAMLimit(bytes)
  BY <1>1, <1>8 DEF ClearRAM, ResetBudget, ResetForLimit, SetTotalBudget, SetRAMLimit
<1>9. CASE DisableBoost
  <2>1. /\ run'.at = run.at /\ run'.gen = run.gen /\ run'.key = run.key
        /\ run'.held = run.held /\ run'.size = run.size
    BY <1>0, <1>9 DEF DisableBoost, Run
  <2> QED  BY <1>3, <1>9, <2>1 DEF DisableBoost
<1>10. CASE CloseForLimit
  BY <1>3, <1>10 DEF CloseForLimit
<1>11. CASE Traffic
  BY <1>4, <1>5, <1>6, <1>7, <1>11 DEF Traffic
<1>12. CASE Control
  BY <1>8, <1>9, <1>10, <1>12 DEF Control
<1> QED  BY <1>11, <1>12

-----------------------------------------------------------------------------
(***************************************************************************)
(* Nothing stays reserved that nobody holds.                               *)
(***************************************************************************)
LEMMA InHandIs ==
  ASSUME PoolTypeOK
  PROVE  InHand \in Nat /\ Sum(pool) \in Nat /\ (Stopped => InHand = 0) /\ (~Stopped => InHand = run.held)
<1>1. pool \in [PoolKeys -> Sizes]
  BY DEF PoolTypeOK
<1> QED  BY <1>1, RunFields, SumIs DEF InHand

\* A run that gives back what it holds, and holds no more than before.
LEMMA GivesBack ==
  ASSUME MemoryInv, PoolTypeOK', NEW bytes \in Nat, bytes <= run.held, ReleaseOfRun(bytes),
         pool' = pool, Stopped \/ InHand' + bytes = run.held \/ bytes = run.held
  PROVE  NothingLeaks'
<1>1. /\ InHand \in Nat /\ Sum(pool) \in Nat /\ resident \in Nat /\ run.held \in Nat
      /\ Stopped => InHand = 0
      /\ ~Stopped => InHand = run.held
      /\ resident <= Sum(pool) + InHand
  BY InHandIs, RunFields DEF MemoryInv, NothingLeaks
<1>2. InHand' \in Nat /\ Sum(pool') = Sum(pool)
  <2>1. PoolTypeOK => InHand \in Nat
    BY InHandIs
  <2>2. (PoolTypeOK => InHand \in Nat)'
    BY InHandIs, PTL
  <2> QED  BY <2>2
<1>3. CASE Stopped
  <2>1. resident' = resident
    BY <1>3 DEF ReleaseOfRun, budgetVars
  <2> QED  BY <1>1, <1>2, <1>3, <2>1 DEF NothingLeaks
<1>4. CASE ~Stopped
  <2>1. resident' = IF bytes > resident THEN 0 ELSE resident - bytes
    BY <1>4 DEF ReleaseOfRun, Release, Left, Room
  <2> QED  BY <1>1, <1>2, <1>4, <2>1 DEF NothingLeaks
<1> QED  BY <1>3, <1>4

LEMMA NextLeaks ==
  ASSUME MemoryInv, PoolNext
  PROVE  NothingLeaks'
<1> USE DEF MemoryInv
<1>0. /\ PoolTypeOK' /\ RunOK' /\ run \in Run /\ RunParts(run) /\ resident' \in Nat
      /\ pool \in [PoolKeys -> Sizes]
  BY NextTypeOK, NextCacheOK, PrewarmRunOK, OthersRunOK, RunTyped DEF PoolNext, PoolTypeOK
<1>1. /\ InHand \in Nat /\ Sum(pool) \in Nat /\ resident \in Nat
      /\ run.held \in Nat /\ run.size \in Nat
      /\ Stopped => InHand = 0
      /\ ~Stopped => InHand = run.held
      /\ resident <= Sum(pool) + InHand
  BY InHandIs, RunFields DEF NothingLeaks
<1>2. /\ InHand' \in Nat /\ Sum(pool') \in Nat
      /\ Stopped' => InHand' = 0
      /\ ~Stopped' => InHand' = run'.held
  <2>1. (PoolTypeOK => /\ InHand \in Nat /\ Sum(pool) \in Nat /\ (Stopped => InHand = 0)
                       /\ (~Stopped => InHand = run.held))'
    BY InHandIs, PTL
  <2> QED  BY <1>0, <2>1
<1>3. CASE resident' = 0
  BY <1>2, <1>3 DEF NothingLeaks
<1>4. CASE resident' <= resident /\ Sum(pool') = Sum(pool) /\ InHand <= InHand'
  BY <1>0, <1>1, <1>2, <1>4 DEF NothingLeaks
<1>5. CASE Prewarm
  <2>1. CASE Begin \/ TakeGeneration
    <3>1. InHand = 0 /\ resident' = resident /\ pool' = pool
      BY <1>1, <2>1, NotRunning DEF Begin, TakeGeneration, budgetVars, poolVars
    <3> QED  BY <1>1, <1>2, <1>4, <3>1
  <2>2. CASE ResetForGen
    BY <1>3, <2>2 DEF ResetForGen, Reset
  <2>3. ASSUME NEW files \in [PoolKeys -> Sizes], Scan(files) PROVE NothingLeaks'
    <3>1. run'.held = run.held /\ run'.gen = run.gen /\ UNCHANGED <<resident, enabled, gen, pool>>
      BY <1>0, <2>3 DEF Scan, Run, budgetVars, poolVars
    <3>2. InHand' = InHand
      BY <3>1 DEF InHand, Stopped
    <3> QED  BY <1>1, <1>4, <3>1, <3>2
  <2>4. ASSUME NEW k \in PoolKeys, Reserve(k) PROVE NothingLeaks'
    <3>1. /\ run'.held = run.todo[k] /\ run'.gen = run.gen /\ UNCHANGED <<enabled, gen, pool>>
          /\ resident' = resident + run.todo[k] /\ ~Stopped /\ run.held = 0
      BY <1>0, <2>4 DEF Reserve, Acquire, Run, poolVars, RunOK
    <3>2. InHand' = run.todo[k] /\ InHand = 0 /\ run.todo[k] \in Nat
      BY <1>1, <1>2, <3>1, RunFields DEF Stopped
    <3> QED  BY <1>1, <3>1, <3>2 DEF NothingLeaks
  <2>5. ASSUME NEW size \in 1 .. MaxSize, ReadFile(size) PROVE NothingLeaks'
    <3>1. CASE ~Stopped /\ run' = [run EXCEPT !.at = "loaded", !.size = size] /\ UNCHANGED budgetVars
      <4>1. run'.held = run.held /\ run'.gen = run.gen /\ UNCHANGED <<resident, enabled, gen, pool>>
        BY <1>0, <2>5, <3>1 DEF ReadFile, Run, budgetVars, poolVars
      <4>2. InHand' = InHand
        BY <4>1 DEF InHand, Stopped
      <4> QED  BY <1>1, <1>4, <4>1, <4>2
    <3>2. CASE ReleaseOfRun(run.held)
      <4>1. pool' = pool
        BY <2>5 DEF ReadFile, poolVars
      <4> QED  BY <1>0, <1>1, <3>2, <4>1, GivesBack
    <3>3. CASE Stopped /\ UNCHANGED budgetVars
      <4>1. resident' = resident /\ pool' = pool /\ InHand = 0
        BY <1>1, <2>5, <3>3 DEF ReadFile, budgetVars, poolVars
      <4> QED  BY <1>1, <1>2, <1>4, <4>1
    <3> QED  BY <2>5, <3>1, <3>2, <3>3 DEF ReadFile
  <2>6. CASE Adjust
    <3>0. pool' = pool /\ enabled' = enabled /\ gen' = gen
      BY <2>6 DEF Adjust, poolVars
    <3>1. CASE /\ run.size <= run.held /\ ReleaseOfRun(run.held - run.size)
               /\ run' = [run EXCEPT !.at = "commit", !.held = run.size]
      <4>1. run'.held = run.size /\ run'.gen = run.gen
        BY <1>0, <3>1 DEF Run
      <4>2. Stopped \/ InHand' = run.size
        BY <1>2, <3>0, <4>1 DEF Stopped
      <4>3. /\ run.held - run.size \in Nat /\ run.held - run.size <= run.held
            /\ Stopped \/ InHand' + (run.held - run.size) = run.held
        BY <1>1, <3>1, <4>2
      <4> QED  BY <1>0, <3>0, <3>1, <4>3, GivesBack
    <3>2. CASE /\ run.size > run.held /\ ~Stopped /\ Acquire(run.size - run.held)
               /\ run' = [run EXCEPT !.at = "commit", !.held = run.size]
      <4>1. run'.held = run.size /\ run'.gen = run.gen
        BY <1>0, <3>2 DEF Run
      <4>2. InHand' = run.size /\ InHand = run.held
        BY <1>1, <1>2, <3>0, <3>2, <4>1 DEF Stopped
      <4>3. resident' = resident + (run.size - run.held)
        BY <3>2 DEF Acquire
      <4> QED  BY <1>1, <3>0, <4>2, <4>3 DEF NothingLeaks
    <3>3. CASE ReleaseOfRun(run.held)
      BY <1>0, <1>1, <3>0, <3>3, GivesBack
    <3> QED  BY <2>6, <3>1, <3>2, <3>3 DEF Adjust
  <2>7. CASE Commit
    <3>0. run.at = "commit" /\ run.held = run.size /\ run.key \in PoolKeys /\ run.size \in Sizes
      BY <1>0, <2>7 DEF Commit, RunOK, RunParts
    <3>1. CASE ~Stopped /\ pool' = [pool EXCEPT ![run.key] = run.size] /\ UNCHANGED budgetVars
      <4>1. pool[run.key] = 0
        BY <3>0, <3>1 DEF FreshOK
      <4>2. Sum(pool') + 0 = Sum(pool) + run.size
        <5>1. Sum(Changed(pool, run.key, run.size)) + pool[run.key] = Sum(pool) + run.size
          BY <1>0, <3>0, SumExcept
        <5> QED  BY <3>1, <4>1, <5>1 DEF Changed
      <4>3. Sum(pool') = Sum(pool) + run.size
        BY <1>2, <4>2
      <4>4. resident' = resident
        BY <3>1 DEF budgetVars
      <4> QED  BY <1>1, <1>2, <3>0, <3>1, <4>3, <4>4 DEF NothingLeaks
    <3>2. CASE ReleaseOfRun(run.size) /\ pool' = pool
      BY <1>0, <1>1, <3>0, <3>2, GivesBack
    <3>3. CASE Stopped /\ UNCHANGED <<budgetVars, pool>>
      BY <1>1, <1>2, <1>4, <3>3 DEF budgetVars
    <3> QED  BY <2>7, <3>1, <3>2, <3>3 DEF Commit
  <2>8. CASE End
    <3>1. run.held = 0 /\ InHand = 0 /\ resident' = resident /\ pool' = pool
      BY <1>1, <2>8 DEF End, RunOK, poolVars
    <3> QED  BY <1>1, <1>2, <1>4, <3>1
  <2> QED  BY <1>5, <2>1, <2>2, <2>3, <2>4, <2>5, <2>6, <2>7, <2>8 DEF Prewarm
<1>6. ASSUME NEW s, NEW k \in PoolKeys, Dropped(s, k), InHand' = InHand PROVE NothingLeaks'
  <2>1. 0 \in Sizes /\ pool[k] \in Nat
    BY RunFields, SizeAssumption DEF Sizes
  <2>2. pool' = [pool EXCEPT ![k] = 0] /\ Sum(pool') + pool[k] = Sum(pool) + 0
    <3>1. Sum(Changed(pool, k, 0)) + pool[k] = Sum(pool) + 0
      BY <1>0, <2>1, SumExcept
    <3> QED  BY <1>6, <3>1 DEF Dropped, Changed
  <2>3. CASE enabled /\ pool[k] > 0
    <3>1. resident' = IF pool[k] > resident THEN 0 ELSE resident - pool[k]
      BY <1>6, <2>3 DEF Dropped, Left, Room
    <3> QED  BY <1>1, <1>2, <1>6, <2>1, <2>2, <3>1 DEF NothingLeaks
  <2>4. CASE ~ (enabled /\ pool[k] > 0)
    <3>1. resident' = resident
      BY <1>6, <2>4 DEF Dropped
    <3>2. pool[k] = 0
      BY <2>1, <2>4 DEF FreshOK, EmptyPool
    <3> QED  BY <1>1, <1>2, <1>6, <2>2, <3>1, <3>2 DEF NothingLeaks
  <2> QED  BY <2>3, <2>4
<1>7. CASE UNCHANGED <<resident, run, poolVars>>
  <2>1. InHand' = InHand
    BY <1>7 DEF InHand, Stopped, poolVars
  <2> QED  BY <1>1, <1>4, <1>7, <2>1 DEF poolVars
<1>8. CASE Traffic
  <2>1. ASSUME NEW k \in PoolKeys, NEW size \in 1 .. MaxSize, NEW protected \in BOOLEAN,
               SaveRAM(k, size, protected)
        PROVE  NothingLeaks'
    <3>1. InHand' = InHand
      BY <2>1 DEF SaveRAM, InHand, Stopped
    <3> QED  BY <1>6, <2>1, <3>1 DEF SaveRAM
  <2>2. ASSUME NEW k \in PoolKeys, NEW size \in 1 .. MaxSize, Backfill(k, size)
        PROVE  NothingLeaks'
    BY <1>7, <2>2 DEF Backfill
  <2>3. ASSUME NEW k \in PoolKeys, Hit(k) PROVE NothingLeaks'
    BY <1>7, <2>3 DEF Hit
  <2>4. ASSUME NEW k \in PoolKeys, Invalidate(k) PROVE NothingLeaks'
    <3>1. run'.held = run.held /\ run'.gen = run.gen /\ UNCHANGED <<enabled, gen>>
      BY <1>0, <2>4 DEF Invalidate, Run
    <3>2. InHand' = InHand
      BY <3>1 DEF InHand, Stopped
    <3> QED  BY <1>6, <2>4, <3>2 DEF Invalidate
  <2> QED  BY <1>8, <2>1, <2>2, <2>3, <2>4 DEF Traffic
<1>9. CASE Control
  <2>1. CASE DisableBoost \/ ResetBudget \/ CloseForLimit \/ ResetForLimit
    BY <1>3, <2>1 DEF DisableBoost, ResetBudget, CloseForLimit, ResetForLimit, Disable, Reset
  <2>2. CASE ClearRAM \/ SetTotalBudget \/ \E bytes \in Limits : SetRAMLimit(bytes)
    BY <1>7, <2>2 DEF ClearRAM, SetTotalBudget, SetRAMLimit, budgetVars
  <2> QED  BY <1>9, <2>1, <2>2 DEF Control
<1> QED  BY <1>5, <1>8, <1>9 DEF PoolNext

LEMMA NextMemoryInv == MemoryInv /\ [PoolNext]_memoryVars => MemoryInv'
<1>1. ASSUME MemoryInv, PoolNext PROVE MemoryInv'
  <2>1. RunOK' /\ FreshOK'
    BY <1>1, PrewarmRunOK, OthersRunOK DEF PoolNext
  <2> QED  BY <1>1, <2>1, NextTypeOK, NextCacheOK, NextLeaks DEF MemoryInv
<1>2. ASSUME MemoryInv, UNCHANGED memoryVars PROVE MemoryInv'
  BY <1>2 DEF MemoryInv, PoolTypeOK, CacheOK, LimitOK, RunOK, FreshOK, EmptyPool, NothingLeaks,
              InHand, Stopped, memoryVars, budgetVars, poolVars
<1> QED  BY <1>1, <1>2

\* The type invariant of the memory holds in every state of the pool's specification,
\* for every set of files and limits (ResidentPool, RAMBudget).
THEOREM PoolTypeOKAlways == PoolSpec => []PoolTypeOK
<1>1. MemoryInv => PoolTypeOK
  BY DEF MemoryInv
<1> QED  BY <1>1, InitMemoryInv, NextMemoryInv, PTL DEF PoolSpec

\* The byte counters of the LRU cache (lru.go) are those of its lists, after every mix of
\* promotions, demotions, evictions and changes of the capacity.
THEOREM CountersExactAlways == PoolSpec => []CountersExact
<1>1. MemoryInv => CountersExact
  BY DEF MemoryInv, CacheOK, Sound, Counted, CountersExact
<1> QED  BY <1>1, InitMemoryInv, NextMemoryInv, PTL DEF PoolSpec

\* A key is in the LRU cache once: no promotion or replacement leaves a second entry.
THEOREM OneEntryPerKeyAlways == PoolSpec => []OneEntryPerKey
<1>1. ASSUME MemoryInv PROVE OneEntryPerKey
  <2> DEFINE all == slru.prob \o slru.prot
  <2>1. slru.prob \in Lists /\ slru.prot \in Lists /\ OneEach(slru)
    BY <1>1, CacheFields DEF MemoryInv, CacheOK, Sound, Counted
  <2>2. all \in Lists /\ Distinct(all)
    BY <2>1, BytesOfBoth, KeysOfBoth DEF OneEach
  <2> HIDE DEF all
  <2>3. \A i, j \in DOMAIN all : i # j => all[i].key # all[j].key
    BY <2>2, ListFields DEF Distinct
  <2> QED  BY <2>3 DEF OneEntryPerKey, all
<1> QED  BY <1>1, InitMemoryInv, NextMemoryInv, PTL DEF PoolSpec

\* The LRU cache has the capacity that the pool leaves it, and keeps to it
\* (syncSLRULocked, ram_budget.go).
THEOREM CapacityFollowsAlways == PoolSpec => []CapacityFollows
<1>1. ASSUME MemoryInv PROVE CapacityFollows
  <2>1. slru.max = Room(total, resident) /\ slru.max \in Nat /\ slru.total = Used(slru)
        /\ (slru.max # 0 => Used(slru) <= slru.max)
    BY <1>1, CacheFields DEF MemoryInv, CacheOK, Sound, Counted
  <2> QED  BY <2>1 DEF CapacityFollows
<1> QED  BY <1>1, InitMemoryInv, NextMemoryInv, PTL DEF PoolSpec

\* No bytes stay reserved that neither the pool nor its run holds: every path of a run
\* that gives up gives its reservation back (resident_pool.go, boost.go).
THEOREM NothingLeaksAlways == PoolSpec => []NothingLeaks
<1>1. MemoryInv => NothingLeaks
  BY DEF MemoryInv
<1> QED  BY <1>1, InitMemoryInv, NextMemoryInv, PTL DEF PoolSpec

-----------------------------------------------------------------------------
(***************************************************************************)
(* Scan resistance.                                                        *)
(***************************************************************************)

\* A store that resists does so when the cache gets more room after it.
LEMMA ResistsWithMore ==
  ASSUME NEW s, Sound(s), NEW t, Sound(t), t.max = s.max, Resists(s, t),
         NEW m \in Nat, s.max <= m, NEW v, v = Resized(t, m)
  PROVE  Resists(s, v)
<1>1. /\ Sound(v)
      /\ t.max # 0 /\ ProtMax(t.max) # 0 /\ t.max <= m => v.prob = t.prob /\ v.prot = t.prot
  BY ResizedIs
<1> SUFFICES ASSUME v.prob # <<>>, First(v.prob).size <= ProtMax(s.max) PROVE v.prob = t.prob /\ v.prot = t.prot
  BY DEF Resists
<1>2. First(v.prob).size \in Nat \ {0} /\ s.max \in Nat
  BY <1>1, CacheFields, FirstOf, NodeFields DEF Sound, Counted
<1>3. ProtMax(s.max) \in Nat /\ ProtMax(0) = 0
  BY <1>2, Shares
<1>4. ProtMax(s.max) # 0
  BY <1>2, <1>3
<1>5. s.max # 0
  BY <1>3, <1>4
<1> QED  BY <1>1, <1>4, <1>5

LEMMA MemoryTyped ==
  MemoryInv => Sound(slru) /\ Counted(slru) /\ total \in Nat /\ resident \in Nat
BY RunFields DEF MemoryInv, CacheOK, Sound

LEMMA NextResists ==
  ASSUME MemoryInv, [PoolNext]_memoryVars
  PROVE  Resists(slru, slru')
<1>1. /\ Sound(slru) /\ slru.max = Room(total, resident) /\ total \in Nat /\ resident \in Nat
      /\ Counted(slru) /\ \A k \in PoolKeys : pool[k] \in Nat
  BY RunFields DEF MemoryInv, CacheOK, Sound
<1>2. MemoryInv'
  BY NextMemoryInv
<1>3. Sound(slru') /\ Counted(slru') /\ total' \in Nat /\ resident' \in Nat
  <2>1. (MemoryInv => Sound(slru) /\ Counted(slru) /\ total \in Nat /\ resident \in Nat)'
    BY MemoryTyped, PTL
  <2> QED  BY <1>2, <2>1
<1>4. Within(slru', slru) => Resists(slru, slru')
  BY <1>3, OldKeysResist
<1>5. slru' = slru => Within(slru', slru)
  BY DEF Within
<1>6. ASSUME NEW m \in Nat, slru' = Resized(slru, m) PROVE Resists(slru, slru')
  BY <1>1, <1>4, <1>6, ResizedIs
<1>7. ASSUME NEW s, Sound(s), s.max = slru.max, Resists(slru, s), NEW k \in PoolKeys, Dropped(s, k)
      PROVE  Resists(slru, slru')
  <2>1. CASE slru' = s
    BY <1>7, <2>1
  <2>2. CASE slru' = Resized(s, Room(total, Left(pool[k])))
    <3>1. Left(pool[k]) \in Nat /\ Left(pool[k]) <= resident
      BY <1>1, RoomIs DEF Left
    <3>2. Room(total, Left(pool[k])) \in Nat /\ slru.max <= Room(total, Left(pool[k]))
      <4> DEFINE less == Left(pool[k])
      <4>1. less \in Nat /\ less <= resident
        BY <3>1
      <4> HIDE DEF less
      <4>2. Room(total, less) \in Nat /\ Room(total, resident) <= Room(total, less)
        BY <1>1, <4>1, RoomIs, MoreRoom
      <4> QED  BY <1>1, <4>2 DEF less
    <3> QED  BY <1>1, <1>7, <2>2, <3>2, ResistsWithMore
  <2> QED  BY <1>7, <2>1, <2>2 DEF Dropped
<1>8. CASE slru' = slru
  BY <1>4, <1>5, <1>8
<1>9. CASE \E m \in Nat : slru' = Resized(slru, m)
  BY <1>6, <1>9
<1>10. CASE Prewarm
  <2>1. \A all, used \in Nat : Room(all, used) \in Nat
    BY RoomIs
  <2>2. CASE \E bytes \in Nat : Release(bytes)
    <3>1. PICK bytes \in Nat : Release(bytes)
      BY <2>2
    <3>2. Left(bytes) \in Nat
      BY <1>1, <2>1 DEF Left
    <3>3. Room(total, Left(bytes)) \in Nat
      BY <1>1, <2>1, <3>2
    <3> QED  BY <1>9, <3>1, <3>3 DEF Release
  <2>3. CASE \E bytes \in Nat : Acquire(bytes)
    <3>1. PICK bytes \in Nat : Acquire(bytes)
      BY <2>3
    <3>2. resident + bytes \in Nat
      BY <1>1
    <3>3. Room(total, resident + bytes) \in Nat
      BY <1>1, <2>1, <3>2
    <3> QED  BY <1>9, <3>1, <3>3 DEF Acquire
  <2>4. CASE \E bytes \in Nat : ReleaseOfRun(bytes)
    BY <1>8, <2>2, <2>4 DEF ReleaseOfRun, budgetVars
  <2>5. run.held \in Nat /\ run.size \in Nat /\ \A k \in PoolKeys : run.todo[k] \in Nat
    BY RunFields DEF MemoryInv
  <2>6. CASE Begin \/ TakeGeneration \/ \E files \in [PoolKeys -> Sizes] : Scan(files)
    BY <1>8, <2>6 DEF Begin, TakeGeneration, Scan, budgetVars
  <2>7. CASE ResetForGen
    BY <1>1, <1>9, <2>7 DEF ResetForGen, Reset
  <2>8. CASE \E k \in PoolKeys : Reserve(k)
    BY <2>3, <2>5, <2>8 DEF Reserve
  <2>9. CASE \E size \in 1 .. MaxSize : ReadFile(size)
    BY <1>8, <2>4, <2>5, <2>9 DEF ReadFile, budgetVars
  <2>10. CASE Adjust
    <3>1. run.size <= run.held => run.held - run.size \in Nat
      BY <2>5
    <3>2. run.size > run.held => run.size - run.held \in Nat
      BY <2>5
    <3> QED  BY <2>3, <2>4, <2>5, <2>10, <3>1, <3>2 DEF Adjust
  <2>11. CASE Commit
    BY <1>8, <2>4, <2>5, <2>11 DEF Commit, budgetVars
  <2>12. CASE End
    BY <1>1, <1>8, <1>9, <2>1, <2>12 DEF End
  <2> QED  BY <1>10, <2>6, <2>7, <2>8, <2>9, <2>10, <2>11, <2>12 DEF Prewarm
<1>11. CASE Traffic
  <2>1. ASSUME NEW k \in PoolKeys, NEW size \in 1 .. MaxSize, NEW protected \in BOOLEAN
        PROVE  LET t == Stored(slru, k, size, protected)
               IN Sound(t) /\ t.max = slru.max /\ Resists(slru, t)
    <3>1. size \in Nat \ {0}
      BY SizeAssumption
    <3> QED  BY <1>1, <3>1, StoredIs
  <2>2. ASSUME NEW k \in PoolKeys, NEW size \in 1 .. MaxSize, NEW protected \in BOOLEAN,
               SaveRAM(k, size, protected)
        PROVE  Resists(slru, slru')
    BY <1>7, <2>1, <2>2 DEF SaveRAM
  <2>3. ASSUME NEW k \in PoolKeys, NEW size \in 1 .. MaxSize, Backfill(k, size)
        PROVE  Resists(slru, slru')
    <3>1. FALSE \in BOOLEAN
      OBVIOUS
    <3> QED  BY <2>1, <2>3, <3>1 DEF Backfill
  <2>4. ASSUME NEW k \in PoolKeys, Hit(k) PROVE Resists(slru, slru')
    <3>1. k \in AllKeys(slru)
      BY <1>1, <2>4, HasAny DEF Hit
    <3> QED  BY <1>1, <1>4, <2>4, <3>1, TouchedIs DEF Hit
  <2>5. ASSUME NEW k \in PoolKeys, Invalidate(k) PROVE Resists(slru, slru')
    <3> DEFINE t == Deleted(slru, k)
    <3>1. Sound(t) /\ t.max = slru.max /\ Within(t, slru)
      BY <1>1, DeletedIs
    <3>2. Dropped(t, k)
      BY <2>5 DEF Invalidate
    <3> HIDE DEF t
    <3>3. Resists(slru, t)
      BY <3>1, OldKeysResist DEF Sound
    <3> QED  BY <1>7, <3>1, <3>2, <3>3
  <2> QED  BY <1>11, <2>2, <2>3, <2>4, <2>5 DEF Traffic
<1>12. CASE Control
  <2>1. CASE ClearRAM
    BY <1>1, <1>4, <2>1, ClearedIs DEF ClearRAM
  <2>2. CASE DisableBoost \/ ResetBudget \/ CloseForLimit \/ ResetForLimit
    <3>1. slru' = Resized(slru, total)
      BY <2>2 DEF DisableBoost, ResetBudget, CloseForLimit, ResetForLimit, Disable, Reset
    <3> QED  BY <1>1, <1>9, <3>1
  <2>3. CASE \E bytes \in Limits : SetRAMLimit(bytes)
    BY <1>8, <2>3 DEF SetRAMLimit, budgetVars
  <2>4. CASE SetTotalBudget
    <3>1. limiting.bytes = total' /\ Room(total', resident) \in Nat
      BY <1>1, <1>3, <2>4, RoomIs DEF SetTotalBudget
    <3> QED  BY <1>9, <2>4, <3>1 DEF SetTotalBudget
  <2> QED  BY <1>12, <2>1, <2>2, <2>3, <2>4 DEF Control
<1>13. CASE UNCHANGED memoryVars
  BY <1>8, <1>13 DEF memoryVars, budgetVars
<1> QED  BY <1>10, <1>11, <1>12, <1>13 DEF PoolNext

\* Traffic that is seen once does not push out what is used: a step that puts a new key
\* in front of the probationary list leaves the protected list alone (lru.go), even when
\* the same step gives the cache more room.
THEOREM ScanResistantAlways == PoolSpec => ScanResistant
<1> DEFINE A == LET new == Head(slru'.prob)
                IN /\ slru'.prob # <<>>
                   /\ ~Has(slru.prob \o slru.prot, new.key)
                   /\ new.size <= ProtMax(slru.max)
                   => slru'.prot = slru.prot
<1>1. ASSUME MemoryInv, [PoolNext]_memoryVars PROVE A
  <2>1. Resists(slru, slru') /\ Counted(slru)
    BY <1>1, NextResists DEF MemoryInv, CacheOK, Sound
  <2>2. \A k : Has(slru.prob \o slru.prot, k) <=> k \in AllKeys(slru)
    BY <2>1, HasAny
  <2>3. Head(slru'.prob) = First(slru'.prob)
    BY DEF First, Head
  <2> QED  BY <2>1, <2>2, <2>3 DEF Resists
<1>2. MemoryInv /\ [PoolNext]_memoryVars => [A]_memoryVars
  BY <1>1
<1> QED  BY <1>2, InitMemoryInv, NextMemoryInv, PTL DEF PoolSpec, ScanResistant
=============================================================================
