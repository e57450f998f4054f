------------------------------ MODULE OpToken ------------------------------
(***************************************************************************)
(* The per-key invalidation token table of engine/cache/breakdown.go.      *)
(*                                                                         *)
(* An operation that reads or writes a cache entry in several steps takes  *)
(* a token (generation, sequence number of the key's shard, canonical key) *)
(* when it starts, and asks whether the token is still valid, under the    *)
(* shard lock, before each write to shared state.  Invalidating a key      *)
(* raises the sequence number of its shard and records it for the key, in  *)
(* a map whose size is bounded by a ring: the slot that is overwritten     *)
(* drops its key from the map and raises minValidSeq instead.              *)
(*                                                                         *)
(* Each action is one critical section of a shard's mutex, or (ClearTable) *)
(* one critical section of the write side of persistMu.                    *)
(***************************************************************************)
EXTENDS Integers, FiniteSets

CONSTANTS Keys,      \* canonical token keys
          Shards,    \* shards of the table (16 in the code)
          ShardOf,   \* the shard of a key: fnv32(canonKey) & 15
          RingSize,  \* maxInvalidSeqEntries (4096 in the code)
          Ops,       \* operations that may hold a token at the same time
          NoKey,     \* the key of an operation without a token
          MaxSeq,    \* bound on a shard's sequence number
          MaxGen     \* bound on the cache generation

ASSUME KeysAssumption == NoKey \notin Keys
ASSUME ShardAssumption == ShardOf \in [Keys -> Shards]
ASSUME RingAssumption == RingSize \in Nat \ {0}
ASSUME BoundAssumption == MaxSeq \in Nat /\ MaxGen \in Nat

VARIABLES generation,   \* Manager.generation, guarded by persistMu
          seq,          \* seq[s]         : tokenShard.seq
          minValidSeq,  \* minValidSeq[s] : tokenShard.minValidSeq
          invalidSeq,   \* invalidSeq[k]  : the map entry of k, 0 if absent
          ring,         \* ring[s]        : the last invalidations of s
          ringPos,      \* ringPos[s]     : the slot written next
          token,        \* token[op]      : the token op holds, or NoToken
          revoked,      \* history: the key of op's token was invalidated
          verdict       \* the answer op's last check gave it

tableVars == <<seq, minValidSeq, invalidSeq, ring, ringPos>>
opVars == <<token, revoked, verdict>>
vars == <<generation, tableVars, opVars>>

Slots == 0 .. RingSize - 1
NoEntry == [key |-> NoKey, seq |-> 0]
NoToken == [gen |-> 0, seq |-> 0, key |-> NoKey]
Entries == [key : Keys \cup {NoKey}, seq : Nat]
Tokens == [gen : Nat, seq : Nat, key : Keys \cup {NoKey}]

TypeOK == /\ generation \in Nat \ {0}
          /\ seq \in [Shards -> Nat]
          /\ minValidSeq \in [Shards -> Nat]
          /\ invalidSeq \in [Keys -> Nat]
          /\ ring \in [Shards -> [Slots -> Entries]]
          /\ ringPos \in [Shards -> Slots]
          /\ token \in [Ops -> Tokens]
          /\ revoked \in [Ops -> BOOLEAN]
          /\ verdict \in [Ops -> {"none", "accepted", "refused"}]

Holds(op) == token[op].key # NoKey

Init == /\ generation = 1
        /\ seq = [s \in Shards |-> 1]
        /\ minValidSeq = [s \in Shards |-> 1]
        /\ invalidSeq = [k \in Keys |-> 0]
        /\ ring = [s \in Shards |-> [i \in Slots |-> NoEntry]]
        /\ ringPos = [s \in Shards |-> 0]
        /\ token = [op \in Ops |-> NoToken]
        /\ revoked = [op \in Ops |-> FALSE]
        /\ verdict = [op \in Ops |-> "none"]

\* acquireOpToken: the current generation and the current sequence number.
AcquireOpToken(op, k) ==
  /\ ~Holds(op)
  /\ token' = [token EXCEPT ![op] =
       [gen |-> generation, seq |-> seq[ShardOf[k]], key |-> k]]
  /\ revoked' = [revoked EXCEPT ![op] = FALSE]
  /\ verdict' = [verdict EXCEPT ![op] = "none"]
  /\ UNCHANGED <<generation, tableVars>>

(***************************************************************************)
(* Faulty variants of the code, each a mistake one of the properties has   *)
(* to notice: a check without minValidSeq, checks that are off by one.     *)
(***************************************************************************)
ValidWithoutMin(tok) ==
  tok.gen # 0 /\ tok.gen = generation /\ tok.seq >= invalidSeq[tok.key]

ValidStrictMin(tok) ==
  ValidWithoutMin(tok) /\ tok.seq > minValidSeq[ShardOf[tok.key]]

ValidLateByOne(tok) ==
  /\ tok.gen # 0
  /\ tok.gen = generation
  /\ tok.seq >= minValidSeq[ShardOf[tok.key]]
  /\ tok.seq + 1 >= invalidSeq[tok.key]

\* isTokenValidLocked
IsTokenValid(tok) ==
  /\ tok.gen # 0
  /\ tok.gen = generation
  /\ tok.seq >= minValidSeq[ShardOf[tok.key]]
  /\ tok.seq >= invalidSeq[tok.key]

\* isOpTokenValid, and every inlined check before a write to shared state.
CheckToken(op) ==
  /\ Holds(op)
  /\ verdict' = [verdict EXCEPT ![op] =
       IF IsTokenValid(token[op]) THEN "accepted" ELSE "refused"]
  /\ UNCHANGED <<generation, tableVars, token, revoked>>

\* The operation ends.
ReleaseToken(op) ==
  /\ Holds(op)
  /\ token' = [token EXCEPT ![op] = NoToken]
  /\ revoked' = [revoked EXCEPT ![op] = FALSE]
  /\ verdict' = [verdict EXCEPT ![op] = "none"]
  /\ UNCHANGED <<generation, tableVars>>

(***************************************************************************)
(* Faulty variants: a position that never wraps, a map that is never       *)
(* pruned, a reused slot that leaves minValidSeq where it was.             *)
(***************************************************************************)
UnwrappedPos(i) == i + 1
MapNeverPruned(old) == invalidSeq
MinNotRaised(m, old) == m

\* The ring slot after i.
NextPos(i) == (i + 1) % RingSize

\* The map once the ring slot that holds old is reused.
MapAfterReuse(old) ==
  [k \in Keys |-> IF k = old.key /\ invalidSeq[k] = old.seq THEN 0
                                                             ELSE invalidSeq[k]]

\* minValidSeq, which was m, once the ring slot that holds old is reused.
MinAfterReuse(m, old) == IF old.seq > m THEN old.seq ELSE m

\* bumpInvalidateTokenLocked(k): number the invalidation, reuse the oldest
\* ring slot, and let minValidSeq stand for what that slot remembered.
BumpInvalidateToken(k) ==
  LET s == ShardOf[k]
      newSeq == seq[s] + 1
      old == ring[s][ringPos[s]]
  IN /\ seq[s] < MaxSeq
     /\ seq' = [seq EXCEPT ![s] = newSeq]
     /\ minValidSeq' = [minValidSeq EXCEPT ![s] = MinAfterReuse(@, old)]
     /\ ring' = [ring EXCEPT ![s][ringPos[s]] = [key |-> k, seq |-> newSeq]]
     /\ ringPos' = [ringPos EXCEPT ![s] = NextPos(@)]
     /\ invalidSeq' = [MapAfterReuse(old) EXCEPT ![k] = newSeq]
     /\ revoked' = [op \in Ops |-> revoked[op] \/ token[op].key = k]
     /\ UNCHANGED <<generation, token, verdict>>

\* The token part of SetCacheBase and ClearAllWithError: a new generation
\* and, in the same persistMu critical section, clearTokenShards.
ClearTable ==
  /\ generation < MaxGen
  /\ \A s \in Shards : seq[s] < MaxSeq
  /\ generation' = generation + 1
  /\ seq' = [s \in Shards |-> seq[s] + 1]
  /\ minValidSeq' = [s \in Shards |-> seq[s] + 1]
  /\ invalidSeq' = [k \in Keys |-> 0]
  /\ ring' = [s \in Shards |-> [i \in Slots |-> NoEntry]]
  /\ ringPos' = [s \in Shards |-> 0]
  /\ revoked' = [op \in Ops |-> revoked[op] \/ token[op].key \in Keys]
  /\ UNCHANGED <<token, verdict>>

Next == \/ \E op \in Ops : \/ \E k \in Keys : AcquireOpToken(op, k)
                           \/ CheckToken(op)
                           \/ ReleaseToken(op)
        \/ \E k \in Keys : BumpInvalidateToken(k)
        \/ ClearTable

Spec == Init /\ [][Next]_vars

-----------------------------------------------------------------------------
(***************************************************************************)
(* Properties.                                                             *)
(***************************************************************************)

\* A token whose key was invalidated, or that predates a clear of the cache
\* or a change of its directory, is never valid again, whatever the ring has
\* forgotten in between (isTokenValidLocked against bumpInvalidateTokenLocked
\* and clearTokenShards).
RevokedNeverValid == \A op \in Ops : Holds(op) /\ revoked[op]
                                       => ~IsTokenValid(token[op])

\* The table is exact inside its window: as long as its shard has seen at most
\* RingSize invalidations since a token was taken, the token is refused only
\* for a reason.  A ring that forgets too early turns every slow download into
\* a refused write.
ExactInWindow ==
  \A op \in Ops :
    LET tok == token[op]
    IN Holds(op) /\ ~revoked[op] /\ seq[ShardOf[tok.key]] - tok.seq <= RingSize
         => IsTokenValid(tok)

\* The map never outgrows the ring: every remembered invalidation still has
\* its ring slot, which is the only way it is ever forgotten.
MapBoundedByRing ==
  \A k \in Keys : invalidSeq[k] # 0 =>
    \E i \in Slots : ring[ShardOf[k]][i] = [key |-> k, seq |-> invalidSeq[k]]

\* A refusal is final: no later invalidation, clear or ring reuse makes a
\* refused token acceptable, so checking once early and once late (as
\* saveToDiskWithNSAndToken does) is never weaker than the last check.
RefusalIsFinal ==
  [][\A op \in Ops : Holds(op) /\ ~IsTokenValid(token[op]) /\ token'[op] = token[op]
       => ~IsTokenValid(token[op])']_vars

\* The bounded table implements the unbounded promise.
Promise == INSTANCE TokenPromise
             WITH held <- [op \in Ops |-> token[op].key]
PromiseSpec == Promise!Spec
=============================================================================
