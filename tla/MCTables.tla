------------------------------ MODULE MCTables ------------------------------
(***************************************************************************)
(* Instances for TLC of two tables that have a fixed size: the tokens      *)
(* (OpToken) and the memory of the cache (ResidentPool).  They share       *)
(* nothing; a behaviour is one of either.                                  *)
(***************************************************************************)
EXTENDS OpToken, ResidentPool

CONSTANTS a, b, c, s1, s2, o1, o2,
          k1, k2

VARIABLE part

\* a and b share a shard, c has one of its own.
MCShardOf == (a :> s1) @@ (b :> s1) @@ (c :> s2)

PoolSymmetry == Permutations(PoolKeys)

TablesInit == /\ part \in {"tokens", "memory"}
              /\ Init /\ PoolInit
              /\ part = "tokens" => total = 3

TokenStep == part = "tokens" /\ Next /\ UNCHANGED <<part, memoryVars>>
MemoryStep == part = "memory" /\ PoolNext /\ UNCHANGED <<part, vars>>

TablesSpec == TablesInit /\ [][TokenStep \/ MemoryStep]_<<part, vars, memoryVars>>
=============================================================================
