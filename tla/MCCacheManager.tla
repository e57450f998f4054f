--------------------------- MODULE MCCacheManager ---------------------------
(* Instances of CacheManager for TLC. *)
EXTENDS CacheManager, TLC

CONSTANTS x, ax, h, kx, kh, v1, v2, b1, b2, c1, c2, w1, w2

\* x and assets/x, which fall back to each other.
AliasPair == (x :> ax) @@ (ax :> x)
PairCanon == (x :> kx) @@ (ax :> kx)

\* The two names of the pair can be exchanged.
PairSymmetry == Permutations({x, ax})

\* One name without a fallback, not shared (h) or shared.
NoAlias == h :> NoName
OneCanon == h :> kh

\* All but the histories, for a property that looks at neither.
WithoutHistory == <<tierVars, modeVars, queue, lock, op>>

PayloadSymmetry == Permutations({v1, v2}) \cup Permutations({c1, c2})
=============================================================================
