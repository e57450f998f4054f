---------------------------- MODULE MCAssetFetch ----------------------------
(* Instances of AssetFetch for TLC. *)
EXTENDS AssetFetch, TLC

CONSTANTS g1, g2, g3, h1, h2, f1, d1, d2, d3, d4

CallSymmetry == Permutations({d1, d2, d3, d4})
RequestSymmetry ==
  CallSymmetry \cup Permutations({g1, g2, g3}) \cup Permutations({h1, h2})
=============================================================================
