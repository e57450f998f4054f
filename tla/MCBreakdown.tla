----------------------------- MODULE MCBreakdown -----------------------------
(***************************************************************************)
(* Instances for TLC of what touches the files of the cache directory: the *)
(* deletion tasks (Breakdown), and a name under hosts/ as two clients of   *)
(* the cache manager see it (CacheManager).  A behaviour is one of either. *)
(***************************************************************************)
EXTENDS CacheManager, Breakdown, TLC

CONSTANTS h, kh, v1, v2, b1, c1, c2, image, old, new, b2

VARIABLE part

managerVars == <<tierVars, modeVars, queue, lock, op, legit, latest, stray>>
filesVars == <<part, managerVars, deletionVars>>

\* One name without a fallback.
NoAlias == h :> NoName
OneCanon == h :> kh

\* A file of a category and one of each of two versions.
Versions == (image :> 0) @@ (old :> 1) @@ (new :> 2)

\* The directories b1 and b2 are alike: that the first one is b1 loses nothing.
\* The part that rests has one initial state.
FilesInit == /\ part \in {"breakdown", "manager"}
             /\ Init /\ DeletionInit /\ cacheBase = b1
             /\ part = "manager" => store[b1].ext[old] = 1
             /\ part = "breakdown" => ramEnabled /\ disk[b1][h] = None

BreakdownStep == part = "breakdown" /\ DeletionNext /\ UNCHANGED <<part, managerVars>>
ManagerStep == part = "manager" /\ Alive /\ UNCHANGED <<part, deletionVars>>

FilesSpec == FilesInit /\ [][BreakdownStep \/ ManagerStep]_filesVars

\* The part that moves, without the histories of the manager, which no property
\* here looks at; the part that rests never changes.
WithoutHistory == IF part = "breakdown" THEN deletionVars
                  ELSE <<tierVars, modeVars, queue, lock, op>>

PayloadSymmetry == Permutations({v1, v2}) \cup Permutations({c1, c2})
=============================================================================
