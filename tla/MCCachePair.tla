----------------------------- MODULE MCCachePair -----------------------------
(***************************************************************************)
(* A name and its alias for TLC: either both in one cache directory, or    *)
(* one of them while the directory changes.                                *)
(***************************************************************************)
EXTENDS MCCacheManager

VARIABLE scope  \* "alias", or the one name that is used

\* The directories are alike: that the one without changes is b1 loses nothing.
PairInit ==
  /\ Init
  /\ scope \in Names \cup {"alias"}
  /\ IF scope = "alias" THEN base = b1 /\ \A n \in Names : disk[b2][n] = None
     ELSE \A b \in Bases, n \in Names \ {scope} : disk[b][n] = None

\* With both names the directory stays; while it changes, clients keep to one
\* name and no file is damaged.
InScope == IF scope = "alias" THEN base' = b1
           ELSE /\ \A a \in Actors : op'[a].name \in {scope, NoName}
                /\ \A b \in Bases : disk'[b][scope] # Corrupt

PairSpec == PairInit /\ [][Next /\ InScope /\ UNCHANGED scope]_<<vars, scope>>

\* All but the history that only CommittedIsServed looks at.
PairView == <<scope, tierVars, modeVars, queue, lock, op, legit, stray>>
=============================================================================
