---------------------------- MODULE TokenPromise ----------------------------
(***************************************************************************)
(* What the cache manager promises to an operation that holds a token      *)
(* (engine/cache/breakdown.go, "Per-Key Invalidation Token Table"): once   *)
(* the key of the token was invalidated, or the whole cache was cleared    *)
(* or re-based, the token is never accepted again.  A token that was not   *)
(* revoked may still be refused: the table is bounded and forgets.         *)
(*                                                                         *)
(* There is no table here, only the set of operations and, for each, the   *)
(* key it works on and whether that key was invalidated since.  OpToken is *)
(* shown to implement this specification.                                  *)
(***************************************************************************)
CONSTANTS Keys,     \* canonical token keys
          Ops,      \* operations that may hold a token
          NoKey     \* an operation without a token

VARIABLES held,     \* held[op] : the key op works on, or NoKey
          revoked,  \* revoked[op] : that key was invalidated since
          verdict   \* verdict[op] : the answer of the last check

promiseVars == <<held, revoked, verdict>>

Verdicts == {"none", "accepted", "refused"}

Init == /\ held = [op \in Ops |-> NoKey]
        /\ revoked = [op \in Ops |-> FALSE]
        /\ verdict = [op \in Ops |-> "none"]

Acquire(op, k) == /\ held[op] = NoKey
                  /\ held' = [held EXCEPT ![op] = k]
                  /\ revoked' = [revoked EXCEPT ![op] = FALSE]
                  /\ verdict' = [verdict EXCEPT ![op] = "none"]

Check(op) == /\ held[op] # NoKey
             /\ \/ verdict' = [verdict EXCEPT ![op] = "refused"]
                \/ /\ ~revoked[op]
                   /\ verdict' = [verdict EXCEPT ![op] = "accepted"]
             /\ UNCHANGED <<held, revoked>>

Release(op) == /\ held[op] # NoKey
               /\ held' = [held EXCEPT ![op] = NoKey]
               /\ revoked' = [revoked EXCEPT ![op] = FALSE]
               /\ verdict' = [verdict EXCEPT ![op] = "none"]

\* Every operation whose key is among ks loses its right to write back.
Revoke(ks) == /\ revoked' = [op \in Ops |-> revoked[op] \/ held[op] \in ks]
              /\ UNCHANGED <<held, verdict>>

Next == \/ \E op \in Ops : \/ \E k \in Keys : Acquire(op, k)
                           \/ Check(op)
                           \/ Release(op)
        \/ \E k \in Keys : Revoke({k})
        \/ Revoke(Keys)

Spec == Init /\ [][Next]_promiseVars
=============================================================================
