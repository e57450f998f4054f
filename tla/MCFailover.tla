----------------------------- MODULE MCFailover -----------------------------
(* An instance of Failover for TLC. *)
EXTENDS Failover

CONSTANTS r1, r2

\* Failover on, switching at the first failure; applied again and again.
OnFirst == {[enabled |-> TRUE, backup |-> TRUE, auto |-> TRUE, timed |-> TRUE, limit |-> 1]}
=============================================================================
