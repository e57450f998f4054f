------------------------------ MODULE MCWaiting ------------------------------
(***************************************************************************)
(* Instances for TLC of the two places where goroutines wait for others:   *)
(* for the leader of a call (SingleFlight), and for the foreground to be   *)
(* idle (IdleGate).  They share nothing; a behaviour is one of either.     *)
(***************************************************************************)
EXTENDS SingleFlight, IdleGate, TLC

CONSTANTS p1, p2, p3, k1, k2, d1, d2, d3, ok,
          a1, s1, w1, w2

VARIABLE part

WaitingInit == part \in {"flight", "gate"} /\ Init /\ GateInit

FlightStep == part = "flight" /\ Next /\ UNCHANGED <<part, gateVars>>
GateStep == part = "gate" /\ GateNext /\ UNCHANGED <<part, vars>>

WaitingSpec == /\ WaitingInit /\ [][FlightStep \/ GateStep]_<<part, vars, gateVars>>
               /\ Fairness /\ GateFairness
=============================================================================
