--------------------------- MODULE MCControlConfig ---------------------------
(***************************************************************************)
(* An instance of ControlConfig for TLC.                                   *)
(***************************************************************************)
EXTENDS ControlConfig, TLC

CONSTANTS dir1, dir2

\* One listener moves, then the other one and the directory as well.
PlaceSettings == {[port |-> 1, cport |-> 11, dir |-> dir1], [port |-> 2, cport |-> 11, dir |-> dir1],
                  [port |-> 2, cport |-> 12, dir |-> dir2]}
SomeSettings == {[port |-> s.port, cport |-> s.cport, dir |-> s.dir, pac |-> p, start |-> b] :
                 s \in PlaceSettings, p \in BOOLEAN, b \in BOOLEAN}
=============================================================================
