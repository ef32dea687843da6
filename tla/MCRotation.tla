----------------------------- MODULE MCRotation -----------------------------
(* Rotation with a scan of two groups, one of them with a priority channel,  *)
(* and one sweep stop; a direct tune over a SpyServer that inherits the sweep; *)
(* and CB on the same SpyServer.                                             *)
EXTENDS Rotation

CONSTANTS a, s, p

Scan == [groups |-> <<{a, s}, {p}>>, sweeps |-> 1, monitor |-> FALSE, closeCall |-> TRUE, spy |-> FALSE]
Direct == [groups |-> <<{a}>>, sweeps |-> 1, monitor |-> TRUE, closeCall |-> TRUE, spy |-> TRUE]
Cb == [groups |-> <<{a}>>, sweeps |-> 0, monitor |-> FALSE, closeCall |-> FALSE, spy |-> TRUE]

MCPlans == {Scan, Direct, Cb}
=============================================================================
