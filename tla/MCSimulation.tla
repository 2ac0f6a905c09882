---------------------------- MODULE MCSimulation ----------------------------
(* Two clients and two servers, for Simulation.                            *)
EXTENDS Simulation, TLC

CONSTANTS c1, c2

MCPacings == {(c1 :> "time") @@ (c2 :> "load"), (c1 :> "time") @@ (c2 :> "none")}
=============================================================================
