---------------------------- MODULE MCRoundRobin ----------------------------
(* Three clients, two jobs each, for RoundRobin.                           *)
EXTENDS RoundRobin
=============================================================================
