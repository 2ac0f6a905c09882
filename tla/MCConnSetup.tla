---------------------------- MODULE MCConnSetup ----------------------------
(* Two clients that register with one master.                              *)
EXTENDS ConnSetup
=============================================================================
