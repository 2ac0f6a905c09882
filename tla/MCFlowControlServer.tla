------------------------ MODULE MCFlowControlServer ------------------------
(* Two clients, one job each, for FlowControlServer.                       *)
EXTENDS FlowControlServer
=============================================================================
