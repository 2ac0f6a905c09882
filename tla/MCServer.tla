------------------------------ MODULE MCServer ------------------------------
(* Small instances of Server: three jobs of one client on two workers, one *)
(* of which may crash; on one worker with two slots, whose jobs meet while *)
(* it is attached; two clients where listeners meet the dispatcher.        *)
EXTENDS Server
=============================================================================
