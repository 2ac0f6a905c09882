------------------------------ MODULE MCClient ------------------------------
(* Two servers, for Client.  The first may stop, and the target can be     *)
(* reached with the other alone.                                           *)
EXTENDS Client

CONSTANTS s1, s2

MCServers == {s1, s2}

MCMaxTokens == [s \in MCServers |-> IF s = s1 THEN 1 ELSE 2]

MCStopping == {s1}
=============================================================================
