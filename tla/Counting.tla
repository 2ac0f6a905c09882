------------------------------ MODULE Counting ------------------------------
(* How often a value stands in a sequence: tokens in a queue, slots in a   *)
(* pool, requests in a network.                                            *)
EXTENDS Naturals, Sequences, FiniteSets

Occurrences(x, s) == Cardinality({i \in DOMAIN s : s[i] = x})
=============================================================================
