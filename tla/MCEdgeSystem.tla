---------------------------- MODULE MCEdgeSystem ----------------------------
(* Three set-ups for EdgeSystem: two clients with one master whose worker   *)
(* has two slots, a client with two masters that have a worker each, and a  *)
(* client with two masters that share one.                                  *)
EXTENDS EdgeSystem, TLC

CONSTANTS c1, c2, m1, m2, w1, w2

MCClusters ==
  {[sid_ip_m |-> (c1 :> {m1}) @@ (c2 :> {m1}), wip_l |-> (m1 :> {w1}) @@ (m2 :> {}),
    max_num_jobs_per_worker |-> 2],
   [sid_ip_m |-> (c1 :> {m1, m2}) @@ (c2 :> {}), wip_l |-> (m1 :> {w1}) @@ (m2 :> {w2}),
    max_num_jobs_per_worker |-> 1],
   [sid_ip_m |-> (c1 :> {m1, m2}) @@ (c2 :> {}), wip_l |-> (m1 :> {w1}) @@ (m2 :> {w1}),
    max_num_jobs_per_worker |-> 1]}
=============================================================================
