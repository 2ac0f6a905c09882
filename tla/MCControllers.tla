--------------------------- MODULE MCControllers ---------------------------
(***************************************************************************)
(* The arithmetic and the searches of the controllers side by side: they   *)
(* share nothing, and a behaviour is one of a single part.                 *)
(***************************************************************************)
EXTENDS GGnWindow, AIMD, ExpAvg, Search

VARIABLE part  \* "ggn", "aimd", "avg", "search": the part that runs

allVars == <<part, windowVars, aimdVars, avgVars, searchVars>>

Init ==
  /\ part \in {"ggn", "aimd", "avg", "search"}
  /\ WInit /\ AIMDInit /\ AvgInit /\ SearchInit
  /\ part # "aimd" => aimd = "push"
  /\ part # "avg" => averager = "md"
  /\ part # "search" => search = "rate" /\ enough = 1 /\ limit = 1

Next ==
  /\ \/ part = "ggn" /\ WNext /\ UNCHANGED <<aimdVars, avgVars, searchVars>>
     \/ part = "aimd" /\ AIMDNext /\ UNCHANGED <<windowVars, avgVars, searchVars>>
     \/ part = "avg" /\ AvgNext /\ UNCHANGED <<windowVars, aimdVars, searchVars>>
     \/ part = "search" /\ SearchNext /\ UNCHANGED <<windowVars, aimdVars, avgVars>>
  /\ UNCHANGED part

SearchStep ==
  part = "search" /\ SearchNext /\ UNCHANGED <<part, windowVars, aimdVars, avgVars>>

Spec == Init /\ [][Next]_allVars /\ WF_allVars(SearchStep)

MCServTimes == {-1, 0, 2, 5}
=============================================================================
