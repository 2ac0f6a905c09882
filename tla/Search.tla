------------------------------- MODULE Search -------------------------------
(***************************************************************************)
(* The two binary searches: "rate" is binary_search of sim/model.py, with  *)
(* which the simulated flow control finds the arrival rate for a response  *)
(* time, "bound" is binary_search of rvs.py, which finds the upper end of  *)
(* a Pareto distribution for a mean.                                       *)
(*                                                                         *)
(* Positions are integers in a unit of the reader's choice; a quotient is  *)
(* rounded down.  Of the monotone function that is searched two positions  *)
(* matter: where its value reaches the target, and where it has no value   *)
(* any more, because the load would be 1 there.  Either may be missing: by *)
(* rounding, the variance of the service times may be negative, and then   *)
(* no rate has a value, and the mean of a truncated Pareto distribution    *)
(* may not reach the target for any upper end.                             *)
(*                                                                         *)
(* ar_GGc_forGivenET, a third search, has no caller and is left out.       *)
(***************************************************************************)
EXTENDS Integers

CONSTANTS Precision,  \* 0.01 in units
          One,        \* 1 in units
          Reach,      \* the first upper end of "bound" over l + 1, 10^3 in the code
          MaxPos,     \* bound: the positions of interest
          MaxUpper    \* bound: the upper end is followed no further

ASSUME PrecisionAssumption == Precision \in Nat \ {0} /\ MaxPos \in Nat /\ MaxUpper \in Nat
ASSUME ReachAssumption == One \in Nat \ {0} /\ Reach \in Nat \ {0}

VARIABLES
  search,  \* "rate" or "bound"
  start,   \* the argument l
  enough,  \* the least position whose value reaches the target, if one does
  reachable,  \* for "bound": does one?
  limit,   \* for "rate": the least position without a value
  phase,   \* "bracket", "bisect", "done", "raised"
  l, r

searchVars == <<search, start, enough, reachable, limit, phase, l, r>>

\* ar_DGc_forGivenET and ar_MGc_forGivenET start at rate 0, TPareto_forAGivenMean
\* at the lower end of the distribution.  With enough = limit no rate reaches the
\* target, and with limit = 0, when the variance is negative, none has a value.
SearchInit ==
  /\ search \in {"rate", "bound"}
  /\ start \in IF search = "rate" THEN {0} ELSE 0..MaxPos
  /\ enough \in 1..MaxPos
  /\ reachable \in IF search = "rate" THEN {TRUE} ELSE BOOLEAN
  /\ limit \in IF search = "rate" THEN {0} \cup enough..MaxPos ELSE {MaxPos}
  /\ phase = "bracket"
  /\ l = start
  /\ r = IF search = "rate" THEN start + Precision ELSE (start + One) * Reach

\* ET_DGc and ET_MGc return None from a load of 1 on, and for a negative wait.
HasValue(x) == search = "bound" \/ x < limit

Reaches(x) == reachable /\ x >= enough

Bracket ==
  /\ phase = "bracket"
  /\ IF ~HasValue(r)       THEN r' = (2 * r) \div 3 /\ UNCHANGED phase
     ELSE IF ~Reaches(r)   THEN /\ r <= MaxUpper
                                /\ r' = (IF search = "rate" THEN 2 ELSE 10) * r
                                /\ UNCHANGED phase
     ELSE phase' = "bisect" /\ UNCHANGED r
  /\ UNCHANGED <<search, start, enough, reachable, limit, l>>

\* Variant: the half that does not hold the target is kept.
HalveWrong(m) ==
  IF ~HasValue(m) THEN phase' = "raised" /\ UNCHANGED <<l, r>>
  ELSE /\ IF Reaches(m) THEN l' = m /\ UNCHANGED r ELSE r' = m /\ UNCHANGED l
       /\ UNCHANGED phase

\* Comparing None with a number raises.
Halve(m) ==
  IF ~HasValue(m) THEN phase' = "raised" /\ UNCHANGED <<l, r>>
  ELSE /\ IF Reaches(m) THEN r' = m /\ UNCHANGED l ELSE l' = m /\ UNCHANGED r
       /\ UNCHANGED phase

\* Variant: the search is to be exact.
IsNarrowExactly == r <= l

IsNarrow == r - l <= Precision

Bisect ==
  /\ phase = "bisect"
  /\ IF IsNarrow THEN phase' = "done" /\ UNCHANGED <<l, r>> ELSE Halve((l + r) \div 2)
  /\ UNCHANGED <<search, start, enough, reachable, limit>>

SearchNext == Bracket \/ Bisect

SearchSpec == SearchInit /\ [][SearchNext]_searchVars /\ WF_searchVars(SearchNext)

-----------------------------------------------------------------------------
SearchTypeOK ==
  /\ search \in {"rate", "bound"} /\ phase \in {"bracket", "bisect", "done", "raised"}
  /\ reachable \in BOOLEAN
  /\ start \in Nat /\ enough \in Nat /\ limit \in Nat /\ l \in Nat /\ r \in Nat

\* The upper end found by doubling and shrinking is where the function has a
\* value that reaches the target, and it stays so while the interval is halved:
\* the halving never compares None, whose range starts above it, and the answer
\* is within the precision of the least position that reaches the target.  If
\* there is none, the search does not end with a wrong answer: it does not end.
SearchBrackets ==
  /\ phase # "raised"
  /\ l = start \/ ~Reaches(l)
  /\ phase \in {"bisect", "done"} => Reaches(r) /\ HasValue(r)
  /\ phase = "done" => r - l <= Precision

\* The search ends if the target is reached and, for "rate", rates up to twice
\* the one sought have a value: the step down by 1.5 cannot jump over what the
\* step up by 2 missed.
SearchFinds == reachable /\ (search = "bound" \/ 2 * enough <= limit) ~> phase = "done"
=============================================================================
