----------------------------- MODULE GGnWindow -----------------------------
(***************************************************************************)
(* The arithmetic of InterJobGenTimeController_GGn.update of               *)
(* delay_control.py: a sliding window over the last maxlen results whose   *)
(* total service time is kept up to date with one addition and one         *)
(* subtraction, and the gap between two jobs computed from it.             *)
(*                                                                         *)
(* Times are integers in a unit of the reader's choice, negative ones      *)
(* included: the server takes them from time.time(), which may step back.  *)
(* The code's floats also round, which is not modelled.                    *)
(***************************************************************************)
EXTENDS Integers, Sequences

CONSTANTS MaxLen,         \* maxlen of result_q, 100 in the code
          ServTimes,      \* service times of results
          Shares,         \* values of num_server_fair_share
          LoadPercent,    \* avg_load_target, in percent
          MaxResults,     \* bound: results that come
          None            \* Python's None

ASSUME MaxLenAssumption == MaxLen \in Nat \ {0}
ASSUME ServTimesAssumption == ServTimes \subseteq Int
ASSUME SharesAssumption == Shares \subseteq Nat \ {0} /\ LoadPercent \in Nat \ {0}

VARIABLES
  result_q,        \* service times of the results in the window, oldest first
  cum_serv_time,
  inter_req_time,  \* None, or the gap as a fraction [num, den]
  sums             \* history: sums[k+1] is the total of the first k results

windowVars == <<result_q, cum_serv_time, inter_req_time, sums>>

WInit ==
  /\ result_q = <<>>
  /\ cum_serv_time = 0
  /\ inter_req_time = None
  /\ sums = <<0>>

Count == Len(sums) - 1

\* deque(maxlen): appending to a full deque drops its head.
Slide(q, t) == Append(IF Len(q) = MaxLen THEN Tail(q) ELSE q, t)

\* The gap for a mean service time of total/n, share servers and the target load.
Gap(total, n, share) == [num |-> 100 * total, den |-> n * share * LoadPercent]

\* Variant: the append comes before the subtraction of the head.
DroppedLate(t) == LET q == Slide(result_q, t) IN IF Len(q) = MaxLen THEN q[1] ELSE 0

\* What is subtracted when the result with service time t comes.
Dropped(t) == IF Len(result_q) = MaxLen THEN result_q[1] ELSE 0

Update(t, share) ==
  /\ result_q' = Slide(result_q, t)
  /\ cum_serv_time' = cum_serv_time + t - Dropped(t)
  /\ inter_req_time' = Gap(cum_serv_time', Len(result_q'), share)
  /\ sums' = Append(sums, sums[Len(sums)] + t)

WNext ==
  /\ Count < MaxResults
  /\ \E t \in ServTimes, share \in Shares : Update(t, share)

WSpec == WInit /\ [][WNext]_windowVars

-----------------------------------------------------------------------------
WindowTypeOK ==
  /\ result_q \in Seq(ServTimes)
  /\ cum_serv_time \in Int
  /\ inter_req_time \in [num : Int, den : Nat \ {0}] \cup {None}
  /\ sums \in Seq(Int) /\ sums # <<>>

\* The window holds the last min(Count, MaxLen) results, in order: each entry
\* is the difference of two neighbouring totals.
WindowIsTheLastResults ==
  LET n == Len(result_q)
  IN /\ n = IF Count < MaxLen THEN Count ELSE MaxLen
     /\ \A i \in 1..n : result_q[i] = sums[Count - n + i + 1] - sums[Count - n + i]

\* cum_serv_time is the exact total of the window, also long after the window
\* has begun to slide: what is subtracted is what was added maxlen results ago.
TotalIsTheWindow == cum_serv_time = sums[Count + 1] - sums[Count + 1 - Len(result_q)]
=============================================================================
