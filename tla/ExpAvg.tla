------------------------------- MODULE ExpAvg -------------------------------
(***************************************************************************)
(* The controllers that average: "avg" is InterJobGenTimeController_ExpAvg *)
(* of delay_control.py, an alternative the client does not use, "md" is    *)
(* FlowControl_ExpAvg_MD of sim/flow_control.py, which doubles the gap     *)
(* when a request took longer than it.                                     *)
(*                                                                         *)
(* Times are positive integers.  Half a sum is rounded up or down, as a    *)
(* float may be.                                                           *)
(***************************************************************************)
EXTENDS Integers

CONSTANTS Times,      \* service times, or times in the cluster
          MaxTokens,  \* bound: tokens
          NoTime      \* Python's None

ASSUME TimesAssumption == Times \subseteq Nat \ {0} /\ NoTime \notin Nat
ASSUME MaxTokensAssumption == MaxTokens \in Nat \ {0}

VARIABLES
  averager,     \* which controller: "avg" or "md"
  gap,          \* inter_serv_time, inter_req_time: NoTime or a time
  thread,       \* run(): "check", "sleep", "died"; "top", "sync", "sleep"
  made,         \* has the constructor of "avg" put its token?
  permits,      \* items in the syncer of "md"
  puts,         \* tokens put
  answers,      \* results received
  shortest, longest  \* history: the extreme times received, or NoTime

avgVars == <<averager, gap, thread, made, permits, puts, answers, shortest, longest>>

AvgInit ==
  /\ averager \in {"avg", "md"}
  /\ thread = IF averager = "avg" THEN "check" ELSE "top"
  /\ made = (averager = "md")
  /\ gap = NoTime /\ shortest = NoTime /\ longest = NoTime
  /\ permits = 0 /\ puts = 0 /\ answers = 0

\* Tokens put, less results: two threads change the count without a lock, but it is
\* read only while there is no gap, and until then no result was subtracted.
num_jobs_on_fly == puts - answers

PutToken == puts < MaxTokens /\ puts' = puts + 1

\* The constructor of "avg" starts the thread before it puts the first token.
Made ==
  /\ ~made
  /\ made' = TRUE
  /\ PutToken
  /\ UNCHANGED <<averager, gap, thread, permits, answers, shortest, longest>>

\* The test at the top of the loop of "avg".
AvgCheck ==
  /\ thread = "check"
  /\ ~(gap = NoTime /\ num_jobs_on_fly > 4)
  /\ thread' = "sleep"
  /\ UNCHANGED <<permits, puts>>

\* Variant: without a gap the thread goes on at once.
AvgSleepNot ==
  /\ averager = "avg" /\ thread = "sleep"
  /\ thread' = "check" /\ PutToken
  /\ UNCHANGED permits

\* time.sleep(None) raises and ends the thread.
AvgSleep ==
  /\ averager = "avg" /\ thread = "sleep"
  /\ IF gap = NoTime THEN thread' = "died" /\ UNCHANGED puts
                   ELSE thread' = "check" /\ PutToken
  /\ UNCHANGED permits

MDProbe == thread = "top" /\ gap = NoTime /\ thread' = "sync" /\ PutToken /\ UNCHANGED permits

MDSynced ==
  /\ thread = "sync" /\ permits > 0
  /\ permits' = permits - 1
  /\ thread' = "top"
  /\ PutToken

MDSleep == thread = "top" /\ gap # NoTime /\ thread' = "sleep" /\ UNCHANGED <<permits, puts>>

MDSlept ==
  /\ averager = "md" /\ thread = "sleep"
  /\ thread' = "top"
  /\ PutToken
  /\ UNCHANGED permits

AvgRun ==
  /\ AvgCheck \/ AvgSleep \/ MDProbe \/ MDSynced \/ MDSleep \/ MDSlept
  /\ UNCHANGED <<averager, gap, made, answers, shortest, longest>>

-----------------------------------------------------------------------------
Halves(sum) == {sum \div 2, (sum + 1) \div 2}

\* Variant: the coefficient of the average is forgotten.
AveragedWhole(t) == {gap + t}

Averaged(t) == Halves(gap + t)

\* The gaps that a result with time t may lead to.
NextGaps(t) ==
  IF gap = NoTime THEN {t}
  ELSE IF averager = "md" /\ t > gap THEN {2 * gap}
  ELSE Averaged(t)

Extreme(t, e, lesser) == IF e = NoTime \/ (IF lesser THEN t < e ELSE t > e) THEN t ELSE e

AvgUpdate ==
  /\ num_jobs_on_fly > 0
  /\ answers' = answers + 1
  /\ \E t \in Times :
       /\ gap' \in NextGaps(t)
       /\ shortest' = Extreme(t, shortest, TRUE)
       /\ longest' = Extreme(t, longest, FALSE)
  /\ permits' = IF averager = "md" /\ gap = NoTime THEN permits + 1 ELSE permits
  /\ UNCHANGED <<averager, thread, made, puts>>

AvgNext == Made \/ AvgRun \/ AvgUpdate

AvgSpec == AvgInit /\ [][AvgNext]_avgVars

-----------------------------------------------------------------------------
AvgTypeOK ==
  /\ averager \in {"avg", "md"}
  /\ gap \in Nat \cup {NoTime} /\ shortest \in Nat \cup {NoTime} /\ longest \in Nat \cup {NoTime}
  /\ thread \in {"check", "sleep", "died", "top", "sync"} /\ made \in BOOLEAN
  /\ permits \in Nat /\ puts \in Nat /\ answers \in Nat

\* Once there is a gap it stays within what the results have shown: an average
\* between the extreme times, and the gap that is doubled below twice the
\* longest, however often it is doubled.
AverageStaysInRange ==
  IF gap = NoTime THEN shortest = NoTime /\ longest = NoTime
  ELSE /\ shortest <= gap
       /\ gap <= longest \/ (averager = "md" /\ gap < 2 * longest)

\* Without a result there is one job at most; a thread that reached its sleep
\* before the first result is gone, and the stream ends with that one job.
OneTokenBeforeFirstResult == gap = NoTime \/ thread = "died" => puts <= 1
=============================================================================
