-------------------------------- MODULE AIMD --------------------------------
(***************************************************************************)
(* The controllers with additive increase and multiplicative decrease of a *)
(* limit on the jobs that are on the fly at one server: "push" is          *)
(* InterJobGenTimeController_ExpAvg_AIMD of delay_control.py, which puts   *)
(* the next token itself, "pull" is AIMDController of control.py, which is *)
(* asked before a job is sent.  No program of the repository uses them.    *)
(*                                                                         *)
(* Two threads share the count q_len without a lock: the putter, which is  *)
(* the constructor of "push" and the sending thread of "pull", and the     *)
(* handler, which takes the results of the server one by one.  What each   *)
(* adds or subtracts is a read and a later write.                          *)
(*                                                                         *)
(* Limits are integers in units of 1/Unit, rounded down.  The average      *)
(* delay decides only whether it is too long, which is a choice here.      *)
(***************************************************************************)
EXTENDS Integers

CONSTANTS Unit,      \* the limit 1 in units
          MaxOnFly,  \* bound: jobs a pull client has on the fly
          MaxMissed  \* bound: a pull client sends no more after so many misses

ASSUME UnitAssumption == Unit \in Nat \ {0} /\ MaxOnFly \in Nat /\ MaxMissed \in Nat

Threads == {"putter", "handler"}

VARIABLES
  aimd,          \* which controller: "push" or "pull"
  at,            \* thread -> where it is: "idle"; in put() "token", "incr", "write",
                 \* "max"; in update() "dec", "limit", "test", "raised"
  copy,          \* thread -> the count as the thread has read it
  q_len,
  q_len_limit,   \* in units
  q_len_max,
  on_fly,        \* jobs that were let go and whose result was not taken
  missed         \* history: updates of q_len that were overwritten or cut off

aimdVars == <<aimd, at, copy, q_len, q_len_limit, q_len_max, on_fly, missed>>

\* The constructor of a push controller puts the first token.
AIMDInit ==
  /\ aimd \in {"push", "pull"}
  /\ at = [t \in Threads |-> IF aimd = "push" /\ t = "putter" THEN "token" ELSE "idle"]
  /\ copy = [t \in Threads |-> 0]
  /\ q_len = 0 /\ on_fly = 0 /\ missed = 0
  /\ q_len_limit = 2 * Unit
  /\ q_len_max = 2

Larger(a, b) == IF a > b THEN a ELSE b

Distance(a, b) == IF a > b THEN a - b ELSE b - a

Go(t, from, to) == at[t] = from /\ at' = [at EXCEPT ![t] = to] /\ UNCHANGED aimd

-----------------------------------------------------------------------------
(* put()                                                                   *)

\* put() of "pull" lets a job go up to the limit.
TestPut ==
  /\ aimd = "pull" /\ Go("putter", "idle", "incr")
  /\ q_len * Unit <= q_len_limit
  /\ on_fly < MaxOnFly /\ missed < MaxMissed
  /\ UNCHANGED <<copy, q_len, q_len_limit, q_len_max, on_fly, missed>>

\* put() of "push" puts the token before it counts it.
LetGo(t) ==
  /\ Go(t, "token", "incr")
  /\ on_fly' = on_fly + 1
  /\ UNCHANGED <<copy, q_len, q_len_limit, q_len_max, missed>>

\* self.q_len += 1 is a read and a write.
ReadForPut(t) ==
  /\ Go(t, "incr", "write")
  /\ copy' = [copy EXCEPT ![t] = q_len]
  /\ UNCHANGED <<q_len, q_len_limit, q_len_max, on_fly, missed>>

WriteForPut(t) ==
  /\ Go(t, "write", "max")
  /\ q_len' = copy[t] + 1
  /\ missed' = missed + Distance(q_len, copy[t])
  /\ UNCHANGED <<copy, q_len_limit, q_len_max, on_fly>>

\* The longest queue so far, in one step: of two threads only "push" has two here,
\* and its count never passes the first q_len_max.  A pull client then sends its job.
KeepMax(t) ==
  /\ Go(t, "max", "idle")
  /\ q_len_max' = Larger(q_len_max, q_len)
  /\ on_fly' = IF aimd = "pull" THEN on_fly + 1 ELSE on_fly
  /\ UNCHANGED <<copy, q_len, q_len_limit, missed>>

Put(t) == LetGo(t) \/ ReadForPut(t) \/ WriteForPut(t) \/ KeepMax(t)

-----------------------------------------------------------------------------
(* update(), update_w_result()                                             *)

\* A result comes; self.q_len = max(0, self.q_len - 1) is a read and a write.
TakeResult ==
  /\ Go("handler", "idle", "dec")
  /\ on_fly > 0 /\ on_fly' = on_fly - 1
  /\ copy' = [copy EXCEPT !["handler"] = q_len]
  /\ UNCHANGED <<q_len, q_len_limit, q_len_max, missed>>

\* Variant: the count is cut at 1.
CutAtOne(n) == Larger(1, n)

Cut(n) == Larger(0, n)

WriteForResult ==
  /\ Go("handler", "dec", "limit")
  /\ q_len' = Cut(copy["handler"] - 1)
  /\ missed' = missed + Distance(q_len, copy["handler"])
                      + (IF copy["handler"] = 0 THEN 1 ELSE 0)
  /\ UNCHANGED <<copy, q_len_limit, q_len_max, on_fly>>

\* The limit grows by 1/limit, or by 1 when it is small, up to twice the
\* longest queue so far.
Increase(limit, small) ==
  IF limit >= 2 * q_len_max * Unit THEN limit
  ELSE limit + IF small THEN Unit ELSE (Unit * Unit) \div limit

\* update_common(): half the limit when the average delay is too long.
PushLimit(late) ==
  IF late THEN q_len_limit \div 2 ELSE Increase(q_len_limit, q_len_limit <= Unit)

\* update(): half the limit, without its fraction.
PullLimit(late) ==
  IF late THEN (q_len_limit \div (2 * Unit)) * Unit
  ELSE Increase(q_len_limit, q_len_limit < Unit)

AdaptLimit ==
  /\ Go("handler", "limit", IF aimd = "push" THEN "test" ELSE "idle")
  /\ \E late \in BOOLEAN :
       q_len_limit' = IF aimd = "push" THEN PushLimit(late) ELSE PullLimit(late)
  /\ UNCHANGED <<copy, q_len, q_len_max, on_fly, missed>>

\* Variant: the limit holds for an empty queue too.
MayPutLimited == q_len * Unit < q_len_limit

MayPut == q_len = 0 \/ q_len * Unit < q_len_limit

\* update_w_result(): the branch that would send a probe names sid, which is
\* not defined.
TestNext ==
  /\ Go("handler", "test", IF MayPut THEN "token"
                           ELSE IF q_len_limit = 0 THEN "raised" ELSE "idle")
  /\ UNCHANGED <<copy, q_len, q_len_limit, q_len_max, on_fly, missed>>

HandleResult == TakeResult \/ WriteForResult \/ AdaptLimit \/ TestNext

AIMDNext == TestPut \/ (\E t \in Threads : Put(t)) \/ HandleResult

AIMDSpec == AIMDInit /\ [][AIMDNext]_aimdVars

-----------------------------------------------------------------------------
AIMDTypeOK ==
  /\ aimd \in {"push", "pull"}
  /\ at \in [Threads -> {"idle", "token", "incr", "write", "max", "dec", "limit", "test",
                         "raised"}]
  /\ copy \in [Threads -> Nat]
  /\ q_len \in Nat /\ q_len_limit \in Nat /\ q_len_max \in Nat /\ on_fly \in Nat
  /\ missed \in Nat

Counted(condition) == IF condition THEN 1 ELSE 0

\* What a correct count would be: a result that is taken is still counted until
\* the handler writes, a token is not until it is counted, and a job of "pull"
\* is counted before it goes.
Exact ==
  on_fly + Counted(at["handler"] = "dec")
    - (IF aimd = "push" THEN Counted(at["putter"] \in {"incr", "write"})
                               + Counted(at["handler"] \in {"incr", "write"})
       ELSE 0 - Counted(at["putter"] = "max"))

\* The unlocked count differs from the jobs on the fly by no more than the
\* updates that one thread overwrote of the other or the cut at 0 swallowed:
\* no other step loses one, so without overlap the count is exact.  The limit
\* never runs away from the longest queue that was counted.
AIMDWindow ==
  /\ q_len - Exact <= missed /\ Exact - q_len <= missed
  /\ q_len_limit <= (2 * q_len_max + 1) * Unit

\* A push controller has at most one job on the fly, whatever the delays: its
\* limit, which the class exists to adapt, lets nothing more go.  The stream
\* ends, with nothing on the fly, or in the branch with the undefined name, only
\* after the constructor and the first result have raced for the count.
PushStream ==
  aimd = "push" =>
    /\ on_fly <= 1
    /\ on_fly = 0 /\ at["putter"] = "idle" /\ at["handler"] \in {"idle", "raised"} => missed > 0
=============================================================================
