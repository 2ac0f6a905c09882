----------------------------- MODULE RoundRobin -----------------------------
(***************************************************************************)
(* What pop() of FlowControlServer promises over several calls: the turns  *)
(* of the clients, and what a None result is worth to the dispatcher.      *)
(* Two history variables are added to the component; they record and       *)
(* never restrict.                                                         *)
(***************************************************************************)
EXTENDS FlowControlServer

VARIABLES
  overtaken,       \* <<c, d>> -> jobs of d popped since c's oldest job waits
  pushed_at_call   \* value of pushed when the current pop() was entered

rrVars == <<fcVars, overtaken, pushed_at_call>>

RRInit ==
  /\ Init
  /\ overtaken = [p \in Clients \X Clients |-> 0]
  /\ pushed_at_call = pushed

\* A client waits while its queue holds a job.
Waiting(c) == c \in Registered /\ cid_q_m[c] # <<>>

\* Client d is popped: everyone else who waits has been overtaken once more,
\* and d's next job starts a new wait.
RecordPop(d) ==
  overtaken' = [p \in Clients \X Clients |->
                  IF p[1] = d THEN 0
                  ELSE IF p[2] = d /\ Waiting(p[1]) THEN overtaken[p] + 1
                  ELSE overtaken[p]]

RRListener(c) ==
  /\ RegQueue(c) \/ RegRing(c) \/ Push(c)
  /\ UNCHANGED <<overtaken, pushed_at_call>>

RREnter == PopEnter /\ pushed_at_call' = pushed /\ UNCHANGED overtaken

RRHit == PopHit /\ RecordPop(Head(next_cid_to_pop_q)) /\ UNCHANGED pushed_at_call

RROther ==
  /\ PopMiss \/ PopIndexError \/ PopNone
  /\ UNCHANGED <<overtaken, pushed_at_call>>

RRNext == (\E c \in Clients : RRListener(c)) \/ RREnter \/ RRHit \/ RROther

\* The dispatcher thread keeps calling pop(), and it runs.
RRSpec == RRInit /\ [][RRNext]_rrVars /\ WF_rrVars(RREnter \/ RRHit \/ RROther)

-----------------------------------------------------------------------------
RRTypeOK ==
  /\ overtaken \in [Clients \X Clients -> Nat]
  /\ pushed_at_call \in [Clients -> Nat]

\* While a client has a job waiting, no other client gets two turns: the
\* round robin is fair to within one job, also while clients register and
\* push between the iterations of pop().
OvertakenAtMostOnce ==
  \A c, d \in Clients : Waiting(c) => overtaken[<<c, d>>] <= 1

\* pop() returns None only when every job pushed before the call was entered
\* has been popped.  The dispatcher that goes to sleep on a None can miss
\* jobs pushed during the call, never older ones.
NoneMissesNoOlderJob ==
  (pop_pc = "loop" /\ visits_left = 0) =>
    \A c \in Clients : popped[c] >= pushed_at_call[c]
=============================================================================
