------------------------- MODULE FlowControlServer -------------------------
(***************************************************************************)
(* The request queue of the master: class FlowControlServer of             *)
(* flow_control.py.  It keeps one FIFO queue per client (cid_q_m) and a    *)
(* ring of client ids (next_cid_to_pop_q) that pop() rotates to serve the  *)
(* clients in turn.                                                        *)
(*                                                                         *)
(* The code runs without a lock.  Every client has a listener thread that  *)
(* calls reg() and push(); one dispatcher thread calls pop().  A step here *)
(* is one access to the shared dictionary or deques: reg() is two steps,   *)
(* push() is one, and pop() is one step to enter the loop, one per         *)
(* iteration and one to fall out of it.  An iteration reads the head of    *)
(* the ring, rotates the ring and pops the queue; listeners only append to *)
(* the far end of the ring and of the queues, and those appends commute    *)
(* with the accesses of a single iteration.                                *)
(*                                                                         *)
(* The thread-step operators are used again, under the program counters of *)
(* the real threads, in Server.tla.                                        *)
(***************************************************************************)
EXTENDS Naturals, Sequences, FiniteSets

CONSTANTS Clients,  \* client ids
          MaxJobs,  \* bound: jobs a client sends
          None      \* Python's None

ASSUME ClientsAssumption == IsFiniteSet(Clients)
ASSUME MaxJobsAssumption == MaxJobs \in Nat

Jobs == [cid : Clients, id : Nat]

ASSUME NoneAssumption == None \notin Jobs

VARIABLES
  cid_q_m,            \* client id -> queue of its waiting jobs
  next_cid_to_pop_q,  \* the ring of client ids
  pop_pc,             \* dispatcher: "idle", inside pop()'s "loop", or "error"
  visits_left,        \* iterations left of the loop of pop()
  job,                \* what the last pop() returned
  pushed,             \* client id -> how many jobs it has pushed
  popped              \* history: client id -> how many of its jobs were popped

fcVars == <<cid_q_m, next_cid_to_pop_q, pop_pc, visits_left, job, pushed, popped>>

-----------------------------------------------------------------------------
Registered == DOMAIN cid_q_m

InRing(c) == \E i \in DOMAIN next_cid_to_pop_q : next_cid_to_pop_q[i] = c

\* The i-th job of a client: Client.run numbers its jobs from 1.
JobOf(c, i) == [cid |-> c, id |-> i]

Init ==
  /\ cid_q_m = [c \in {} |-> <<>>]
  /\ next_cid_to_pop_q = <<>>
  /\ pop_pc = "idle"
  /\ visits_left = 0
  /\ job = None
  /\ pushed = [c \in Clients |-> 0]
  /\ popped = [c \in Clients |-> 0]

-----------------------------------------------------------------------------
(* Listener thread of client c.                                            *)

\* reg(), first statement: the client gets an empty queue.
RegQueue(c) ==
  /\ c \notin Registered
  /\ cid_q_m' = [d \in Registered \cup {c} |-> IF d = c THEN <<>> ELSE cid_q_m[d]]
  /\ UNCHANGED <<next_cid_to_pop_q, pop_pc, visits_left, job, pushed, popped>>

\* reg(), second statement: the client joins the ring, at its end.
RegRing(c) ==
  /\ c \in Registered
  /\ ~InRing(c)
  /\ next_cid_to_pop_q' = Append(next_cid_to_pop_q, c)
  /\ UNCHANGED <<cid_q_m, pop_pc, visits_left, job, pushed, popped>>

\* push(job), which handle_msg calls once reg() has returned.
Push(c) ==
  /\ InRing(c)
  /\ c \in Registered
  /\ pushed[c] < MaxJobs
  /\ pushed' = [pushed EXCEPT ![c] = @ + 1]
  /\ cid_q_m' = [cid_q_m EXCEPT ![c] = Append(@, JobOf(c, pushed[c] + 1))]
  /\ UNCHANGED <<next_cid_to_pop_q, pop_pc, visits_left, job, popped>>

-----------------------------------------------------------------------------
(* Dispatcher thread: pop().                                               *)

\* Variant: the loop is one iteration short.
PopEnterShort ==
  /\ pop_pc = "idle"
  /\ pop_pc' = "loop"
  /\ visits_left' = IF Registered = {} THEN 0 ELSE Cardinality(Registered) - 1
  /\ UNCHANGED <<cid_q_m, next_cid_to_pop_q, job, pushed, popped>>

\* range(len(cid_q_m)) is evaluated once, on entry.
PopEnter ==
  /\ pop_pc = "idle"
  /\ pop_pc' = "loop"
  /\ visits_left' = Cardinality(Registered)
  /\ UNCHANGED <<cid_q_m, next_cid_to_pop_q, job, pushed, popped>>

\* An iteration of the loop is about to look at the ring.
Visiting == pop_pc = "loop" /\ visits_left > 0

Rotate(ring) == Append(Tail(ring), Head(ring))

\* Variant: the ring is rotated only when a job is found.
PopMissInPlace ==
  /\ Visiting
  /\ next_cid_to_pop_q # <<>>
  /\ cid_q_m[Head(next_cid_to_pop_q)] = <<>>
  /\ visits_left' = visits_left - 1
  /\ UNCHANGED <<cid_q_m, next_cid_to_pop_q, pop_pc, job, pushed, popped>>

\* The queue at the head of the ring is empty: go round.
PopMiss ==
  /\ Visiting
  /\ next_cid_to_pop_q # <<>>
  /\ cid_q_m[Head(next_cid_to_pop_q)] = <<>>
  /\ next_cid_to_pop_q' = Rotate(next_cid_to_pop_q)
  /\ visits_left' = visits_left - 1
  /\ UNCHANGED <<cid_q_m, pop_pc, job, pushed, popped>>

\* Variants: pop() for popleft(), and no rotation after a hit.
PopHitNewest ==
  /\ Visiting
  /\ next_cid_to_pop_q # <<>>
  /\ LET c == Head(next_cid_to_pop_q)
         q == cid_q_m[c]
     IN /\ q # <<>>
        /\ job' = q[Len(q)]
        /\ cid_q_m' = [cid_q_m EXCEPT ![c] = SubSeq(@, 1, Len(@) - 1)]
        /\ popped' = [popped EXCEPT ![c] = @ + 1]
  /\ next_cid_to_pop_q' = Rotate(next_cid_to_pop_q)
  /\ pop_pc' = "idle"
  /\ visits_left' = 0
  /\ UNCHANGED pushed

PopHitInPlace ==
  /\ Visiting
  /\ next_cid_to_pop_q # <<>>
  /\ LET c == Head(next_cid_to_pop_q)
     IN /\ cid_q_m[c] # <<>>
        /\ job' = Head(cid_q_m[c])
        /\ cid_q_m' = [cid_q_m EXCEPT ![c] = Tail(@)]
        /\ popped' = [popped EXCEPT ![c] = @ + 1]
  /\ pop_pc' = "idle"
  /\ visits_left' = 0
  /\ UNCHANGED <<next_cid_to_pop_q, pushed>>

\* It holds a job: return the oldest one.
PopHit ==
  /\ Visiting
  /\ next_cid_to_pop_q # <<>>
  /\ LET c == Head(next_cid_to_pop_q)
     IN /\ cid_q_m[c] # <<>>
        /\ job' = Head(cid_q_m[c])
        /\ cid_q_m' = [cid_q_m EXCEPT ![c] = Tail(@)]
        /\ popped' = [popped EXCEPT ![c] = @ + 1]
  /\ next_cid_to_pop_q' = Rotate(next_cid_to_pop_q)
  /\ pop_pc' = "idle"
  /\ visits_left' = 0
  /\ UNCHANGED pushed

\* next_cid_to_pop_q[0] raises IndexError: a client has a queue, none is in
\* the ring yet.
PopIndexError ==
  /\ Visiting
  /\ next_cid_to_pop_q = <<>>
  /\ pop_pc' = "error"
  /\ UNCHANGED <<cid_q_m, next_cid_to_pop_q, visits_left, job, pushed, popped>>

\* The loop is over: return None.
PopNone ==
  /\ pop_pc = "loop"
  /\ visits_left = 0
  /\ job' = None
  /\ pop_pc' = "idle"
  /\ UNCHANGED <<cid_q_m, next_cid_to_pop_q, visits_left, pushed, popped>>

Pop == PopEnter \/ PopMiss \/ PopHit \/ PopIndexError \/ PopNone

Next ==
  \/ \E c \in Clients : RegQueue(c) \/ RegRing(c) \/ Push(c)
  \/ Pop

\* The dispatcher thread keeps calling pop(), and it runs.
Spec == Init /\ [][Next]_fcVars /\ WF_fcVars(Pop)

-----------------------------------------------------------------------------
TypeOK ==
  /\ Registered \subseteq Clients
  /\ cid_q_m \in [Registered -> Seq(Jobs)]
  /\ next_cid_to_pop_q \in Seq(Clients)
  /\ pop_pc \in {"idle", "loop", "error"}
  /\ visits_left \in Nat
  /\ job \in Jobs \cup {None}
  /\ pushed \in [Clients -> Nat]
  /\ popped \in [Clients -> Nat]

\* The queue of a client holds exactly the jobs it has pushed and that were
\* not popped, oldest first: pop() loses no job, returns none twice and keeps
\* the order in which a client sent its jobs, whatever the threads interleave.
QueuesAreTheBacklog ==
  \A c \in Clients :
    IF c \in Registered
    THEN /\ popped[c] + Len(cid_q_m[c]) = pushed[c]
         /\ \A i \in 1..Len(cid_q_m[c]) : cid_q_m[c][i] = JobOf(c, popped[c] + i)
    ELSE pushed[c] = 0 /\ popped[c] = 0

\* A client that has pushed a job is in the ring, no client is in it twice,
\* and every client in it has a queue: rotating the ring reaches every backlog
\* and gives no client two turns in a round.
RingIsComplete ==
  /\ \A c \in Clients : pushed[c] > 0 => InRing(c)
  /\ \A i, k \in DOMAIN next_cid_to_pop_q :
       next_cid_to_pop_q[i] = next_cid_to_pop_q[k] => i = k
  /\ \A c \in Clients : InRing(c) => c \in Registered

\* Unless pop() has raised, every job that was pushed is popped in the end:
\* the rotation never parks on an empty queue while another one is busy.
EveryJobIsPopped ==
  \A c \in Clients : \A i \in 1..MaxJobs :
    pushed[c] >= i ~> (popped[c] >= i \/ pop_pc = "error")

\* The notes say: "Whenever a worker becomes idle, the next busy client queue
\* is served."  A dispatcher that raised serves no queue any more.
QueuedJobIsServed ==
  \A c \in Clients : \A i \in 1..MaxJobs : pushed[c] >= i ~> popped[c] >= i
=============================================================================
