----------------------------- MODULE JobService -----------------------------
(***************************************************************************)
(* What an edge cluster promises its clients, without its threads, queues, *)
(* flags and sockets: jobs of a client start in the order it sent them,    *)
(* each at most once, no more of them at a time than the cluster has       *)
(* slots, and a job is answered at most once, after it was served.  A slot *)
(* whose job is lost with a worker is lost too.                            *)
(*                                                                         *)
(* Server.tla is shown to implement this module.                           *)
(***************************************************************************)
EXTENDS Naturals, FiniteSets

CONSTANTS Clients, MaxJobs,
          Capacity            \* jobs the workers can hold together

VARIABLES
  received,   \* client -> how many of its jobs have arrived
  started,    \* client -> how many of them were given a slot
  running,    \* jobs that occupy a slot
  finished,   \* jobs whose result came back and whose slot is free again
  settled,    \* finished jobs whose reply was sent, or could not be sent
  lost        \* jobs lost with their slot

jsVars == <<received, started, running, finished, settled, lost>>

JobId(c, i) == [cid |-> c, id |-> i]

Init ==
  /\ received = [c \in Clients |-> 0]
  /\ started = [c \in Clients |-> 0]
  /\ running = {} /\ finished = {} /\ settled = {} /\ lost = {}

Receive(c) ==
  /\ received[c] < MaxJobs
  /\ received' = [received EXCEPT ![c] = @ + 1]
  /\ UNCHANGED <<started, running, finished, settled, lost>>

Start(c) ==
  /\ started[c] < received[c]
  /\ Cardinality(running \cup lost) < Capacity
  /\ started' = [started EXCEPT ![c] = @ + 1]
  /\ running' = running \cup {JobId(c, started[c] + 1)}
  /\ UNCHANGED <<received, finished, settled, lost>>

Finish(j) ==
  /\ running' = running \ {j}
  /\ finished' = finished \cup {j}
  /\ UNCHANGED <<received, started, settled, lost>>

Settle(j) ==
  /\ settled' = settled \cup {j}
  /\ UNCHANGED <<received, started, running, finished, lost>>

Lose(J) ==
  /\ running' = running \ J
  /\ lost' = lost \cup J
  /\ UNCHANGED <<received, started, finished, settled>>

Next ==
  \/ \E c \in Clients : Receive(c) \/ Start(c)
  \/ \E j \in running : Finish(j)
  \/ \E j \in finished \ settled : Settle(j)
  \/ \E J \in SUBSET running : Lose(J)

Spec == Init /\ [][Next]_jsVars
=============================================================================
