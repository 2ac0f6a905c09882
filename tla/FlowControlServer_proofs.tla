---------------------- MODULE FlowControlServer_proofs ----------------------
(***************************************************************************)
(* Proofs about FlowControlServer and RoundRobin, for every set of clients *)
(* and every MaxJobs.                                                      *)
(*                                                                         *)
(* The conjunction of the three invariants of the queue is inductive: the  *)
(* backlog invariant needs the types, and push() needs the ring only       *)
(* through its guard.  What pop() promises over several calls needs, on    *)
(* top of it, where the clients stand in the ring (TurnInv, VisitInv).     *)
(***************************************************************************)
EXTENDS RoundRobin, FunctionTheorems, FiniteSetTheorems, SequenceTheorems, TLAPS

FCInv == TypeOK /\ QueuesAreTheBacklog /\ RingIsComplete

-----------------------------------------------------------------------------
(* The ring.                                                               *)

\* Rotating a nonempty ring moves its first entry to the end and every other
\* entry one place towards the front.
LEMMA RotateEntries ==
  ASSUME NEW S, NEW r \in Seq(S), r # <<>>
  PROVE  /\ Rotate(r) \in Seq(S)
         /\ Len(Rotate(r)) = Len(r)
         /\ Len(r) \in Nat \ {0}
         /\ DOMAIN r = 1..Len(r)
         /\ DOMAIN Rotate(r) = 1..Len(r)
         /\ \A i \in 1..Len(r) : Rotate(r)[i] = IF i = Len(r) THEN r[1] ELSE r[i + 1]
<1>1. /\ Head(r) \in S /\ Head(r) = r[1]
      /\ Tail(r) \in Seq(S) /\ Len(Tail(r)) = Len(r) - 1
      /\ \A i \in 1..Len(Tail(r)) : Tail(r)[i] = r[i + 1]
      /\ Len(r) \in Nat \ {0}
  BY HeadTailProperties, EmptySeq
<1>2. /\ Rotate(r) \in Seq(S)
      /\ Len(Rotate(r)) = Len(Tail(r)) + 1
      /\ \A i \in 1..Len(Tail(r)) : Rotate(r)[i] = Tail(r)[i]
      /\ Rotate(r)[Len(Tail(r)) + 1] = Head(r)
  BY <1>1, AppendProperties DEF Rotate
<1>3. DOMAIN r = 1..Len(r) /\ DOMAIN Rotate(r) = 1..Len(Rotate(r))
  BY <1>2, LenProperties
<1>4. Len(Tail(r)) + 1 = Len(r) /\ Len(Rotate(r)) = Len(r)
  BY <1>1, <1>2
<1>5. ASSUME NEW i \in 1..Len(r)
      PROVE  Rotate(r)[i] = IF i = Len(r) THEN r[1] ELSE r[i + 1]
  <2>1. CASE i = Len(r)
    BY <1>1, <1>2, <1>4, <2>1
  <2>2. CASE i # Len(r)
    <3>1. i \in 1..Len(Tail(r))
      <4> DEFINE n == Len(r)
                 m == Len(Tail(r))
      <4>1. n \in Nat \ {0} /\ m = n - 1 /\ i \in 1..n /\ i # n BY <1>1, <2>2
      <4> HIDE DEF n, m
      <4>2. i \in 1..m BY <4>1
      <4> QED BY <4>2 DEF m
    <3>2. Rotate(r)[i] = Tail(r)[i] /\ Tail(r)[i] = r[i + 1] BY <1>1, <1>2, <3>1
    <3> QED BY <2>2, <3>2
  <2> QED BY <2>1, <2>2
<1> QED
  BY <1>1, <1>2, <1>3, <1>4, <1>5

\* The entries of the rotated ring are the entries of the ring, and they stay
\* distinct.
LEMMA RotateKeepsRing ==
  ASSUME TypeOK, RingIsComplete, next_cid_to_pop_q # <<>>,
         next_cid_to_pop_q' = Rotate(next_cid_to_pop_q)
  PROVE  /\ \A c \in Clients : InRing(c)' <=> InRing(c)
         /\ \A i, k \in DOMAIN next_cid_to_pop_q' :
              next_cid_to_pop_q'[i] = next_cid_to_pop_q'[k] => i = k
         /\ next_cid_to_pop_q' \in Seq(Clients)
<1> DEFINE r == next_cid_to_pop_q
           n == Len(r)
<1>1. /\ r \in Seq(Clients) /\ n \in Nat \ {0} /\ DOMAIN r = 1..n
      /\ r' \in Seq(Clients) /\ DOMAIN r' = 1..n
      /\ \A i \in 1..n : r'[i] = IF i = n THEN r[1] ELSE r[i + 1]
  BY RotateEntries DEF TypeOK
<1>2. \A i, k \in 1..n : r[i] = r[k] => i = k
  BY <1>1 DEF RingIsComplete
<1> HIDE DEF r, n
<1>3. \A i, k \in 1..n : r'[i] = r'[k] => i = k
  BY <1>1, <1>2
<1>4. ASSUME NEW c \in Clients
      PROVE  (\E i \in 1..n : r'[i] = c) <=> (\E i \in 1..n : r[i] = c)
  <2>1. ASSUME NEW i \in 1..n, r'[i] = c PROVE \E k \in 1..n : r[k] = c
    <3>1. CASE i = n BY <1>1, <2>1, <3>1
    <3>2. CASE i # n
      <4>1. i + 1 \in 1..n BY <1>1, <3>2
      <4>2. r[i + 1] = c BY <1>1, <2>1, <3>2
      <4> QED BY <4>1, <4>2
    <3> QED BY <3>1, <3>2
  <2>2. ASSUME NEW i \in 1..n, r[i] = c PROVE \E k \in 1..n : r'[k] = c
    <3>1. CASE i = 1 BY <1>1, <2>2, <3>1
    <3>2. CASE i # 1
      <4>1. i - 1 \in 1..n /\ i - 1 # n /\ (i - 1) + 1 = i BY <1>1, <3>2
      <4>2. r'[i - 1] = c BY <1>1, <2>2, <4>1
      <4> QED BY <4>1, <4>2
    <3> QED BY <3>1, <3>2
  <2> QED BY <2>1, <2>2
<1> QED
  BY <1>1, <1>3, <1>4 DEF InRing, r

-----------------------------------------------------------------------------
(* Induction.                                                              *)

LEMMA FCInitInv == Init => FCInv
  BY MaxJobsAssumption, EmptySeq
  DEF Init, FCInv, TypeOK, QueuesAreTheBacklog, RingIsComplete, Registered, InRing

\* Registering a client leaves every backlog as it is and the ring complete.
LEMMA RegQueueInv ==
  ASSUME FCInv, NEW c \in Clients, RegQueue(c)
  PROVE  FCInv'
<1> USE DEF FCInv
<1>1. /\ Registered' = Registered \cup {c}
      /\ \A d \in Registered' : cid_q_m'[d] = IF d = c THEN <<>> ELSE cid_q_m[d]
  BY DEF RegQueue, Registered
<1>2. TypeOK'
  BY <1>1, EmptySeq DEF RegQueue, TypeOK, Registered
<1>3. QueuesAreTheBacklog'
  BY <1>1 DEF RegQueue, TypeOK, QueuesAreTheBacklog, JobOf
<1>4. RingIsComplete'
  BY <1>1 DEF RegQueue, RingIsComplete, InRing
<1> QED
  BY <1>2, <1>3, <1>4

LEMMA RegRingInv ==
  ASSUME FCInv, NEW c \in Clients, RegRing(c)
  PROVE  FCInv'
<1> USE DEF FCInv
<1> DEFINE r == next_cid_to_pop_q
           n == Len(r)
<1>1. /\ r \in Seq(Clients) /\ n \in Nat /\ DOMAIN r = 1..n
      /\ r' \in Seq(Clients) /\ DOMAIN r' = 1..(n + 1)
      /\ \A i \in 1..n : r'[i] = r[i]
      /\ r'[n + 1] = c
  <2>1. r \in Seq(Clients) /\ r' = Append(r, c) BY DEF RegRing, TypeOK
  <2> QED BY <2>1, AppendProperties, LenProperties
<1>2. TypeOK'
  BY <1>1 DEF RegRing, TypeOK, Registered
<1>3. QueuesAreTheBacklog'
  BY DEF RegRing, QueuesAreTheBacklog, Registered
<1>4. /\ c \in Registered /\ UNCHANGED <<cid_q_m, pushed>> /\ ~ InRing(c)
  BY DEF RegRing
<1> HIDE DEF n
<1>5. \A d \in Clients : InRing(d)' <=> (InRing(d) \/ d = c)
  BY <1>1 DEF InRing
<1>6. \A i, k \in DOMAIN r' : r'[i] = r'[k] => i = k
  BY <1>1, <1>4 DEF RingIsComplete, InRing
<1>7. RingIsComplete'
  BY <1>4, <1>5, <1>6 DEF RingIsComplete, Registered
<1> QED
  BY <1>2, <1>3, <1>7

LEMMA PushInv ==
  ASSUME FCInv, NEW c \in Clients, Push(c)
  PROVE  FCInv'
<1> USE DEF FCInv
<1> DEFINE q == cid_q_m[c]
           j == JobOf(c, pushed[c] + 1)
<1>1. /\ c \in Registered /\ InRing(c) /\ pushed[c] \in Nat
      /\ q \in Seq(Jobs) /\ j \in Jobs
      /\ cid_q_m' = [cid_q_m EXCEPT ![c] = Append(q, j)]
      /\ pushed' = [pushed EXCEPT ![c] = @ + 1]
      /\ UNCHANGED <<next_cid_to_pop_q, pop_pc, visits_left, job, popped>>
  BY DEF Push, TypeOK, JobOf, Jobs
<1>2. /\ Append(q, j) \in Seq(Jobs)
      /\ Len(Append(q, j)) = Len(q) + 1
      /\ \A i \in 1..Len(q) : Append(q, j)[i] = q[i]
      /\ Append(q, j)[Len(q) + 1] = j
      /\ Len(q) \in Nat
  BY <1>1, AppendProperties, LenProperties
<1>3. /\ Registered' = Registered
      /\ cid_q_m'[c] = Append(q, j)
      /\ \A d \in Registered \ {c} : cid_q_m'[d] = cid_q_m[d]
  BY <1>1 DEF Registered, TypeOK
<1>4. TypeOK'
  BY <1>1, <1>2, <1>3 DEF TypeOK
<1>5. QueuesAreTheBacklog'
  <2>1. /\ popped[c] + Len(q) = pushed[c]
        /\ \A i \in 1..Len(q) : q[i] = JobOf(c, popped[c] + i)
        /\ popped[c] \in Nat
    BY <1>1 DEF QueuesAreTheBacklog, TypeOK
  <2>2. /\ popped[c] + Len(Append(q, j)) = pushed[c] + 1
        /\ \A i \in 1..Len(Append(q, j)) : Append(q, j)[i] = JobOf(c, popped[c] + i)
    <3>1. j = JobOf(c, pushed[c] + 1) /\ pushed[c] \in Nat BY <1>1
    <3> HIDE DEF q, j
    <3>2. popped[c] + Len(Append(q, j)) = pushed[c] + 1
      BY <1>2, <2>1, <3>1
    <3>3. ASSUME NEW i \in 1..(Len(q) + 1)
          PROVE  Append(q, j)[i] = JobOf(c, popped[c] + i)
      <4>1. CASE i = Len(q) + 1
        <5>1. popped[c] + i = pushed[c] + 1
          <6> DEFINE n == Len(q)
          <6>1. /\ n \in Nat /\ popped[c] \in Nat
                /\ i = n + 1 /\ popped[c] + n = pushed[c]
            BY <1>2, <2>1, <4>1
          <6> HIDE DEF n
          <6> QED BY <6>1
        <5> QED BY <1>2, <3>1, <4>1, <5>1
      <4>2. CASE i # Len(q) + 1
        <5>1. i \in 1..Len(q) BY <1>2, <4>2
        <5> QED BY <1>2, <2>1, <5>1
      <4> QED BY <4>1, <4>2
    <3> QED BY <1>2, <3>2, <3>3
  <2>3. pushed'[c] = pushed[c] + 1 /\ popped' = popped
    BY <1>1 DEF TypeOK
  <2>4. ASSUME NEW d \in Clients, d # c
        PROVE  /\ pushed'[d] = pushed[d]
               /\ d \in Registered => cid_q_m'[d] = cid_q_m[d]
    BY <1>1, <1>3, <2>4 DEF TypeOK
  <2> HIDE DEF q, j
  <2>5. ASSUME NEW d \in Clients
        PROVE  IF d \in Registered'
               THEN /\ popped'[d] + Len(cid_q_m'[d]) = pushed'[d]
                    /\ \A i \in 1..Len(cid_q_m'[d]) : cid_q_m'[d][i] = JobOf(d, popped'[d] + i)
               ELSE pushed'[d] = 0 /\ popped'[d] = 0
    <3>1. CASE d = c BY <1>1, <1>3, <2>2, <2>3, <3>1
    <3>2. CASE d # c BY <1>3, <2>3, <2>4, <3>2 DEF QueuesAreTheBacklog
    <3> QED BY <3>1, <3>2
  <2> QED
    BY <2>5 DEF QueuesAreTheBacklog
<1>6. RingIsComplete'
  BY <1>1, <1>3 DEF RingIsComplete, InRing, TypeOK
<1> QED
  BY <1>4, <1>5, <1>6

LEMMA PopHitInv ==
  ASSUME FCInv, PopHit
  PROVE  FCInv'
<1> USE DEF FCInv
<1> DEFINE c == Head(next_cid_to_pop_q)
           q == cid_q_m[c]
<1>1. c \in Clients /\ InRing(c) /\ c \in Registered
  <2>1. /\ next_cid_to_pop_q \in Seq(Clients) /\ next_cid_to_pop_q # <<>>
    BY DEF PopHit, TypeOK
  <2>2. c \in Clients /\ 1 \in DOMAIN next_cid_to_pop_q /\ next_cid_to_pop_q[1] = c
    BY <2>1, RotateEntries, HeadTailProperties
  <2> QED BY <2>2 DEF InRing, RingIsComplete
<1>2. /\ q \in Seq(Jobs) /\ q # <<>>
      /\ cid_q_m' = [cid_q_m EXCEPT ![c] = Tail(q)]
      /\ popped' = [popped EXCEPT ![c] = @ + 1]
      /\ job' = Head(q) /\ pop_pc' = "idle" /\ visits_left' = 0 /\ UNCHANGED pushed
      /\ next_cid_to_pop_q # <<>>
      /\ next_cid_to_pop_q' = Rotate(next_cid_to_pop_q)
  BY <1>1 DEF PopHit, TypeOK
<1>3. /\ Tail(q) \in Seq(Jobs) /\ Len(Tail(q)) = Len(q) - 1 /\ Head(q) \in Jobs
      /\ \A i \in 1..Len(Tail(q)) : Tail(q)[i] = q[i + 1]
      /\ Len(q) \in Nat \ {0}
  BY <1>2, HeadTailProperties, EmptySeq
<1>4. /\ Registered' = Registered
      /\ cid_q_m'[c] = Tail(q)
      /\ \A d \in Registered \ {c} : cid_q_m'[d] = cid_q_m[d]
  BY <1>1, <1>2 DEF Registered, TypeOK
<1>5. /\ \A d \in Clients : InRing(d)' <=> InRing(d)
      /\ \A i, k \in DOMAIN next_cid_to_pop_q' :
           next_cid_to_pop_q'[i] = next_cid_to_pop_q'[k] => i = k
      /\ next_cid_to_pop_q' \in Seq(Clients)
  BY <1>2, RotateKeepsRing
<1> HIDE DEF c, q
<1>6. TypeOK'
  BY <1>1, <1>2, <1>3, <1>4, <1>5 DEF TypeOK
<1>7. QueuesAreTheBacklog'
  <2>1. popped[c] + Len(q) = pushed[c] /\ \A i \in 1..Len(q) : q[i] = JobOf(c, popped[c] + i)
    BY <1>1 DEF QueuesAreTheBacklog, q
  <2>2. popped[c] \in Nat /\ popped'[c] = popped[c] + 1
    BY <1>1, <1>2 DEF TypeOK
  <2>3. ASSUME NEW i \in 1..Len(Tail(q))
        PROVE  Tail(q)[i] = JobOf(c, popped'[c] + i)
    <3>1. i + 1 \in 1..Len(q) /\ popped[c] + (i + 1) = popped'[c] + i
      BY <1>3, <2>2
    <3> QED BY <1>3, <2>1, <3>1
  <2>4. popped'[c] + Len(Tail(q)) = pushed'[c]
    BY <1>2, <1>3, <2>1, <2>2
  <2>5. ASSUME NEW d \in Clients, d # c
        PROVE  /\ popped'[d] = popped[d] /\ pushed'[d] = pushed[d]
               /\ d \in Registered => cid_q_m'[d] = cid_q_m[d]
    BY <1>2, <1>4, <2>5 DEF TypeOK
  <2> QED
    BY <1>1, <1>4, <2>3, <2>4, <2>5 DEF QueuesAreTheBacklog
<1>8. RingIsComplete'
  BY <1>2, <1>4, <1>5 DEF RingIsComplete
<1> QED
  BY <1>6, <1>7, <1>8

LEMMA PopMissInv ==
  ASSUME FCInv, PopMiss
  PROVE  FCInv'
<1> USE DEF FCInv
<1>1. /\ \A d \in Clients : InRing(d)' <=> InRing(d)
      /\ \A i, k \in DOMAIN next_cid_to_pop_q' :
           next_cid_to_pop_q'[i] = next_cid_to_pop_q'[k] => i = k
      /\ next_cid_to_pop_q' \in Seq(Clients)
  BY RotateKeepsRing DEF PopMiss
<1>2. visits_left' \in Nat
  BY DEF PopMiss, Visiting, TypeOK
<1>3. UNCHANGED <<cid_q_m, pop_pc, job, pushed, popped>>
  BY DEF PopMiss
<1> QED
  BY <1>1, <1>2, <1>3 DEF TypeOK, QueuesAreTheBacklog, RingIsComplete, Registered

\* Entering and leaving the loop touch no queue and no ring.
LEMMA PopControlInv ==
  ASSUME FCInv, IsFiniteSet(Clients), PopEnter \/ PopIndexError \/ PopNone
  PROVE  FCInv'
<1>1. Cardinality(Registered) \in Nat
  BY FS_Subset, FS_CardinalityType DEF FCInv, TypeOK
<1>2. UNCHANGED <<cid_q_m, next_cid_to_pop_q, pushed, popped>>
  BY DEF PopEnter, PopIndexError, PopNone
<1>3. /\ pop_pc' \in {"idle", "loop", "error"}
      /\ visits_left' \in Nat
      /\ job' \in Jobs \cup {None}
  BY <1>1 DEF PopEnter, PopIndexError, PopNone, FCInv, TypeOK
<1> QED
  BY <1>2, <1>3 DEF FCInv, TypeOK, QueuesAreTheBacklog, RingIsComplete, Registered, InRing

LEMMA FCNextInv == FCInv /\ [Next]_fcVars => FCInv'
<1> SUFFICES ASSUME FCInv, [Next]_fcVars PROVE FCInv'
  OBVIOUS
<1>1. ASSUME NEW c \in Clients, RegQueue(c) PROVE FCInv'
  BY <1>1, RegQueueInv
<1>2. ASSUME NEW c \in Clients, RegRing(c) PROVE FCInv'
  BY <1>2, RegRingInv
<1>3. ASSUME NEW c \in Clients, Push(c) PROVE FCInv'
  BY <1>3, PushInv
<1>4. CASE PopHit BY <1>4, PopHitInv
<1>5. CASE PopMiss BY <1>5, PopMissInv
<1>6. CASE PopEnter \/ PopIndexError \/ PopNone
  BY <1>6, ClientsAssumption, PopControlInv
<1>7. CASE UNCHANGED fcVars
  BY <1>7 DEF fcVars, FCInv, TypeOK, QueuesAreTheBacklog, RingIsComplete, Registered, InRing
<1> QED
  BY <1>1, <1>2, <1>3, <1>4, <1>5, <1>6, <1>7 DEF Next, Pop

-----------------------------------------------------------------------------
\* The request queue is well-typed, holds exactly the backlog of each client
\* in the order it was pushed, and its ring reaches every client that has
\* pushed: class FlowControlServer, in every reachable state.
THEOREM RequestQueueIsCorrect ==
  Spec => [](TypeOK /\ QueuesAreTheBacklog /\ RingIsComplete)
<1>1. FCInv => TypeOK /\ QueuesAreTheBacklog /\ RingIsComplete
  BY DEF FCInv
<1> QED
  BY <1>1, FCInitInv, FCNextInv, PTL DEF Spec

-----------------------------------------------------------------------------
(* The fairness of the round robin.                                        *)

\* Whoever has overtaken a waiting client stands behind it in the ring, so it
\* cannot overtake again before the client's turn.
TurnInv ==
  /\ overtaken \in [Clients \X Clients -> {0, 1}]
  /\ \A c, d \in Clients : overtaken[<<c, d>>] = 1 =>
       /\ Waiting(c)
       /\ \E i, k \in DOMAIN next_cid_to_pop_q :
            i < k /\ next_cid_to_pop_q[i] = c /\ next_cid_to_pop_q[k] = d

\* A client that still has a job from before the call stands among the entries
\* of the ring that the loop of pop() has yet to visit.
VisitInv ==
  /\ pushed_at_call \in [Clients -> Nat]
  /\ \A c \in Clients : pushed_at_call[c] <= pushed[c]
  /\ pop_pc = "loop" => \A i \in DOMAIN next_cid_to_pop_q :
       LET c == next_cid_to_pop_q[i]
       IN popped[c] < pushed_at_call[c] => i <= visits_left

RRInv == FCInv /\ TurnInv /\ VisitInv

-----------------------------------------------------------------------------
(* The ring and the queues.                                                *)

\* What a rotation does to the ring, with its head named.
LEMMA RotatedRing ==
  ASSUME FCInv, next_cid_to_pop_q # <<>>, next_cid_to_pop_q' = Rotate(next_cid_to_pop_q)
  PROVE  LET r == next_cid_to_pop_q
             n == Len(r)
         IN /\ n \in Nat \ {0} /\ DOMAIN r = 1..n /\ DOMAIN r' = 1..n
            /\ Head(r) = r[1] /\ r[1] \in Clients /\ r[1] \in Registered
            /\ r'[n] = r[1]
            /\ \A i \in 1..n : i # n => r'[i] = r[i + 1]
            /\ \A i, k \in 1..n : r[i] = r[k] => i = k
            /\ \A i \in 1..n : r[i] \in Clients
<1> DEFINE r == next_cid_to_pop_q
           n == Len(r)
<1>1. r \in Seq(Clients)
  BY DEF FCInv, TypeOK
<1>2. /\ n \in Nat \ {0} /\ DOMAIN r = 1..n /\ DOMAIN r' = 1..n
      /\ \A i \in 1..n : r'[i] = IF i = n THEN r[1] ELSE r[i + 1]
  BY <1>1, RotateEntries
<1>3. \A i, k \in 1..n : r[i] = r[k] => i = k
  BY <1>2 DEF FCInv, RingIsComplete
<1>4. \A i \in 1..n : r[i] \in Clients
  BY <1>1, ElementOfSeq
<1>5. Head(r) = r[1]
  OBVIOUS
<1>6. 1 \in 1..n /\ n \in 1..n
  <2> HIDE DEF n
  <2> QED BY <1>2
<1>7. r[1] \in Registered
  <2>1. InRing(r[1]) BY <1>2, <1>6 DEF InRing
  <2>2. r[1] \in Clients BY <1>4, <1>6
  <2> QED BY <2>1, <2>2 DEF FCInv, RingIsComplete
<1> HIDE DEF r, n
<1> QED
  BY <1>2, <1>3, <1>4, <1>5, <1>6, <1>7 DEF r, n

\* There are no more entries in the ring than clients with a queue.
LEMMA RingFits == FCInv => Len(next_cid_to_pop_q) <= Cardinality(Registered)
<1> SUFFICES ASSUME FCInv PROVE Len(next_cid_to_pop_q) <= Cardinality(Registered)
  OBVIOUS
<1> DEFINE r == next_cid_to_pop_q
           n == Len(r)
<1>1. r \in Seq(Clients) /\ n \in Nat /\ DOMAIN r = 1..n
  BY LenProperties DEF FCInv, TypeOK
<1>2. \A i \in 1..n : r[i] \in Registered
  <2> SUFFICES ASSUME NEW i \in 1..n PROVE r[i] \in Registered
    OBVIOUS
  <2>1. r[i] \in Clients BY <1>1
  <2>2. InRing(r[i]) BY <1>1 DEF InRing
  <2> QED BY <2>1, <2>2 DEF FCInv, RingIsComplete
<1>3. \A i, k \in 1..n : r[i] = r[k] => i = k
  BY <1>1 DEF FCInv, RingIsComplete
<1> DEFINE f == [i \in 1..n |-> r[i]]
<1>4. f \in Injection(1..n, Registered)
  <2>1. f \in [1..n -> Registered] BY <1>2
  <2>2. \A i, k \in 1..n : f[i] = f[k] => i = k BY <1>3
  <2> HIDE DEF f, n
  <2> QED BY <2>1, <2>2, Fun_IsInj
<1>5. IsFiniteSet(Registered)
  BY ClientsAssumption, FS_Subset DEF FCInv, TypeOK
<1>6. Cardinality(1..n) <= Cardinality(Registered)
  <2> HIDE DEF f
  <2> QED BY <1>4, <1>5, FS_Injection
<1>7. Cardinality(1..n) = n
  <2> HIDE DEF n
  <2>1. Cardinality(1..n) = IF 1 > n THEN 0 ELSE n - 1 + 1
    BY <1>1, FS_Interval
  <2> QED BY <1>1, <2>1
<1> QED
  BY <1>6, <1>7

\* Who waits is in the ring; a client without a waiting job has none left.
LEMMA WaitingInRing ==
  ASSUME FCInv, NEW c \in Clients
  PROVE  /\ Waiting(c) => InRing(c)
         /\ popped[c] <= pushed[c]
         /\ ~Waiting(c) => popped[c] = pushed[c]
         /\ ~InRing(c) => pushed[c] = 0
<1>1. pushed[c] \in Nat /\ popped[c] \in Nat
  BY DEF FCInv, TypeOK
<1>2. CASE c \in Registered
  <2>1. /\ cid_q_m[c] \in Seq(Jobs)
        /\ popped[c] + Len(cid_q_m[c]) = pushed[c]
    BY <1>2 DEF FCInv, TypeOK, QueuesAreTheBacklog
  <2>2. Len(cid_q_m[c]) \in Nat /\ (cid_q_m[c] = <<>> <=> Len(cid_q_m[c]) = 0)
    BY <2>1, LenProperties, EmptySeq
  <2>3. ~InRing(c) => pushed[c] = 0
    BY <1>1 DEF FCInv, RingIsComplete
  <2> QED BY <1>1, <1>2, <2>1, <2>2, <2>3 DEF Waiting
<1>3. CASE c \notin Registered
  BY <1>1, <1>3 DEF FCInv, QueuesAreTheBacklog, Waiting
<1> QED
  BY <1>2, <1>3

-----------------------------------------------------------------------------
(* Induction.                                                              *)

LEMMA RRInitInv == RRInit => RRInv
<1> SUFFICES ASSUME RRInit PROVE RRInv
  OBVIOUS
<1>1. FCInv
  BY FCInitInv DEF RRInit
<1>2. TurnInv
  BY DEF RRInit, TurnInv
<1>3. VisitInv
  BY DEF RRInit, Init, VisitInv
<1> QED
  BY <1>1, <1>2, <1>3 DEF RRInv

\* A listener makes nobody stop waiting and moves nobody in the ring.
LEMMA RRListenerInv ==
  ASSUME RRInv, NEW c \in Clients, RRListener(c)
  PROVE  TurnInv' /\ VisitInv'
<1> DEFINE r == next_cid_to_pop_q
           n == Len(r)
<1>1. UNCHANGED <<overtaken, pushed_at_call, pop_pc, visits_left, popped>>
  BY DEF RRListener, RegQueue, RegRing, Push
<1>2. r \in Seq(Clients) /\ n \in Nat /\ DOMAIN r = 1..n
  BY LenProperties DEF RRInv, FCInv, TypeOK
<1>3. /\ \A i \in 1..n : i \in DOMAIN r' /\ r'[i] = r[i]
      /\ \A i \in DOMAIN r' : i \notin 1..n => r'[i] = c /\ ~InRing(c)
  <2>1. CASE UNCHANGED r
    BY <1>2, <2>1
  <2>2. CASE r' = Append(r, c) /\ ~InRing(c)
    <3>1. /\ r' \in Seq(Clients) /\ DOMAIN r' = 1..(n + 1)
          /\ \A i \in 1..n : r'[i] = r[i]
          /\ r'[n + 1] = c
      BY <1>2, <2>2, AppendProperties, LenProperties
    <3> HIDE DEF r, n
    <3> QED BY <1>2, <2>2, <3>1
  <2> QED BY <2>1, <2>2 DEF RRListener, RegQueue, RegRing, Push
<1>4. \A d \in Clients : Waiting(d) => Waiting(d)'
  <2> SUFFICES ASSUME NEW d \in Clients, Waiting(d) PROVE Waiting(d)'
    OBVIOUS
  <2>1. d \in Registered /\ cid_q_m[d] # <<>>
    BY DEF Waiting
  <2>2. CASE RegQueue(c)
    BY <2>1, <2>2 DEF RegQueue, Waiting, Registered
  <2>3. CASE RegRing(c)
    BY <2>1, <2>3 DEF RegRing, Waiting, Registered
  <2>4. CASE Push(c)
    <3> DEFINE j == JobOf(c, pushed[c] + 1)
    <3>1. cid_q_m[c] \in Seq(Jobs) /\ j \in Jobs
      BY <2>4 DEF Push, RRInv, FCInv, TypeOK, JobOf, Jobs
    <3>2. Append(cid_q_m[c], j) # <<>>
      BY <3>1, AppendProperties, EmptySeq
    <3>3. /\ cid_q_m \in [Registered -> Seq(Jobs)] /\ c \in Registered
          /\ cid_q_m' = [cid_q_m EXCEPT ![c] = Append(@, j)]
      BY <2>4 DEF Push, RRInv, FCInv, TypeOK
    <3> QED BY <2>1, <3>2, <3>3 DEF Waiting, Registered
  <2> QED BY <2>2, <2>3, <2>4 DEF RRListener
<1>5. TurnInv'
  <2> SUFFICES ASSUME NEW d \in Clients, NEW e \in Clients, overtaken[<<d, e>>] = 1
               PROVE  /\ Waiting(d)'
                      /\ \E i, k \in DOMAIN r' : i < k /\ r'[i] = d /\ r'[k] = e
    BY <1>1 DEF RRInv, TurnInv
  <2>1. Waiting(d) /\ \E i, k \in DOMAIN r : i < k /\ r[i] = d /\ r[k] = e
    BY DEF RRInv, TurnInv
  <2> QED BY <1>2, <1>3, <1>4, <2>1
<1>6. \A d \in Clients : pushed_at_call[d] <= pushed'[d]
  <2> SUFFICES ASSUME NEW d \in Clients PROVE pushed_at_call[d] <= pushed'[d]
    OBVIOUS
  <2>1. /\ pushed_at_call[d] \in Nat /\ pushed[d] \in Nat /\ pushed_at_call[d] <= pushed[d]
        /\ pushed \in [Clients -> Nat]
    BY DEF RRInv, VisitInv, FCInv, TypeOK
  <2>2. pushed'[d] \in {pushed[d], pushed[d] + 1}
    BY <2>1 DEF RRListener, RegQueue, RegRing, Push
  <2> QED BY <2>1, <2>2
<1>7. ASSUME pop_pc = "loop", NEW i \in DOMAIN r', popped[r'[i]] < pushed_at_call[r'[i]]
      PROVE  i <= visits_left
  <2>1. CASE i \in 1..n
    BY <1>2, <1>3, <1>7, <2>1 DEF RRInv, VisitInv
  <2>2. CASE i \notin 1..n
    <3>1. r'[i] = c /\ pushed[c] = 0
      BY <1>3, <2>2, WaitingInRing DEF RRInv
    <3>2. pushed_at_call[c] \in Nat /\ popped[c] \in Nat /\ pushed_at_call[c] <= pushed[c]
      BY DEF RRInv, VisitInv, FCInv, TypeOK
    <3> QED BY <1>7, <3>1, <3>2
  <2> QED BY <2>1, <2>2
<1>8. VisitInv'
  BY <1>1, <1>6, <1>7 DEF RRInv, VisitInv
<1> QED
  BY <1>5, <1>8

LEMMA RREnterInv ==
  ASSUME RRInv, RREnter
  PROVE  TurnInv' /\ VisitInv'
<1> DEFINE r == next_cid_to_pop_q
<1>1. /\ pushed_at_call' = pushed /\ visits_left' = Cardinality(Registered)
      /\ UNCHANGED <<cid_q_m, next_cid_to_pop_q, pushed, popped, overtaken>>
  BY DEF RREnter, PopEnter
<1>2. TurnInv'
  BY <1>1 DEF RRInv, TurnInv, Waiting, Registered
<1>3. pushed \in [Clients -> Nat]
  BY DEF RRInv, FCInv, TypeOK
<1>4. \A i \in DOMAIN r : i <= Cardinality(Registered)
  <2> SUFFICES ASSUME NEW i \in DOMAIN r PROVE i <= Cardinality(Registered)
    OBVIOUS
  <2>1. i \in 1..Len(r) /\ Len(r) \in Nat
    BY LenProperties DEF RRInv, FCInv, TypeOK
  <2>2. Len(r) <= Cardinality(Registered) /\ Cardinality(Registered) \in Nat
    BY RingFits, ClientsAssumption, FS_Subset, FS_CardinalityType DEF RRInv, FCInv, TypeOK
  <2> HIDE DEF r
  <2> QED BY <2>1, <2>2
<1>5. VisitInv'
  BY <1>1, <1>3, <1>4 DEF VisitInv
<1> QED
  BY <1>2, <1>5

\* A client that waits and is not at the head comes one place forward, and the
\* client that is popped goes behind everyone.
LEMMA RRHitInv ==
  ASSUME RRInv, RRHit
  PROVE  TurnInv' /\ VisitInv'
<1> DEFINE r == next_cid_to_pop_q
           n == Len(r)
           h == r[1]
<1>1. /\ n \in Nat \ {0} /\ DOMAIN r = 1..n /\ DOMAIN r' = 1..n
      /\ Head(r) = h /\ h \in Clients /\ h \in Registered
      /\ r'[n] = h
      /\ \A i \in 1..n : i # n => r'[i] = r[i + 1]
      /\ \A i, k \in 1..n : r[i] = r[k] => i = k
  BY RotatedRing DEF RRInv, RRHit, PopHit
<1>2. /\ pop_pc' = "idle" /\ UNCHANGED <<pushed, pushed_at_call>>
      /\ cid_q_m' = [cid_q_m EXCEPT ![h] = Tail(@)]
      /\ overtaken' = [p \in Clients \X Clients |->
                         IF p[1] = h THEN 0
                         ELSE IF p[2] = h /\ Waiting(p[1]) THEN overtaken[p] + 1
                         ELSE overtaken[p]]
  BY <1>1 DEF RRHit, PopHit, RecordPop
<1>3. VisitInv'
  BY <1>2 DEF RRInv, VisitInv
<1>4. \A c \in Clients : c # h /\ Waiting(c) => Waiting(c)'
  BY <1>1, <1>2 DEF Waiting, Registered, RRInv, FCInv, TypeOK
<1> HIDE DEF n, h, r
<1>5. ASSUME NEW c \in Clients, overtaken[<<c, h>>] = 1
      PROVE  FALSE
  <2>1. PICK i, k \in 1..n : i < k /\ r[i] = c /\ r[k] = h
    BY <1>1, <1>5 DEF RRInv, TurnInv, r
  <2>2. k = 1
    BY <1>1, <2>1 DEF h
  <2> QED BY <2>1, <2>2
<1>6. \A c, d \in Clients :
        /\ overtaken[<<c, d>>] \in {0, 1}
        /\ overtaken'[<<c, d>>] = IF c = h THEN 0
                                  ELSE IF d = h /\ Waiting(c) THEN overtaken[<<c, d>>] + 1
                                  ELSE overtaken[<<c, d>>]
  BY <1>2 DEF RRInv, TurnInv
<1>7. overtaken' \in [Clients \X Clients -> {0, 1}]
  <2>1. ASSUME NEW p \in Clients \X Clients PROVE overtaken'[p] \in {0, 1}
    <3>1. PICK c, d \in Clients : p = <<c, d>>
      OBVIOUS
    <3>2. d = h => overtaken[<<c, d>>] = 0
      BY <1>5, <1>6
    <3> QED BY <1>6, <3>1, <3>2
  <2> QED BY <1>2, <2>1
<1>8. ASSUME NEW c \in Clients, NEW d \in Clients, overtaken'[<<c, d>>] = 1
      PROVE  /\ Waiting(c)'
             /\ \E i, k \in 1..n : i < k /\ r'[i] = c /\ r'[k] = d
  <2>1. c # h
    BY <1>6, <1>8
  <2>2. CASE d = h
    <3>1. Waiting(c)
      <4>1. overtaken[<<c, d>>] = 0
        BY <1>5, <1>6, <2>2
      <4> QED BY <1>6, <1>8, <2>1, <4>1
    <3>2. PICK i \in 1..n : r[i] = c
      BY <1>1, <3>1, WaitingInRing DEF RRInv, InRing, r
    <3>3. i # 1
      BY <2>1, <3>2 DEF h
    <3>4. i - 1 \in 1..n /\ i - 1 # n /\ (i - 1) + 1 = i /\ i - 1 < n /\ n \in 1..n
      BY <1>1, <3>2, <3>3
    <3>5. r'[i - 1] = c /\ r'[n] = d
      BY <1>1, <2>2, <3>2, <3>4
    <3> QED BY <1>4, <2>1, <3>1, <3>4, <3>5
  <2>3. CASE d # h
    <3>1. overtaken[<<c, d>>] = 1
      BY <1>6, <1>8, <2>1, <2>3
    <3>2. Waiting(c) /\ \E i, k \in 1..n : i < k /\ r[i] = c /\ r[k] = d
      BY <1>1, <3>1 DEF RRInv, TurnInv, r
    <3>3. PICK i, k \in 1..n : i < k /\ r[i] = c /\ r[k] = d
      BY <3>2
    <3>4. i # 1 /\ k # 1
      BY <2>1, <2>3, <3>3 DEF h
    <3>5. /\ i - 1 \in 1..n /\ i - 1 # n /\ (i - 1) + 1 = i
          /\ k - 1 \in 1..n /\ k - 1 # n /\ (k - 1) + 1 = k
          /\ i - 1 < k - 1
      BY <1>1, <3>3, <3>4
    <3>6. r'[i - 1] = c /\ r'[k - 1] = d
      BY <1>1, <3>3, <3>5
    <3> QED BY <1>4, <2>1, <3>2, <3>5, <3>6
  <2> QED BY <2>2, <2>3
<1>9. TurnInv'
  BY <1>1, <1>7, <1>8 DEF TurnInv, r
<1> QED
  BY <1>3, <1>9

\* The head does not wait, so nobody has overtaken it and it has no old job.
LEMMA RRMissInv ==
  ASSUME RRInv, PopMiss, UNCHANGED <<overtaken, pushed_at_call>>
  PROVE  TurnInv' /\ VisitInv'
<1> DEFINE r == next_cid_to_pop_q
           n == Len(r)
           h == r[1]
<1>1. /\ n \in Nat \ {0} /\ DOMAIN r = 1..n /\ DOMAIN r' = 1..n
      /\ Head(r) = h /\ h \in Clients /\ h \in Registered
      /\ r'[n] = h
      /\ \A i \in 1..n : i # n => r'[i] = r[i + 1]
      /\ \A i, k \in 1..n : r[i] = r[k] => i = k
  BY RotatedRing DEF RRInv, PopMiss
<1>2. /\ UNCHANGED <<cid_q_m, pop_pc, pushed, popped>>
      /\ visits_left' = visits_left - 1 /\ visits_left \in Nat \ {0}
      /\ cid_q_m[h] = <<>>
  <2>1. visits_left \in Nat \ {0}
    BY DEF PopMiss, Visiting, RRInv, FCInv, TypeOK
  <2> QED BY <1>1, <2>1 DEF PopMiss
<1>3. ~Waiting(h)
  BY <1>2 DEF Waiting
<1>4. popped[h] = pushed[h] /\ pushed_at_call[h] <= pushed[h]
  BY <1>1, <1>3, WaitingInRing DEF RRInv, VisitInv
<1>5. \A c \in Clients : Waiting(c)' <=> Waiting(c)
  BY <1>2 DEF Waiting, Registered
<1> HIDE DEF n, h, r
<1>6. ASSUME NEW c \in Clients, NEW d \in Clients, overtaken[<<c, d>>] = 1
      PROVE  \E i, k \in 1..n : i < k /\ r'[i] = c /\ r'[k] = d
  <2>1. Waiting(c) /\ \E i, k \in 1..n : i < k /\ r[i] = c /\ r[k] = d
    BY <1>1, <1>6 DEF RRInv, TurnInv, r
  <2>2. PICK i, k \in 1..n : i < k /\ r[i] = c /\ r[k] = d
    BY <2>1
  <2>3. c # h
    BY <1>3, <2>1
  <2>4. i # 1 /\ k # 1
    BY <2>2, <2>3 DEF h
  <2>5. /\ i - 1 \in 1..n /\ i - 1 # n /\ (i - 1) + 1 = i
        /\ k - 1 \in 1..n /\ k - 1 # n /\ (k - 1) + 1 = k
        /\ i - 1 < k - 1
    BY <1>1, <2>2, <2>4
  <2>6. r'[i - 1] = c /\ r'[k - 1] = d
    BY <1>1, <2>2, <2>5
  <2> QED BY <2>5, <2>6
<1>7. TurnInv'
  <2> SUFFICES ASSUME NEW c \in Clients, NEW d \in Clients, overtaken[<<c, d>>] = 1
               PROVE  /\ Waiting(c)'
                      /\ \E i, k \in DOMAIN r' : i < k /\ r'[i] = c /\ r'[k] = d
    BY DEF RRInv, TurnInv, r
  <2>1. Waiting(c)
    BY DEF RRInv, TurnInv
  <2>2. Waiting(c)'
    BY <1>5, <2>1
  <2>3. \E i, k \in 1..n : i < k /\ r'[i] = c /\ r'[k] = d
    BY <1>6
  <2>4. \E i, k \in DOMAIN r' : i < k /\ r'[i] = c /\ r'[k] = d
    BY <1>1, <2>3
  <2> QED BY <2>2, <2>4
<1>8. ASSUME pop_pc = "loop", NEW i \in 1..n, popped[r'[i]] < pushed_at_call[r'[i]]
      PROVE  i <= visits_left - 1
  <2>1. /\ popped[h] \in Nat /\ pushed_at_call[h] \in Nat /\ pushed[h] \in Nat
    BY <1>1 DEF RRInv, VisitInv, FCInv, TypeOK
  <2>2. i # n
    BY <1>1, <1>4, <1>8, <2>1
  <2>3. i + 1 \in 1..n /\ r'[i] = r[i + 1]
    BY <1>1, <2>2
  <2>4. i + 1 <= visits_left
    BY <1>1, <1>8, <2>3 DEF RRInv, VisitInv, r
  <2>5. i \in Nat
    BY <1>1
  <2> QED BY <1>2, <2>4, <2>5
<1>9. VisitInv'
  <2>1. /\ pushed_at_call' \in [Clients -> Nat]
        /\ \A c \in Clients : pushed_at_call'[c] <= pushed'[c]
    BY <1>2 DEF RRInv, VisitInv
  <2>2. pop_pc' = "loop" =>
          \A i \in DOMAIN r' : popped'[r'[i]] < pushed_at_call'[r'[i]] => i <= visits_left'
    BY <1>1, <1>2, <1>8
  <2> QED BY <2>1, <2>2 DEF VisitInv, r
<1> QED
  BY <1>7, <1>9

LEMMA RRStep == RRInv /\ [RRNext]_rrVars => RRInv'
<1> SUFFICES ASSUME RRInv, [RRNext]_rrVars PROVE RRInv'
  OBVIOUS
<1>1. [Next]_fcVars
  BY DEF RRNext, RRListener, RREnter, RRHit, RROther, Next, Pop, rrVars
<1>2. FCInv'
  BY <1>1, FCNextInv DEF RRInv
<1>3. TurnInv' /\ VisitInv'
  <2>1. ASSUME NEW c \in Clients, RRListener(c) PROVE TurnInv' /\ VisitInv'
    BY <2>1, RRListenerInv
  <2>2. CASE RREnter BY <2>2, RREnterInv
  <2>3. CASE RRHit BY <2>3, RRHitInv
  <2>4. CASE RROther
    <3>1. CASE PopMiss BY <2>4, <3>1, RRMissInv DEF RROther
    <3>2. CASE PopIndexError \/ PopNone
      <4>1. /\ pop_pc' # "loop"
            /\ UNCHANGED <<cid_q_m, next_cid_to_pop_q, pushed, overtaken, pushed_at_call>>
        BY <2>4, <3>2 DEF PopIndexError, PopNone, RROther
      <4> QED BY <4>1 DEF RRInv, TurnInv, VisitInv, Waiting, Registered
    <3> QED BY <2>4, <3>1, <3>2 DEF RROther
  <2>5. CASE UNCHANGED rrVars
    BY <2>5 DEF rrVars, fcVars, RRInv, TurnInv, VisitInv, Waiting, Registered
  <2> QED BY <2>1, <2>2, <2>3, <2>4, <2>5 DEF RRNext
<1> QED
  BY <1>2, <1>3 DEF RRInv

-----------------------------------------------------------------------------
\* While a client has a job waiting no other client gets two turns, whatever
\* registers and pushes during the loop of FlowControlServer.pop.
THEOREM RoundRobinIsFair == RRSpec => []OvertakenAtMostOnce
<1>1. RRInv => OvertakenAtMostOnce
  <2> SUFFICES ASSUME RRInv, NEW c \in Clients, NEW d \in Clients
               PROVE  overtaken[<<c, d>>] <= 1
    BY DEF OvertakenAtMostOnce
  <2>1. overtaken[<<c, d>>] \in {0, 1}
    BY DEF RRInv, TurnInv
  <2> QED BY <2>1
<1> QED
  BY <1>1, RRInitInv, RRStep, PTL DEF RRSpec

\* A None from FlowControlServer.pop means that no job from before the call
\* is left in any queue.
THEOREM NoneIsWorthIt == RRSpec => []NoneMissesNoOlderJob
<1>1. RRInv => NoneMissesNoOlderJob
  <2> SUFFICES ASSUME RRInv, pop_pc = "loop", visits_left = 0, NEW c \in Clients
               PROVE  popped[c] >= pushed_at_call[c]
    BY DEF NoneMissesNoOlderJob
  <2>1. /\ popped[c] \in Nat /\ pushed[c] \in Nat /\ pushed_at_call[c] \in Nat
        /\ pushed_at_call[c] <= pushed[c]
    BY DEF RRInv, VisitInv, FCInv, TypeOK
  <2>2. CASE InRing(c)
    <3>1. PICK i \in DOMAIN next_cid_to_pop_q : next_cid_to_pop_q[i] = c
      BY <2>2 DEF InRing
    <3>2. i \in Nat \ {0}
      BY LenProperties DEF RRInv, FCInv, TypeOK
    <3>3. popped[c] < pushed_at_call[c] => i <= 0
      BY <3>1 DEF RRInv, VisitInv
    <3> QED BY <2>1, <3>2, <3>3
  <2>3. CASE ~InRing(c)
    BY <2>1, <2>3, WaitingInRing DEF RRInv
  <2> QED BY <2>2, <2>3
<1> QED
  BY <1>1, RRInitInv, RRStep, PTL DEF RRSpec
=============================================================================
