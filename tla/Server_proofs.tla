---------------------------- MODULE Server_proofs ----------------------------
(***************************************************************************)
(* Proofs about Server, for every set of clients and workers and every     *)
(* number of slots: its types, the conservation of slots, the accounting   *)
(* of jobs, and the refinement of JobService.                              *)
(*                                                                         *)
(* The inductive invariant SInv says, job by job, that a job that left its *)
(* queue is in one place (OnePlace); what the dispatcher and the handler   *)
(* threads have in their local variables (DispatcherInv, HandlerInv); and  *)
(* that the free slots and the jobs that took one add up (CapacityInv).    *)
(* The request queue comes in through FCInv: a step of the server is a     *)
(* step of FlowControlServer or leaves its variables alone.                *)
(***************************************************************************)
EXTENDS Server, FlowControlServer_proofs, Counting_proofs

Occ(j, w) == Occurrences(j, job_q[w])

AtWorker(j, w) ==
  j \in inbox[w] \/ Occ(j, w) > 0 \/ serving[w] = j \/ <<w, j>> \in results

OnceAtWorker(j, w) ==
  /\ Occ(j, w) <= 1
  /\ j \in inbox[w] => Occ(j, w) = 0 /\ serving[w] # j /\ <<w, j>> \notin results
  /\ Occ(j, w) > 0 => serving[w] # j /\ <<w, j>> \notin results
  /\ serving[w] = j => <<w, j>> \notin results

HasLeft(j) == 1 <= j.id /\ j.id <= popped[j.cid]

OnePlace(j) ==
  /\ \A w \in Workers : OnceAtWorker(j, w)
  /\ \A v, w \in Workers : AtWorker(j, v) /\ AtWorker(j, w) => v = w
  /\ j \in Held => j \notin finished /\ j \notin lost
  /\ j \in finished => j \notin lost
  /\ \A w \in Workers : AtWorker(j, w) => j \notin Held /\ j \notin finished /\ j \notin lost
  /\ HasLeft(j) <=> \/ j \in Held \/ j \in finished \/ j \in lost
                    \/ \E w \in Workers : AtWorker(j, w)

DispatcherInv ==
  /\ run_pc \in {"get_wip", "send"} => job \in Jobs /\ job = JobOf(job.cid, popped[job.cid])
  /\ run_pc = "send" => wip \in Workers

HandlerInv ==
  /\ settled \subseteq finished
  /\ \A h \in handling : h.job \in finished /\ h.job \notin settled
  /\ \A g, h \in handling : g.job = h.job => g = h

Taken == Running \cup lost

CapacityInv ==
  /\ IsFiniteSet(Taken)
  /\ Len(wip_q) + Cardinality(Taken) = Cardinality(Workers) * SlotsPerWorker

WorkersInv ==
  /\ IsFiniteSet(results)
  /\ \A w \in Workers : IsFiniteSet(inbox[w]) /\ (w \in mute => serving[w] = None)

PlacesInv == \A j \in Jobs : OnePlace(j)

SInv ==
  /\ FCInv /\ ServerTypeOK /\ WorkersInv
  /\ PlacesInv /\ DispatcherInv /\ HandlerInv
  /\ SlotConservation /\ CapacityInv

-----------------------------------------------------------------------------
(* The operators of the model.                                             *)

LEMMA ToSetMembers ==
  ASSUME NEW s \in Seq(Jobs), NEW j
  PROVE  j \in ToSet(s) <=> Occurrences(j, s) > 0
<1> DEFINE S == {i \in DOMAIN s : s[i] = j}
<1>1. j \in ToSet(s) <=> S # {}
  BY DEF ToSet
<1>2. IsFiniteSet(S)
  BY OccurrencesType
<1> HIDE DEF S
<1>3. S # {} <=> Cardinality(S) > 0
  BY <1>2, FS_EmptySet, FS_CardinalityType
<1> QED
  BY <1>1, <1>3 DEF Occurrences, S

\* A worker holds the jobs of JobsAt and those whose result is on its way.
LEMMA AtWorkerMembers ==
  ASSUME ServerTypeOK, NEW j \in Jobs, NEW w \in Workers
  PROVE  /\ j \in JobsAt(w) <=> j \in inbox[w] \/ Occ(j, w) > 0 \/ serving[w] = j
         /\ AtWorker(j, w) <=> j \in JobsAt(w) \/ <<w, j>> \in results
         /\ Occ(j, w) \in Nat
         /\ JobsAt(w) \subseteq Jobs
<1>1. /\ job_q[w] \in Seq(Jobs) /\ inbox[w] \subseteq Jobs
      /\ serving[w] \in Jobs \cup {None} /\ None \notin Jobs
  BY NoneAssumption DEF ServerTypeOK
<1>2. j \in ToSet(job_q[w]) <=> Occ(j, w) > 0
  BY <1>1, ToSetMembers DEF Occ
<1>3. Occ(j, w) \in Nat
  BY <1>1, OccurrencesType DEF Occ
<1>4. ToSet(job_q[w]) \subseteq Jobs
  <2>1. \A i \in DOMAIN job_q[w] : job_q[w][i] \in Jobs
    BY <1>1, LenProperties, ElementOfSeq
  <2> QED BY <2>1 DEF ToSet
<1>5. j \in JobsAt(w) <=> j \in inbox[w] \/ Occ(j, w) > 0 \/ serving[w] = j
  BY <1>1, <1>2 DEF JobsAt
<1> QED
  BY <1>1, <1>3, <1>4, <1>5 DEF JobsAt, AtWorker

\* The jobs that occupy a slot: one in the hands of the dispatcher with its
\* slot, and those at or on the way from a worker.
LEMMA RunningMembers ==
  ASSUME ServerTypeOK, DispatcherInv, NEW j
  PROVE  j \in Running <=> /\ j \in Jobs
                           /\ \/ run_pc = "send" /\ j = job
                              \/ \E w \in Workers : AtWorker(j, w)
<1>1. results \subseteq Workers \X Jobs
  BY DEF ServerTypeOK
<1>2. j \in {r[2] : r \in results} <=> \E w \in Workers : <<w, j>> \in results
  <2>1. \A r \in results : r = <<r[1], r[2]>> /\ r[1] \in Workers
    BY <1>1
  <2> QED BY <2>1
<1>3. ASSUME NEW w \in Workers, <<w, j>> \in results PROVE j \in Jobs
  BY <1>1, <1>3
<1>4. ASSUME NEW w \in Workers, j \in JobsAt(w) PROVE j \in Jobs
  <2>1. /\ job_q[w] \in Seq(Jobs) /\ inbox[w] \subseteq Jobs
        /\ serving[w] \in Jobs \cup {None}
    BY DEF ServerTypeOK
  <2>2. \A i \in DOMAIN job_q[w] : job_q[w][i] \in Jobs
    BY <2>1, LenProperties, ElementOfSeq
  <2> QED BY <1>4, <2>1, <2>2 DEF JobsAt, ToSet
<1>5. ASSUME j \in Jobs, NEW w \in Workers
      PROVE  AtWorker(j, w) <=> j \in JobsAt(w) \/ <<w, j>> \in results
  BY <1>5, AtWorkerMembers
<1>6. run_pc = "send" => job \in Jobs
  BY DEF DispatcherInv
<1>7. j \in Running <=> \/ run_pc = "send" /\ j = job
                        \/ \E w \in Workers : j \in JobsAt(w)
                        \/ j \in {r[2] : r \in results}
  BY DEF Running
<1> QED
  BY <1>2, <1>3, <1>4, <1>5, <1>6, <1>7

-----------------------------------------------------------------------------
(* The slots at the start.                                                 *)

\* Dividing a by S gives the block of length S that a falls into.
LEMMA BlockOf ==
  ASSUME NEW a \in Nat, NEW S \in Nat \ {0}
  PROVE  /\ a \div S \in Nat
         /\ \A k \in Nat \ {0} : (a \div S) + 1 = k <=> (k - 1) * S <= a /\ a < k * S
<1> DEFINE q == a \div S
<1>1. /\ q \in Int /\ a % S \in 0..(S - 1) /\ a = S * q + (a % S)
  OBVIOUS
<1>2. q \in Nat /\ S * q <= a /\ a < S * q + S
  BY <1>1
<1> HIDE DEF q
<1>3. ASSUME NEW k \in Nat \ {0}
      PROVE  q + 1 = k <=> (k - 1) * S <= a /\ a < k * S
  BY <1>2
<1> QED
  BY <1>2, <1>3 DEF q

\* SetToSeq puts every worker in the order once.
LEMMA WorkerOrder ==
  LET n == Cardinality(Workers)
      order == SetToSeq(Workers)
  IN  /\ n \in Nat /\ Len(order) = n /\ order \in [1..n -> Workers]
      /\ \A w \in Workers : \E k \in 1..n : order[k] = w
      /\ \A k, m \in 1..n : order[k] = order[m] => k = m
<1> DEFINE n == Cardinality(Workers)
           order == SetToSeq(Workers)
<1>1. n \in Nat /\ ExistsBijection(1..n, Workers) /\ IsFiniteSet(Workers)
  BY WorkersAssumption, FS_CardinalityType
<1>2. \E f \in [1..n -> Workers] : IsInjective(f)
  BY <1>1 DEF ExistsBijection, Bijection, Injection
<1>3. order \in [1..n -> Workers] /\ IsInjective(order)
  BY <1>2 DEF SetToSeq
<1> HIDE DEF n, order
<1>4. order \in Injection(1..n, Workers)
  BY <1>3 DEF Injection
<1>5. IsFiniteSet(1..n) /\ Cardinality(1..n) = n
  BY <1>1, FS_Interval
<1>6. order \in Surjection(1..n, Workers)
  <2>1. Cardinality(1..n) = Cardinality(Workers)
    BY <1>5 DEF n
  <2> QED BY <1>1, <1>4, <2>1, FS_Injection
<1>7. Len(order) = n
  BY <1>1, <1>3, LenProperties
<1> QED
  BY <1>1, <1>3, <1>6, <1>7 DEF Surjection, IsInjective, n, order

LEMMA InitialSlotsFacts ==
  /\ InitialSlots \in Seq(Workers)
  /\ Len(InitialSlots) = Cardinality(Workers) * SlotsPerWorker
  /\ \A w \in Workers : Occurrences(w, InitialSlots) = SlotsPerWorker
<1> DEFINE n == Cardinality(Workers)
           order == SetToSeq(Workers)
           S == SlotsPerWorker
<1>1. /\ n \in Nat /\ Len(order) = n /\ order \in [1..n -> Workers]
      /\ \A w \in Workers : \E k \in 1..n : order[k] = w
      /\ \A k, m \in 1..n : order[k] = order[m] => k = m
      /\ S \in Nat \ {0}
  BY WorkerOrder, SlotsAssumption
<1>2. InitialSlots = [i \in 1..(n * S) |-> order[((i - 1) \div S) + 1]]
  BY <1>1 DEF InitialSlots
<1> HIDE DEF n, order, S
<1>3. n * S \in Nat
  BY <1>1
<1>4. ASSUME NEW i \in 1..(n * S)
      PROVE  /\ ((i - 1) \div S) + 1 \in 1..n
             /\ \A k \in 1..n : ((i - 1) \div S) + 1 = k <=> i \in ((k - 1) * S + 1)..(k * S)
  <2> DEFINE a == i - 1
             q == a \div S
  <2>1. a \in Nat /\ i = a + 1 /\ i <= n * S
    BY <1>3
  <2>2. q \in Nat /\ \A k \in Nat \ {0} : q + 1 = k <=> (k - 1) * S <= a /\ a < k * S
    <3> HIDE DEF a
    <3> QED BY <1>1, <2>1, BlockOf
  <2> HIDE DEF a, q
  <2>3. q * S <= a
    BY <1>1, <2>2
  <2>4. q < n
    <3>1. q * S < n * S BY <1>1, <1>3, <2>1, <2>2, <2>3
    <3> QED BY <1>1, <2>2, <3>1
  <2>5. ASSUME NEW k \in 1..n
        PROVE  q + 1 = k <=> i \in ((k - 1) * S + 1)..(k * S)
    <3>1. k \in Nat \ {0} /\ (k - 1) * S \in Nat /\ k * S \in Nat
      BY <1>1
    <3>2. q + 1 = k <=> (k - 1) * S <= a /\ a < k * S
      BY <2>2, <3>1
    <3>3. i \in ((k - 1) * S + 1)..(k * S) <=> (k - 1) * S <= a /\ a < k * S
      <4> DEFINE lo == (k - 1) * S
                 hi == k * S
      <4>1. lo \in Nat /\ hi \in Nat BY <3>1
      <4> HIDE DEF lo, hi
      <4>2. i \in (lo + 1)..hi <=> lo <= a /\ a < hi BY <2>1, <4>1
      <4> QED BY <4>2 DEF lo, hi
    <3> QED BY <3>2, <3>3
  <2>6. q + 1 \in 1..n
    BY <1>1, <2>2, <2>4
  <2> QED
    BY <2>5, <2>6 DEF q, a
<1>5. ASSUME NEW i \in 1..(n * S) PROVE order[((i - 1) \div S) + 1] \in Workers
  BY <1>1, <1>4
<1>6. InitialSlots \in Seq(Workers) /\ Len(InitialSlots) = n * S
  <2> DEFINE m == n * S
  <2>1. m \in Nat /\ InitialSlots \in [1..m -> Workers]
    BY <1>2, <1>3, <1>5
  <2> HIDE DEF m
  <2>2. InitialSlots \in Seq(Workers) /\ Len(InitialSlots) = m
    BY <2>1, SeqDef, LenProperties
  <2> QED BY <2>2 DEF m
<1>7. ASSUME NEW w \in Workers PROVE Occurrences(w, InitialSlots) = S
  <2>1. PICK k \in 1..n : order[k] = w
    BY <1>1
  <2> DEFINE lo == (k - 1) * S
             hi == k * S
             T == {i \in DOMAIN InitialSlots : InitialSlots[i] = w}
  <2>2. lo \in Nat /\ hi = lo + S /\ hi <= n * S
    BY <1>1
  <2>3. ASSUME NEW i \in 1..(n * S)
        PROVE  InitialSlots[i] = w <=> i \in (lo + 1)..hi
    BY <1>1, <1>2, <1>4, <2>1
  <2>4. ASSUME NEW i \in (lo + 1)..hi PROVE i \in 1..(n * S)
    <3> HIDE DEF lo, hi
    <3> QED BY <1>3, <2>2
  <2>5. DOMAIN InitialSlots = 1..(n * S)
    BY <1>2
  <2> HIDE DEF lo, hi
  <2>6. T = (lo + 1)..hi
    BY <2>3, <2>4, <2>5
  <2>7. Cardinality((lo + 1)..hi) = S
    BY <1>1, <2>2, FS_Interval
  <2> QED
    BY <2>6, <2>7 DEF Occurrences
<1> QED
  BY <1>6, <1>7 DEF n, S

-----------------------------------------------------------------------------
(* The initial states.                                                     *)

LEMMA InitialPlaces ==
  ASSUME SInit, NEW j \in Jobs
  PROVE  OnePlace(j)
<1>1. \A w \in Workers : ~ AtWorker(j, w) /\ OnceAtWorker(j, w)
  <2>1. \A w \in Workers : /\ inbox[w] = {} /\ job_q[w] = <<>>
                           /\ serving[w] = None /\ results = {}
    BY DEF SInit
  <2>2. \A w \in Workers : Occ(j, w) = 0
    BY <2>1, OccurrencesEmpty DEF Occ
  <2>3. j # None
    BY NoneAssumption
  <2> QED BY <2>1, <2>2, <2>3 DEF AtWorker, OnceAtWorker
<1>2. Held = {} /\ finished = {} /\ lost = {}
  BY DEF SInit, Held
<1>3. ~ HasLeft(j)
  <2>1. j.cid \in Clients /\ j.id \in Nat
    BY DEF Jobs
  <2>2. popped[j.cid] = 0
    BY <2>1 DEF SInit, Init
  <2> QED BY <2>1, <2>2 DEF HasLeft
<1> QED
  BY <1>1, <1>2, <1>3 DEF OnePlace

LEMMA InitialCounts ==
  ASSUME SInit
  PROVE  SlotConservation /\ CapacityInv
<1>1. \A w \in Workers : Occurrences(w, wip_q) = SlotsPerWorker /\ w \notin crashed \cup mute
  BY InitialSlotsFacts DEF SInit
<1>2. ASSUME NEW w \in Workers PROVE Load(w) = 0
  <2>1. /\ inbox[w] = {} /\ Len(job_q[w]) = 0 /\ {serving[w]} \ {None} = {}
        /\ {r \in results : r[1] = w} = {} /\ run_pc # "send"
    BY DEF SInit
  <2>2. /\ Cardinality(inbox[w]) = 0 /\ Cardinality({serving[w]} \ {None}) = 0
        /\ Cardinality({r \in results : r[1] = w}) = 0
    BY <2>1, FS_EmptySet, Zenon
  <2>3. (IF run_pc = "send" /\ wip = w THEN 1 ELSE 0) = 0
    BY <2>1
  <2> QED BY <2>1, <2>2, <2>3 DEF Load
<1>3. Running = {}
  <2>1. \A w \in Workers : JobsAt(w) = {}
    BY DEF SInit, JobsAt, ToSet
  <2>2. results = {} /\ run_pc # "send"
    BY DEF SInit
  <2> QED BY <2>1, <2>2 DEF Running
<1>4. Taken = {}
  BY <1>3 DEF Taken, SInit
<1>5. Len(wip_q) = Cardinality(Workers) * SlotsPerWorker
  BY InitialSlotsFacts DEF SInit
<1>6. SlotConservation
  BY <1>1, <1>2, SlotsAssumption DEF SlotConservation, FreeSlots
<1>7. Cardinality(Workers) * SlotsPerWorker \in Nat
  BY WorkerOrder, SlotsAssumption
<1>8. CapacityInv
  BY <1>4, <1>5, <1>7, FS_EmptySet DEF CapacityInv
<1> QED
  BY <1>6, <1>8

LEMMA SInitInv == SInit => SInv
<1> SUFFICES ASSUME SInit PROVE SInv
  OBVIOUS
<1>1. FCInv
  BY FCInitInv DEF SInit
<1>2. ServerTypeOK
  BY InitialSlotsFacts, EmptySeq DEF SInit, ServerTypeOK
<1>3. WorkersInv
  BY FS_EmptySet DEF SInit, WorkersInv
<1>4. PlacesInv
  BY InitialPlaces DEF PlacesInv
<1>5. DispatcherInv /\ HandlerInv
  BY DEF SInit, DispatcherInv, HandlerInv
<1> QED
  BY <1>1, <1>2, <1>3, <1>4, <1>5, InitialCounts DEF SInv

-----------------------------------------------------------------------------
(* Steps in general.                                                       *)

\* A step of the server is a step of the request queue or leaves it alone.
LEMMA ServerStepIsQueueStep == [SNext]_serverVars => [Next]_fcVars
<1> SUFFICES ASSUME [SNext]_serverVars PROVE [Next]_fcVars
  OBVIOUS
<1>1. ASSUME NEW c \in Clients, Listener(c) PROVE [Next]_fcVars
  BY <1>1 DEF Listener, HandleReg, HandlePush, CheckFlag, Notify, Next
<1>2. CASE Run
  BY <1>2 DEF Run, RunPop, SetFlag, Wait, ClearFlag, GetWip, SendJob, SendJobFails,
              Next, Pop
<1>3. ASSUME NEW w \in Workers, Worker(w) \/ Crash(w) PROVE [Next]_fcVars
  BY <1>3 DEF Worker, JobReqHandler, HandleJobReq, FindUnattached, AttachSid, AttachSip, PutJob,
              Serve, SendResult, SendResultFails, Crash, workerFrame
<1>4. CASE HandleResult
  BY <1>4 DEF HandleResult, ReturnSlot, SetShare, Reply, handlerFrame
<1>5. CASE UNCHANGED serverVars
  BY <1>5 DEF serverVars
<1> QED
  BY <1>1, <1>2, <1>3, <1>4, <1>5 DEF SNext

\* A step that moves no job and no slot.
Quiet ==
  /\ UNCHANGED <<wip_q, wip, workerVars, crashed, results, finished, lost, popped>>
  /\ (run_pc \in {"get_wip", "send"} \/ run_pc' \in {"get_wip", "send"})
       => UNCHANGED <<run_pc, job>>

LEMMA QuietStep ==
  ASSUME FCInv', WorkersInv, PlacesInv, DispatcherInv, SlotConservation, CapacityInv, Quiet
  PROVE  (WorkersInv /\ PlacesInv /\ DispatcherInv /\ SlotConservation /\ CapacityInv)'
<1>1. /\ UNCHANGED <<wip_q, wip, inbox, job_q, serving, mute, crashed, results, finished,
                     lost, popped>>
      /\ (run_pc \in {"get_wip", "send"} \/ run_pc' \in {"get_wip", "send"})
           => run_pc' = run_pc /\ job' = job
  BY DEF Quiet, workerVars, attachVars
<1>2. Held' = Held
  BY <1>1 DEF Held
<1>3. PlacesInv'
  <2>1. ASSUME NEW j \in Jobs PROVE OnePlace(j)'
    <3>1. OnePlace(j)
      BY DEF PlacesInv
    <3> QED
      BY <1>1, <1>2, <3>1 DEF OnePlace, OnceAtWorker, AtWorker, Occ, HasLeft
  <2> QED BY <2>1 DEF PlacesInv
<1>4. WorkersInv'
  BY <1>1 DEF WorkersInv
<1>5. DispatcherInv'
  BY <1>1 DEF DispatcherInv
<1>6. SlotConservation'
  BY <1>1 DEF SlotConservation, FreeSlots, Load
<1>7. Running' = Running
  BY <1>1 DEF Running, JobsAt
<1>8. CapacityInv'
  BY <1>1, <1>7 DEF CapacityInv, Taken
<1> QED
  BY <1>3, <1>4, <1>5, <1>6, <1>8

-----------------------------------------------------------------------------
(* The dispatcher.                                                         *)

\* What pop() returns is the next job of its client.
LEMMA PopHitEffect ==
  ASSUME FCInv, PopHit
  PROVE  \E c \in Clients :
           /\ job' = JobOf(c, popped[c] + 1) /\ job' \in Jobs
           /\ popped' = [popped EXCEPT ![c] = @ + 1]
           /\ popped[c] \in Nat
           /\ popped[c] + 1 <= pushed[c]
<1> DEFINE c == Head(next_cid_to_pop_q)
           q == cid_q_m[c]
<1>1. c \in Clients /\ c \in Registered
  <2>1. /\ next_cid_to_pop_q \in Seq(Clients) /\ next_cid_to_pop_q # <<>>
    BY DEF FCInv, PopHit, TypeOK
  <2>2. c \in Clients /\ 1 \in DOMAIN next_cid_to_pop_q /\ next_cid_to_pop_q[1] = c
    BY <2>1, RotateEntries, HeadTailProperties
  <2> QED BY <2>2 DEF InRing, FCInv, RingIsComplete
<1>2. /\ q \in Seq(Jobs) /\ q # <<>> /\ job' = Head(q)
      /\ popped' = [popped EXCEPT ![c] = @ + 1] /\ popped[c] \in Nat
      /\ pushed[c] \in Nat
  BY <1>1 DEF PopHit, FCInv, TypeOK
<1>3. /\ popped[c] + Len(q) = pushed[c]
      /\ \A i \in 1..Len(q) : q[i] = JobOf(c, popped[c] + i)
  BY <1>1 DEF FCInv, QueuesAreTheBacklog
<1>4. Head(q) = q[1] /\ Head(q) \in Jobs /\ Len(q) \in Nat \ {0}
  BY <1>2, HeadTailProperties, EmptySeq
<1> HIDE DEF c, q
<1>5. job' = JobOf(c, popped[c] + 1) /\ popped[c] + 1 <= pushed[c]
  BY <1>2, <1>3, <1>4
<1> QED
  BY <1>1, <1>2, <1>4, <1>5

LEMMA JobOfFields ==
  ASSUME NEW c, NEW i
  PROVE  JobOf(c, i).cid = c /\ JobOf(c, i).id = i
BY DEF JobOf

\* A job that is popped comes into the dispatcher's hands.
LEMMA PopHitStep ==
  ASSUME SInv, FCInv', ServerTypeOK', run_pc \in {"pop", "repop"}, PopHit,
         run_pc' = "get_wip",
         UNCHANGED <<wip_q, wip, workerVars, crashed, results, resultVars, lost>>
  PROVE  SInv'
<1>1. PICK c \in Clients : /\ job' = JobOf(c, popped[c] + 1) /\ job' \in Jobs
                           /\ popped' = [popped EXCEPT ![c] = @ + 1]
                           /\ popped[c] \in Nat
  BY PopHitEffect DEF SInv
<1>2. popped \in [Clients -> Nat]
  BY DEF SInv, FCInv, TypeOK
<1>3. /\ UNCHANGED <<wip_q, wip, inbox, job_q, serving, mute, crashed, results, handling,
                     finished, settled, lost>>
      /\ Held = {} /\ Held' = {job'}
  BY DEF workerVars, attachVars, resultVars, Held
<1>4. job'.cid = c /\ job'.id = popped[c] + 1 /\ ~ HasLeft(job')
  BY <1>1, JobOfFields DEF HasLeft
<1>5. ASSUME NEW j \in Jobs
      PROVE  HasLeft(j)' <=> HasLeft(j) \/ j = job'
  <2>1. j.cid \in Clients /\ j.id \in Nat /\ j = [cid |-> j.cid, id |-> j.id]
    BY DEF Jobs
  <2>2. job' = [cid |-> c, id |-> popped[c] + 1]
    BY <1>1 DEF JobOf
  <2>3. CASE j.cid = c
    <3>1. popped'[j.cid] = popped[c] + 1
      BY <1>1, <1>2, <2>3
    <3>2. j = job' <=> j.id = popped[c] + 1
      BY <2>1, <2>2, <2>3
    <3>3. HasLeft(j) <=> 1 <= j.id /\ j.id <= popped[c]
      BY <2>3 DEF HasLeft
    <3>4. HasLeft(j)' <=> 1 <= j.id /\ j.id <= popped[c] + 1
      BY <3>1 DEF HasLeft
    <3> QED BY <1>1, <2>1, <3>2, <3>3, <3>4
  <2>4. CASE j.cid # c
    <3>1. popped'[j.cid] = popped[j.cid] /\ j # job'
      BY <1>1, <1>2, <1>4, <2>1, <2>4
    <3> QED BY <3>1 DEF HasLeft
  <2> QED BY <2>3, <2>4
<1>6. PlacesInv'
  <2> SUFFICES ASSUME NEW j \in Jobs PROVE OnePlace(j)'
    BY DEF PlacesInv
  <2>1. OnePlace(j)
    BY DEF SInv, PlacesInv
  <2>2. \A w \in Workers : /\ AtWorker(j, w)' <=> AtWorker(j, w)
                           /\ OnceAtWorker(j, w)' <=> OnceAtWorker(j, w)
    BY <1>3 DEF AtWorker, OnceAtWorker, Occ
  <2> QED BY <1>3, <1>4, <1>5, <2>1, <2>2 DEF OnePlace
<1>7. DispatcherInv'
  BY <1>1, <1>2, <1>4 DEF DispatcherInv
<1>8. Taken' = Taken
  BY <1>3 DEF Taken, Running, JobsAt
<1>9. /\ run_pc # "send" /\ run_pc' # "send"
      /\ SlotConservation /\ CapacityInv /\ WorkersInv /\ HandlerInv
  BY DEF SInv
<1>10. SlotConservation'
  BY <1>3, <1>9 DEF SlotConservation, FreeSlots, Load
<1>11. CapacityInv' /\ WorkersInv' /\ HandlerInv'
  BY <1>3, <1>8, <1>9 DEF CapacityInv, WorkersInv, HandlerInv
<1> QED
  BY <1>6, <1>7, <1>10, <1>11 DEF SInv

\* Removing the head of wip_q leaves one slot of its worker less.
LEMMA SlotTaken ==
  ASSUME ServerTypeOK, wip_q # <<>>
  PROVE  /\ Head(wip_q) \in Workers /\ Tail(wip_q) \in Seq(Workers)
         /\ Len(wip_q) \in Nat \ {0} /\ Len(Tail(wip_q)) = Len(wip_q) - 1
         /\ \A w \in Workers :
              FreeSlots(w) = Occurrences(w, Tail(wip_q))
                             + (IF Head(wip_q) = w THEN 1 ELSE 0)
<1>1. wip_q \in Seq(Workers)
  BY DEF ServerTypeOK
<1>2. \A w \in Workers : Occurrences(w, wip_q) = Occurrences(w, Tail(wip_q))
                             + (IF Head(wip_q) = w THEN 1 ELSE 0)
  BY <1>1, OccurrencesTail
<1> QED
  BY <1>1, <1>2, HeadTailProperties, EmptySeq DEF FreeSlots

\* The numbers Load adds up: the job the dispatcher is about to send to w,
\* the jobs on their way, in the queue and being served, and the results.
InHand(w) == IF run_pc = "send" /\ wip = w THEN 1 ELSE 0
Arriving(w) == Cardinality(inbox[w])
Queued(w) == Len(job_q[w])
Busy(w) == IF serving[w] = None THEN 0 ELSE 1
Returning(w) == Cardinality({r \in results : r[1] = w})

LEMMA LoadTerms ==
  ServerTypeOK /\ WorkersInv =>
    \A w \in Workers :
      /\ Load(w) = InHand(w) + Arriving(w) + Queued(w) + Busy(w) + Returning(w)
      /\ InHand(w) \in Nat /\ Arriving(w) \in Nat /\ Queued(w) \in Nat
      /\ Busy(w) \in Nat /\ Returning(w) \in Nat /\ FreeSlots(w) \in Nat
<1> SUFFICES ASSUME ServerTypeOK, WorkersInv, NEW w \in Workers
             PROVE  /\ Load(w) = InHand(w) + Arriving(w) + Queued(w) + Busy(w) + Returning(w)
                    /\ InHand(w) \in Nat /\ Arriving(w) \in Nat /\ Queued(w) \in Nat
                    /\ Busy(w) \in Nat /\ Returning(w) \in Nat /\ FreeSlots(w) \in Nat
  OBVIOUS
<1>1. IsFiniteSet(inbox[w]) /\ IsFiniteSet({r \in results : r[1] = w})
  BY FS_Subset DEF WorkersInv
<1>2. Arriving(w) \in Nat /\ Returning(w) \in Nat
  BY <1>1, FS_CardinalityType, Zenon DEF Arriving, Returning
<1>3. Queued(w) \in Nat /\ FreeSlots(w) \in Nat
  BY LenProperties, OccurrencesType DEF Queued, FreeSlots, ServerTypeOK
<1>4. Cardinality({serving[w]} \ {None}) = Busy(w)
  <2>1. CASE serving[w] = None
    <3>1. {serving[w]} \ {None} = {}
      BY <2>1
    <3> QED BY <2>1, <3>1, FS_EmptySet DEF Busy
  <2>2. CASE serving[w] # None
    <3>1. {serving[w]} \ {None} = {serving[w]}
      BY <2>2
    <3>2. Cardinality({serving[w]} \ {None}) = 1
      BY <3>1, FS_Singleton, Zenon
    <3> QED BY <2>2, <3>2 DEF Busy
  <2> QED BY <2>1, <2>2
<1>5. Load(w) = InHand(w) + Arriving(w) + Queued(w) + Cardinality({serving[w]} \ {None})
                  + Returning(w)
  BY DEF Load, InHand, Arriving, Queued, Returning
<1> QED
  BY <1>2, <1>3, <1>4, <1>5 DEF InHand, Busy

LEMMA LoadTermsNext ==
  (ServerTypeOK /\ WorkersInv =>
    \A w \in Workers :
      /\ Load(w) = InHand(w) + Arriving(w) + Queued(w) + Busy(w) + Returning(w)
      /\ InHand(w) \in Nat /\ Arriving(w) \in Nat /\ Queued(w) \in Nat
      /\ Busy(w) \in Nat /\ Returning(w) \in Nat /\ FreeSlots(w) \in Nat)'
BY LoadTerms, PTL

\* The jobs that took a slot and have not given it back.
LEMMA TakenMembers ==
  ServerTypeOK /\ DispatcherInv =>
    \A j : j \in Taken <=> /\ j \in Jobs
                           /\ \/ run_pc = "send" /\ j = job
                              \/ j \in lost
                              \/ \E w \in Workers : AtWorker(j, w)
<1> SUFFICES ASSUME ServerTypeOK, DispatcherInv, NEW j
             PROVE  j \in Taken <=> /\ j \in Jobs
                                    /\ \/ run_pc = "send" /\ j = job
                                       \/ j \in lost
                                       \/ \E w \in Workers : AtWorker(j, w)
  OBVIOUS
<1>1. lost \subseteq Jobs
  BY DEF ServerTypeOK
<1> QED
  BY <1>1, RunningMembers DEF Taken

LEMMA TakenMembersNext ==
  (ServerTypeOK /\ DispatcherInv =>
    \A j : j \in Taken <=> /\ j \in Jobs
                           /\ \/ run_pc = "send" /\ j = job
                              \/ j \in lost
                              \/ \E w \in Workers : AtWorker(j, w))'
BY TakenMembers, PTL

LEMMA GetWipStep ==
  ASSUME SInv, FCInv', GetWip
  PROVE  SInv' /\ Taken' = Taken \cup {job}
<1>1. /\ run_pc = "get_wip" /\ run_pc' = "send" /\ wip_q # <<>>
      /\ wip' = Head(wip_q) /\ wip_q' = Tail(wip_q)
      /\ UNCHANGED <<job, popped, listener_pc, is_waiting_for_ajob, inbox, job_q, serving,
                     sid, sip, attaching, mute, crashed, results, handling, finished, settled, lost>>
  BY DEF GetWip, workerVars, attachVars, resultVars, fcVars
<1>2. /\ ServerTypeOK /\ WorkersInv /\ DispatcherInv /\ HandlerInv /\ PlacesInv
      /\ SlotConservation /\ CapacityInv
  BY DEF SInv
<1>3. /\ wip' \in Workers /\ wip_q' \in Seq(Workers)
      /\ Len(wip_q) \in Nat \ {0} /\ Len(wip_q') = Len(wip_q) - 1
      /\ \A w \in Workers : FreeSlots(w) = Occurrences(w, wip_q') + (IF wip' = w THEN 1 ELSE 0)
  BY <1>1, <1>2, SlotTaken
<1>4. ServerTypeOK'
  BY <1>1, <1>2, <1>3 DEF ServerTypeOK
<1>5. WorkersInv' /\ HandlerInv'
  BY <1>1, <1>2 DEF WorkersInv, HandlerInv
<1>6. job \in Jobs /\ DispatcherInv'
  BY <1>1, <1>2, <1>3 DEF DispatcherInv
<1>7. \A j \in Jobs : \A w \in Workers : /\ AtWorker(j, w)' <=> AtWorker(j, w)
                                         /\ OnceAtWorker(j, w)' <=> OnceAtWorker(j, w)
  BY <1>1 DEF AtWorker, OnceAtWorker, Occ
<1>8. PlacesInv'
  <2>1. Held' = Held
    BY <1>1 DEF Held
  <2> QED BY <1>1, <1>2, <1>7, <2>1 DEF PlacesInv, OnePlace, HasLeft
<1>9. SlotConservation'
  <2> SUFFICES ASSUME NEW w \in Workers
               PROVE  IF w \in crashed'
                      THEN FreeSlots(w)' + Load(w)' <= SlotsPerWorker
                      ELSE FreeSlots(w)' + Load(w)'
                             = SlotsPerWorker - (IF w \in mute' THEN 1 ELSE 0)
    BY DEF SlotConservation
  <2>1. FreeSlots(w) = FreeSlots(w)' + (IF wip' = w THEN 1 ELSE 0)
    BY <1>3 DEF FreeSlots
  <2>2. /\ InHand(w) = 0 /\ InHand(w)' = (IF wip' = w THEN 1 ELSE 0)
        /\ UNCHANGED <<Arriving(w), Queued(w), Busy(w), Returning(w)>>
    BY <1>1 DEF InHand, Arriving, Queued, Busy, Returning
  <2>3. FreeSlots(w)' + Load(w)' = FreeSlots(w) + Load(w)
    BY <1>2, <1>4, <1>5, <2>1, <2>2, LoadTerms, LoadTermsNext
  <2> QED BY <1>1, <1>2, <2>3 DEF SlotConservation
<1>10. job \notin Taken
  <2>1. OnePlace(job) /\ job \in Held
    BY <1>1, <1>2, <1>6 DEF PlacesInv, Held
  <2> QED BY <1>1, <1>2, <2>1, TakenMembers DEF OnePlace
<1>11. Taken' = Taken \cup {job}
  <2>1. \A j : j \in Taken' <=> j \in Taken \/ j = job
    <3>1. \A j : j \in Taken <=> /\ j \in Jobs
                                 /\ j \in lost \/ \E w \in Workers : AtWorker(j, w)
      BY <1>1, <1>2, TakenMembers
    <3>2. \A j : j \in Taken' <=> /\ j \in Jobs
                                  /\ \/ j = job
                                     \/ j \in lost
                                     \/ \E w \in Workers : AtWorker(j, w)'
      BY <1>1, <1>4, <1>6, TakenMembersNext
    <3> QED BY <1>6, <1>7, <3>1, <3>2
  <2> QED BY <2>1
<1>12. CapacityInv'
  <2>1. IsFiniteSet(Taken') /\ Cardinality(Taken') = Cardinality(Taken) + 1
    BY <1>2, <1>10, <1>11, FS_AddElement DEF CapacityInv
  <2>2. Cardinality(Taken) \in Nat
    BY <1>2, FS_CardinalityType DEF CapacityInv
  <2>3. Len(wip_q') + Cardinality(Taken') = Len(wip_q) + Cardinality(Taken)
    <3> DEFINE a == Len(wip_q)
               b == Len(wip_q')
               k == Cardinality(Taken)
               m == Cardinality(Taken')
    <3>1. a \in Nat \ {0} /\ b = a - 1 /\ k \in Nat /\ m = k + 1
      BY <1>3, <2>1, <2>2
    <3> HIDE DEF a, b, k, m
    <3>2. b + m = a + k BY <3>1
    <3> QED BY <3>2 DEF a, b, k, m
  <2> QED BY <1>2, <2>1, <2>3 DEF CapacityInv
<1> QED
  BY <1>4, <1>5, <1>6, <1>8, <1>9, <1>11, <1>12 DEF SInv

\* With the job sent, its slot is the worker's.
LEMMA SendJobStep ==
  ASSUME SInv, FCInv', SendJob
  PROVE  SInv' /\ Taken' = Taken
<1>1. /\ run_pc = "send" /\ run_pc' = "pop" /\ wip \notin crashed
      /\ inbox' = [inbox EXCEPT ![wip] = @ \cup {job}]
      /\ UNCHANGED <<job, popped, listener_pc, is_waiting_for_ajob, wip_q, wip, job_q, serving,
                     sid, sip, attaching, mute, crashed, results, handling, finished, settled, lost>>
  BY DEF SendJob, workerVars, attachVars, resultVars, fcVars
<1>2. /\ ServerTypeOK /\ WorkersInv /\ DispatcherInv /\ HandlerInv /\ PlacesInv
      /\ SlotConservation /\ CapacityInv
  BY DEF SInv
<1>3. job \in Jobs /\ wip \in Workers
  BY <1>1, <1>2 DEF DispatcherInv
<1>4. \A w \in Workers : inbox'[w] = IF w = wip THEN inbox[w] \cup {job} ELSE inbox[w]
  BY <1>1, <1>2 DEF ServerTypeOK
<1>5. ServerTypeOK'
  BY <1>1, <1>2, <1>3, <1>4 DEF ServerTypeOK
<1>6. WorkersInv'
  <2>1. ASSUME NEW w \in Workers PROVE IsFiniteSet(inbox'[w])
    <3>1. IsFiniteSet(inbox[w]) /\ IsFiniteSet(inbox[w] \cup {job})
      BY <1>2, FS_AddElement DEF WorkersInv
    <3>2. inbox'[w] = inbox[w] \/ inbox'[w] = inbox[w] \cup {job}
      BY <1>4
    <3> QED BY <3>1, <3>2, Zenon
  <2> QED BY <1>1, <1>2, <2>1 DEF WorkersInv
<1>7. HandlerInv' /\ DispatcherInv'
  BY <1>1, <1>2 DEF HandlerInv, DispatcherInv
<1>8. OnePlace(job) /\ job \in Held /\ Held = {job} /\ Held' = {}
  BY <1>1, <1>2, <1>3 DEF PlacesInv, Held
<1>9. ASSUME NEW w \in Workers
      PROVE  ~ AtWorker(job, w) /\ (AtWorker(job, w)' <=> w = wip) /\ OnceAtWorker(job, w)'
  <2>1. ~ AtWorker(job, w)
    BY <1>8 DEF OnePlace
  <2>2. Occ(job, w) \in Nat
    BY <1>2, <1>3, AtWorkerMembers
  <2>3. /\ job \notin inbox[w] /\ Occ(job, w) = 0 /\ serving[w] # job
        /\ <<w, job>> \notin results
    BY <2>1, <2>2 DEF AtWorker
  <2>4. Occ(job, w)' = 0 /\ serving'[w] # job' /\ <<w, job'>> \notin results'
    BY <1>1, <2>3 DEF Occ
  <2> QED BY <1>1, <1>4, <2>1, <2>4 DEF AtWorker, OnceAtWorker
<1>10. ASSUME NEW j \in Jobs, j # job, NEW w \in Workers
       PROVE  (AtWorker(j, w)' <=> AtWorker(j, w)) /\ (OnceAtWorker(j, w)' <=> OnceAtWorker(j, w))
  <2>1. j \in inbox'[w] <=> j \in inbox[w]
    BY <1>4, <1>10
  <2> QED BY <1>1, <2>1 DEF AtWorker, OnceAtWorker, Occ
<1>11. PlacesInv'
  <2> SUFFICES ASSUME NEW j \in Jobs PROVE OnePlace(j)'
    BY DEF PlacesInv
  <2>1. OnePlace(j) /\ (HasLeft(j)' <=> HasLeft(j))
    BY <1>1, <1>2 DEF PlacesInv, HasLeft
  <2>2. CASE j = job
    <3>1. /\ \A w \in Workers : OnceAtWorker(j, w)' /\ (AtWorker(j, w)' <=> w = wip)
          /\ j \notin Held' /\ j \notin finished' /\ j \notin lost' /\ HasLeft(j)'
      BY <1>1, <1>8, <1>9, <2>1, <2>2 DEF OnePlace
    <3> QED BY <1>3, <3>1 DEF OnePlace
  <2>3. CASE j # job
    BY <1>1, <1>8, <1>10, <2>1, <2>3 DEF OnePlace
  <2> QED BY <2>2, <2>3
<1>12. SlotConservation'
  <2> SUFFICES ASSUME NEW w \in Workers
               PROVE  FreeSlots(w)' = FreeSlots(w) /\ Load(w)' = Load(w)
    BY <1>1, <1>2 DEF SlotConservation
  <2>1. job \notin inbox[w]
    BY <1>9 DEF AtWorker
  <2>2. Arriving(w)' = Arriving(w) + (IF w = wip THEN 1 ELSE 0)
    <3>1. Cardinality(inbox[w] \cup {job}) = Arriving(w) + 1
      BY <1>2, <2>1, FS_AddElement DEF WorkersInv, Arriving
    <3>2. Arriving(w) \in Nat
      BY <1>2, LoadTerms
    <3>3. CASE w = wip
      <4>1. inbox'[w] = inbox[w] \cup {job}
        BY <1>4, <3>3
      <4>2. Arriving(w)' = Cardinality(inbox[w] \cup {job})
        BY <4>1 DEF Arriving
      <4> QED BY <3>1, <3>2, <3>3, <4>2
    <3>4. CASE w # wip
      <4>1. inbox'[w] = inbox[w]
        BY <1>4, <3>4
      <4>2. Arriving(w)' = Arriving(w)
        BY <4>1 DEF Arriving
      <4> QED BY <3>2, <3>4, <4>2
    <3> QED BY <3>3, <3>4
  <2>3. /\ InHand(w) = (IF w = wip THEN 1 ELSE 0) /\ InHand(w)' = 0
        /\ UNCHANGED <<FreeSlots(w), Queued(w), Busy(w), Returning(w)>>
    BY <1>1 DEF InHand, Queued, Busy, Returning, FreeSlots
  <2> QED BY <1>2, <1>5, <1>6, <2>2, <2>3, LoadTerms, LoadTermsNext
<1>13. Taken' = Taken
  <2>1. ASSUME NEW j PROVE j \in Taken' <=> j \in Taken
    <3>1. j \in Taken <=> /\ j \in Jobs
                          /\ \/ j = job
                             \/ j \in lost
                             \/ \E w \in Workers : AtWorker(j, w)
      BY <1>1, <1>2, TakenMembers
    <3>2. j \in Taken' <=> /\ j \in Jobs
                           /\ j \in lost \/ \E w \in Workers : AtWorker(j, w)'
      BY <1>1, <1>5, <1>7, TakenMembersNext
    <3>3. CASE j = job
      BY <1>1, <1>3, <1>9, <3>1, <3>2, <3>3
    <3>4. CASE j # job
      BY <1>10, <3>1, <3>2, <3>4
    <3> QED BY <3>3, <3>4
  <2> QED BY <2>1
<1>14. CapacityInv'
  BY <1>1, <1>2, <1>13 DEF CapacityInv
<1> QED
  BY <1>5, <1>6, <1>7, <1>11, <1>12, <1>13, <1>14 DEF SInv

\* A job that cannot be sent is lost with the slot.
LEMMA SendJobFailsStep ==
  ASSUME SInv, FCInv', SendJobFails
  PROVE  SInv' /\ Taken' = Taken
<1>1. /\ run_pc = "send" /\ run_pc' = "connect_failed" /\ wip \in crashed
      /\ lost' = lost \cup {job}
      /\ UNCHANGED <<job, popped, listener_pc, is_waiting_for_ajob, wip_q, wip, inbox, job_q,
                     serving, sid, sip, attaching, mute, crashed, results, handling, finished, settled>>
  BY DEF SendJobFails, workerVars, attachVars, resultVars, fcVars
<1>2. /\ ServerTypeOK /\ WorkersInv /\ DispatcherInv /\ HandlerInv /\ PlacesInv
      /\ SlotConservation /\ CapacityInv
  BY DEF SInv
<1>3. job \in Jobs /\ wip \in Workers
  BY <1>1, <1>2 DEF DispatcherInv
<1>4. ServerTypeOK'
  BY <1>1, <1>2, <1>3 DEF ServerTypeOK
<1>5. WorkersInv' /\ HandlerInv' /\ DispatcherInv'
  BY <1>1, <1>2 DEF WorkersInv, HandlerInv, DispatcherInv
<1>6. Held = {job} /\ Held' = {}
  BY <1>1 DEF Held
<1>7. \A j \in Jobs : \A w \in Workers : /\ AtWorker(j, w)' <=> AtWorker(j, w)
                                         /\ OnceAtWorker(j, w)' <=> OnceAtWorker(j, w)
  BY <1>1 DEF AtWorker, OnceAtWorker, Occ
<1>8. PlacesInv'
  <2> SUFFICES ASSUME NEW j \in Jobs PROVE OnePlace(j)'
    BY DEF PlacesInv
  <2>1. OnePlace(j) /\ (HasLeft(j)' <=> HasLeft(j))
    BY <1>1, <1>2 DEF PlacesInv, HasLeft
  <2> QED BY <1>1, <1>6, <1>7, <2>1 DEF OnePlace
<1>9. SlotConservation'
  <2> SUFFICES ASSUME NEW w \in Workers
               PROVE  IF w \in crashed'
                      THEN FreeSlots(w)' + Load(w)' <= SlotsPerWorker
                      ELSE FreeSlots(w)' + Load(w)'
                             = SlotsPerWorker - (IF w \in mute' THEN 1 ELSE 0)
    BY DEF SlotConservation
  <2>1. /\ InHand(w) = (IF w = wip THEN 1 ELSE 0) /\ InHand(w)' = 0
        /\ UNCHANGED <<FreeSlots(w), Arriving(w), Queued(w), Busy(w), Returning(w)>>
    BY <1>1 DEF InHand, Arriving, Queued, Busy, Returning, FreeSlots
  <2>2. /\ w # wip => FreeSlots(w)' + Load(w)' = FreeSlots(w) + Load(w)
        /\ FreeSlots(w)' + Load(w)' <= FreeSlots(w) + Load(w)
        /\ FreeSlots(w) + Load(w) \in Nat /\ FreeSlots(w)' + Load(w)' \in Nat
    BY <1>2, <1>4, <1>5, <2>1, LoadTerms, LoadTermsNext
  <2> QED BY <1>1, <1>2, <2>2, SlotsAssumption DEF SlotConservation
<1>10. Taken' = Taken
  <2>1. ASSUME NEW j PROVE j \in Taken' <=> j \in Taken
    <3>1. j \in Taken <=> /\ j \in Jobs
                          /\ \/ j = job
                             \/ j \in lost
                             \/ \E w \in Workers : AtWorker(j, w)
      BY <1>1, <1>2, TakenMembers
    <3>2. j \in Taken' <=> /\ j \in Jobs
                           /\ j \in lost' \/ \E w \in Workers : AtWorker(j, w)'
      BY <1>1, <1>4, <1>5, TakenMembersNext
    <3> QED BY <1>1, <1>7, <3>1, <3>2
  <2> QED BY <2>1
<1>11. CapacityInv'
  BY <1>1, <1>2, <1>10 DEF CapacityInv
<1> QED
  BY <1>4, <1>5, <1>8, <1>9, <1>10, <1>11 DEF SInv

-----------------------------------------------------------------------------
(* The workers.                                                            *)

\* A step inside the workers moves no job out of its worker.
LEMMA MoveInside ==
  ASSUME SInv, FCInv', ServerTypeOK', WorkersInv',
         UNCHANGED <<run_pc, job, wip, wip_q, popped, mute, crashed, handling, finished, settled,
                     lost>>,
         \A j \in Jobs : \A w \in Workers : /\ AtWorker(j, w)' <=> AtWorker(j, w)
                                            /\ OnceAtWorker(j, w)',
         \A w \in Workers : Load(w)' = Load(w)
  PROVE  SInv' /\ Taken' = Taken
<1>1. /\ run_pc' = run_pc /\ job' = job /\ wip' = wip /\ wip_q' = wip_q /\ popped' = popped
      /\ mute' = mute /\ crashed' = crashed /\ handling' = handling /\ finished' = finished
      /\ settled' = settled /\ lost' = lost
  OBVIOUS
<1>2. /\ ServerTypeOK /\ WorkersInv /\ DispatcherInv /\ HandlerInv /\ PlacesInv
      /\ SlotConservation /\ CapacityInv
  BY DEF SInv
<1>3. HandlerInv' /\ DispatcherInv' /\ Held' = Held
  BY <1>1, <1>2 DEF HandlerInv, DispatcherInv, Held
<1>4. PlacesInv'
  <2> SUFFICES ASSUME NEW j \in Jobs PROVE OnePlace(j)'
    BY DEF PlacesInv
  <2>1. OnePlace(j) /\ (HasLeft(j)' <=> HasLeft(j))
    BY <1>1, <1>2 DEF PlacesInv, HasLeft
  <2> QED BY <1>1, <1>3, <2>1 DEF OnePlace
<1>5. SlotConservation'
  BY <1>1, <1>2 DEF SlotConservation, FreeSlots
<1>6. Taken' = Taken
  <2>1. ASSUME NEW j PROVE j \in Taken' <=> j \in Taken
    BY <1>1, <1>2, <1>3, TakenMembers, TakenMembersNext
  <2> QED BY <2>1
<1>7. CapacityInv'
  BY <1>1, <1>2, <1>6 DEF CapacityInv
<1> QED
  BY <1>3, <1>4, <1>5, <1>6, <1>7 DEF SInv

\* The types of what a handler thread knows.
AttachTypes ==
  sid \subseteq Workers /\ sip \subseteq Workers /\ attaching \subseteq Workers \X Jobs \X {"sid", "sip"}

LEMMA PutJobStep ==
  ASSUME SInv, FCInv', AttachTypes', NEW w \in Workers, NEW k \in inbox[w], PutJob(w, k)
  PROVE  SInv' /\ Taken' = Taken
<1>1. /\ inbox' = [inbox EXCEPT ![w] = @ \ {k}]
      /\ job_q' = [job_q EXCEPT ![w] = Append(@, k)]
  BY DEF PutJob
<1>2. UNCHANGED <<run_pc, job, wip, wip_q, popped, mute, crashed, handling, finished, settled, lost,
                  listener_pc, is_waiting_for_ajob, serving, results>>
  BY DEF PutJob, workerFrame, resultVars, fcVars
<1>3. ServerTypeOK /\ WorkersInv /\ PlacesInv
  BY DEF SInv
<1>4. k \in Jobs /\ job_q[w] \in Seq(Jobs) /\ IsFiniteSet(inbox[w])
  BY <1>1, <1>3 DEF ServerTypeOK, WorkersInv
<1>5. \A v \in Workers : /\ inbox'[v] = IF v = w THEN inbox[w] \ {k} ELSE inbox[v]
                         /\ job_q'[v] = IF v = w THEN Append(job_q[w], k) ELSE job_q[v]
  BY <1>1, <1>3 DEF ServerTypeOK
<1>6. ServerTypeOK'
  BY <1>1, <1>2, <1>3, <1>4, <1>5, AppendProperties DEF ServerTypeOK, AttachTypes
<1>7. WorkersInv'
  BY <1>2, <1>3, <1>5, FS_RemoveElement DEF WorkersInv
<1>8. ASSUME NEW j \in Jobs, NEW v \in Workers
      PROVE  (AtWorker(j, v)' <=> AtWorker(j, v)) /\ OnceAtWorker(j, v)'
  <2>1. OnceAtWorker(j, v) /\ Occ(j, v) \in Nat
    BY <1>3, AtWorkerMembers DEF PlacesInv, OnePlace
  <2>2. CASE v = w /\ j = k
    <3>1. Occ(j, v)' = Occ(j, v) + 1
      BY <1>4, <1>5, <2>2, OccurrencesAppend DEF Occ
    <3>2. j \in inbox[v] /\ j \notin inbox'[v]
      BY <1>5, <2>2
    <3> QED BY <1>2, <2>1, <3>1, <3>2 DEF AtWorker, OnceAtWorker
  <2>3. CASE ~ (v = w /\ j = k)
    <3>1. Occ(j, v)' = Occ(j, v)
      <4>1. CASE v = w
        BY <1>4, <1>5, <2>1, <2>3, <4>1, OccurrencesAppend DEF Occ
      <4>2. CASE v # w
        BY <1>5, <4>2 DEF Occ
      <4> QED BY <4>1, <4>2
    <3>2. j \in inbox'[v] <=> j \in inbox[v]
      BY <1>5, <2>3
    <3> QED BY <1>2, <2>1, <3>1, <3>2 DEF AtWorker, OnceAtWorker
  <2> QED BY <2>2, <2>3
<1>9. ASSUME NEW v \in Workers PROVE Load(v)' = Load(v)
  <2>1. UNCHANGED <<InHand(v), Busy(v), Returning(v)>>
    BY <1>2 DEF InHand, Busy, Returning
  <2>2. Arriving(v)' + Queued(v)' = Arriving(v) + Queued(v)
    <3>1. CASE v = w
      <4>1. Cardinality(inbox[w] \ {k}) = Cardinality(inbox[w]) - 1
        BY <1>1, <1>4, FS_RemoveElement
      <4>2. Len(Append(job_q[w], k)) = Len(job_q[w]) + 1
        BY <1>4, AppendProperties
      <4>3. Arriving(w) \in Nat /\ Queued(w) \in Nat
        BY <1>3, LoadTerms
      <4>4. inbox'[w] = inbox[w] \ {k} /\ job_q'[w] = Append(job_q[w], k)
        BY <1>5
      <4>5. Arriving(w)' = Arriving(w) - 1 /\ Queued(w)' = Queued(w) + 1
        BY <4>1, <4>2, <4>4, Zenon DEF Arriving, Queued
      <4> QED BY <3>1, <4>3, <4>5
    <3>2. CASE v # w
      BY <1>5, <3>2 DEF Arriving, Queued
    <3> QED BY <3>1, <3>2
  <2> QED BY <1>3, <1>6, <1>7, <2>1, <2>2, LoadTerms, LoadTermsNext
<1> QED
  BY <1>2, <1>6, <1>7, <1>8, <1>9, MoveInside

\* Until a job is put its handler only moves on between the assignments.
LEMMA AttachingStep ==
  ASSUME SInv, FCInv', AttachTypes',
         UNCHANGED <<workerFrame, inbox, job_q, serving, mute, crashed, results, lost>>
  PROVE  SInv' /\ Taken' = Taken
<1>1. UNCHANGED <<run_pc, job, wip, wip_q, popped, mute, crashed, handling, finished, settled, lost,
                  listener_pc, is_waiting_for_ajob, inbox, job_q, serving, results>>
  BY DEF workerFrame, resultVars, fcVars
<1>2. ServerTypeOK /\ WorkersInv /\ PlacesInv
  BY DEF SInv
<1>3. ServerTypeOK' /\ WorkersInv'
  BY <1>1, <1>2 DEF ServerTypeOK, AttachTypes, WorkersInv
<1>4. ASSUME NEW j \in Jobs, NEW v \in Workers
      PROVE  (AtWorker(j, v)' <=> AtWorker(j, v)) /\ OnceAtWorker(j, v)'
  BY <1>1, <1>2 DEF PlacesInv, OnePlace, AtWorker, OnceAtWorker, Occ
<1>5. \A v \in Workers : Load(v)' = Load(v)
  BY <1>1 DEF Load
<1> QED
  BY <1>1, <1>3, <1>4, <1>5, MoveInside

LEMMA JobReqHandlerStep ==
  ASSUME SInv, FCInv', NEW w \in Workers, JobReqHandler(w)
  PROVE  SInv' /\ Taken' = Taken
<1>1. AttachTypes /\ \A j \in inbox[w] : j \in Jobs
  BY DEF SInv, ServerTypeOK, AttachTypes
<1>2. PICK j \in inbox[w] : \/ HandleJobReq(w, j) \/ FindUnattached(w, j)
                            \/ AttachSid(w, j) \/ AttachSip(w, j)
  BY DEF JobReqHandler
<1>3. AttachTypes'
  BY <1>1, <1>2 DEF AttachTypes, HandleJobReq, FindUnattached, AttachSid, AttachSip
<1>4. CASE HandleJobReq(w, j) \/ AttachSip(w, j)
  BY <1>2, <1>3, <1>4, PutJobStep DEF HandleJobReq, AttachSip
<1>5. CASE FindUnattached(w, j) \/ AttachSid(w, j)
  BY <1>3, <1>5, AttachingStep DEF FindUnattached, AttachSid
<1> QED
  BY <1>2, <1>4, <1>5

LEMMA ServeStep ==
  ASSUME SInv, FCInv', NEW w \in Workers, Serve(w)
  PROVE  SInv' /\ Taken' = Taken
<1> DEFINE k == Head(job_q[w])
<1>1. /\ serving[w] = None /\ w \notin mute /\ job_q[w] # <<>>
      /\ serving' = [serving EXCEPT ![w] = k]
      /\ job_q' = [job_q EXCEPT ![w] = Tail(@)]
  BY DEF Serve
<1>2. UNCHANGED <<run_pc, job, wip, wip_q, popped, sid, sip, attaching, mute, crashed, handling,
                  finished, settled, lost, listener_pc, is_waiting_for_ajob, inbox, results>>
  BY DEF Serve, workerFrame, attachVars, resultVars, fcVars
<1>3. ServerTypeOK /\ WorkersInv /\ PlacesInv
  BY DEF SInv
<1>4. /\ job_q[w] \in Seq(Jobs) /\ k \in Jobs /\ k # None
      /\ Tail(job_q[w]) \in Seq(Jobs) /\ Len(Tail(job_q[w])) = Len(job_q[w]) - 1
      /\ Len(job_q[w]) \in Nat
  BY <1>1, <1>3, HeadTailProperties, LenProperties, NoneAssumption DEF ServerTypeOK
<1> HIDE DEF k
<1>5. \A v \in Workers : /\ serving'[v] = IF v = w THEN k ELSE serving[v]
                         /\ job_q'[v] = IF v = w THEN Tail(job_q[w]) ELSE job_q[v]
  BY <1>1, <1>3 DEF ServerTypeOK
<1>6. ServerTypeOK'
  BY <1>1, <1>2, <1>3, <1>4, <1>5 DEF ServerTypeOK
<1>7. WorkersInv'
  BY <1>1, <1>2, <1>3, <1>5 DEF WorkersInv
<1>8. ASSUME NEW j \in Jobs, NEW v \in Workers
      PROVE  (AtWorker(j, v)' <=> AtWorker(j, v)) /\ OnceAtWorker(j, v)'
  <2>1. OnceAtWorker(j, v) /\ Occ(j, v) \in Nat
    BY <1>3, AtWorkerMembers DEF PlacesInv, OnePlace
  <2>2. CASE v = w
    <3>1. Occ(j, v) = Occ(j, v)' + (IF k = j THEN 1 ELSE 0) /\ Occ(j, v)' \in Nat
      <4>1. Occurrences(j, job_q[w]) = Occurrences(j, Tail(job_q[w])) + (IF k = j THEN 1 ELSE 0)
        BY <1>1, <1>4, OccurrencesTail DEF k
      <4>2. Occurrences(j, Tail(job_q[w])) \in Nat
        BY <1>4, OccurrencesType
      <4> QED BY <1>5, <2>2, <4>1, <4>2 DEF Occ
    <3>2. serving[v] # j /\ serving'[v] = k
      BY <1>1, <1>5, <2>2, NoneAssumption
    <3> QED BY <1>2, <2>1, <3>1, <3>2 DEF AtWorker, OnceAtWorker
  <2>3. CASE v # w
    <3>1. serving'[v] = serving[v] /\ Occ(j, v)' = Occ(j, v)
      BY <1>5, <2>3 DEF Occ
    <3> QED BY <1>2, <2>1, <3>1 DEF AtWorker, OnceAtWorker
  <2> QED BY <2>2, <2>3
<1>9. ASSUME NEW v \in Workers PROVE Load(v)' = Load(v)
  <2>1. UNCHANGED <<InHand(v), Arriving(v), Returning(v)>>
    BY <1>2 DEF InHand, Arriving, Returning
  <2>2. Queued(v)' + Busy(v)' = Queued(v) + Busy(v)
    <3>1. CASE v = w
      <4>1. Queued(v)' = Queued(v) - 1 /\ Queued(v) \in Nat
        BY <1>4, <1>5, <3>1 DEF Queued
      <4>2. Busy(v) = 0 /\ Busy(v)' = 1
        BY <1>1, <1>4, <1>5, <3>1 DEF Busy
      <4> QED BY <4>1, <4>2
    <3>2. CASE v # w
      BY <1>5, <3>2 DEF Queued, Busy
    <3> QED BY <3>1, <3>2
  <2> QED BY <1>3, <1>6, <1>7, <2>1, <2>2, LoadTerms, LoadTermsNext
<1> QED
  BY <1>2, <1>6, <1>7, <1>8, <1>9, MoveInside

LEMMA SendResultStep ==
  ASSUME SInv, FCInv', NEW w \in Workers, SendResult(w)
  PROVE  SInv' /\ Taken' = Taken
<1> DEFINE k == serving[w]
<1>1. /\ k # None
      /\ results' = results \cup {<<w, k>>}
      /\ serving' = [serving EXCEPT ![w] = None]
  BY DEF SendResult
<1>2. UNCHANGED <<run_pc, job, wip, wip_q, popped, sid, sip, attaching, mute, crashed, handling,
                  finished, settled, lost, listener_pc, is_waiting_for_ajob, inbox, job_q>>
  BY DEF SendResult, workerFrame, attachVars, resultVars, fcVars
<1>3. ServerTypeOK /\ WorkersInv /\ PlacesInv
  BY DEF SInv
<1>4. k \in Jobs
  BY <1>1, <1>3 DEF ServerTypeOK
<1>5. \A v \in Workers : serving'[v] = IF v = w THEN None ELSE serving[v]
  BY <1>1, <1>3 DEF ServerTypeOK
<1>6. <<w, k>> \notin results
  BY <1>3, <1>4 DEF PlacesInv, OnePlace, OnceAtWorker
<1> HIDE DEF k
<1>7. ServerTypeOK'
  BY <1>1, <1>2, <1>3, <1>4, <1>5 DEF ServerTypeOK
<1>8. WorkersInv'
  BY <1>1, <1>2, <1>3, <1>5, FS_AddElement DEF WorkersInv
<1>9. ASSUME NEW j \in Jobs, NEW v \in Workers
      PROVE  (AtWorker(j, v)' <=> AtWorker(j, v)) /\ OnceAtWorker(j, v)'
  <2>1. OnceAtWorker(j, v)
    BY <1>3 DEF PlacesInv, OnePlace
  <2>2. Occ(j, v)' = Occ(j, v) /\ inbox'[v] = inbox[v] /\ j # None
    BY <1>2, NoneAssumption DEF Occ
  <2>3. <<v, j>> \in results' <=> <<v, j>> \in results \/ (v = w /\ j = k)
    BY <1>1
  <2>4. CASE v = w
    <3>1. serving'[v] = None /\ serving[v] = k
      BY <1>5, <2>4 DEF k
    <3> QED BY <1>6, <2>1, <2>2, <2>3, <2>4, <3>1 DEF AtWorker, OnceAtWorker
  <2>5. CASE v # w
    <3>1. serving'[v] = serving[v]
      BY <1>5, <2>5
    <3> QED BY <2>1, <2>2, <2>3, <2>5, <3>1 DEF AtWorker, OnceAtWorker
  <2> QED BY <2>4, <2>5
<1>10. ASSUME NEW v \in Workers PROVE Load(v)' = Load(v)
  <2>1. UNCHANGED <<InHand(v), Arriving(v), Queued(v)>>
    BY <1>2 DEF InHand, Arriving, Queued
  <2>2. Busy(v)' + Returning(v)' = Busy(v) + Returning(v)
    <3> DEFINE R == {r \in results : r[1] = v}
    <3>1. IsFiniteSet(R)
      BY <1>3, FS_Subset DEF WorkersInv
    <3>2. CASE v = w
      <4>1. {r \in results' : r[1] = v} = R \cup {<<w, k>>} /\ <<w, k>> \notin R
        BY <1>1, <1>6, <3>2
      <4> HIDE DEF R
      <4>2. Cardinality({r \in results' : r[1] = v}) = Cardinality(R) + 1
        BY <3>1, <4>1, FS_AddElement
      <4>3. Cardinality(R) \in Nat
        BY <3>1, FS_CardinalityType
      <4>4. Returning(v)' = Returning(v) + 1 /\ Returning(v) \in Nat
        BY <4>2, <4>3 DEF Returning, R
      <4>5. Busy(v) = 1 /\ Busy(v)' = 0
        BY <1>1, <1>5, <3>2 DEF Busy, k
      <4> QED BY <4>4, <4>5
    <3>3. CASE v # w
      <4>1. {r \in results' : r[1] = v} = R
        BY <1>1, <3>3
      <4> QED BY <1>5, <3>3, <4>1 DEF Returning, Busy
    <3> QED BY <3>2, <3>3
  <2>3. /\ Load(v) = InHand(v) + Arriving(v) + Queued(v) + Busy(v) + Returning(v)
        /\ Load(v)' = InHand(v)' + Arriving(v)' + Queued(v)' + Busy(v)' + Returning(v)'
        /\ InHand(v) \in Nat /\ Arriving(v) \in Nat /\ Queued(v) \in Nat
        /\ Busy(v) \in Nat /\ Returning(v) \in Nat
        /\ Busy(v)' \in Nat /\ Returning(v)' \in Nat
    BY <1>3, <1>7, <1>8, LoadTerms, LoadTermsNext
  <2> QED BY <2>1, <2>2, <2>3
<1> QED
  BY <1>2, <1>7, <1>8, <1>9, <1>10, MoveInside

\* A result that cannot be sent is lost with its slot, and the serving thread
\* never serves again.
LEMMA SendResultFailsStep ==
  ASSUME SInv, FCInv', NEW w \in Workers, SendResultFails(w)
  PROVE  SInv' /\ Taken' = Taken
<1>1. PICK k : serving[w] = k
  OBVIOUS
<1>2. /\ k # None /\ lost' = lost \cup {k} /\ mute' = mute \cup {w}
      /\ serving' = [serving EXCEPT ![w] = None]
      /\ UNCHANGED <<run_pc, job, wip, wip_q, popped, sid, sip, attaching, crashed, handling,
                     finished, settled, listener_pc, is_waiting_for_ajob, inbox, job_q, results>>
  BY <1>1 DEF SendResultFails, workerFrame, resultVars, fcVars
<1>3. /\ ServerTypeOK /\ WorkersInv /\ DispatcherInv /\ HandlerInv /\ PlacesInv
      /\ SlotConservation /\ CapacityInv
  BY DEF SInv
<1>4. k \in Jobs /\ w \notin mute
  BY <1>2, <1>3, <1>1 DEF ServerTypeOK, WorkersInv
<1>5. \A v \in Workers : serving'[v] = IF v = w THEN None ELSE serving[v]
  BY <1>2, <1>3 DEF ServerTypeOK
<1>6. ServerTypeOK'
  BY <1>2, <1>3, <1>4, <1>5 DEF ServerTypeOK
<1>7. WorkersInv'
  BY <1>2, <1>3, <1>5 DEF WorkersInv
<1>8. HandlerInv' /\ DispatcherInv' /\ Held' = Held
  BY <1>2, <1>3 DEF HandlerInv, DispatcherInv, Held
<1>9. /\ OnePlace(k) /\ AtWorker(k, w) /\ OnceAtWorker(k, w)
      /\ k \notin finished /\ k \notin lost /\ k \notin Held /\ HasLeft(k)
      /\ \A v \in Workers : AtWorker(k, v) => v = w
  BY <1>3, <1>4, <1>1 DEF PlacesInv, OnePlace, AtWorker
<1>10. \A v \in Workers : ~ AtWorker(k, v)' /\ OnceAtWorker(k, v)'
  <2>1. Occ(k, w) \in Nat
    BY <1>3, <1>4, AtWorkerMembers
  <2>2. ~ AtWorker(k, w)'
    BY <1>2, <1>5, <1>1, <1>9, <2>1 DEF AtWorker, OnceAtWorker, Occ
  <2>3. ASSUME NEW v \in Workers, v # w PROVE ~ AtWorker(k, v)'
    BY <1>2, <1>5, <1>9, <2>3 DEF AtWorker, Occ
  <2>4. \A v \in Workers : OnceAtWorker(k, v)
    BY <1>3, <1>4 DEF PlacesInv, OnePlace
  <2>5. \A v \in Workers : OnceAtWorker(k, v)'
    BY <1>2, <1>5, <2>4 DEF OnceAtWorker, Occ
  <2> QED BY <2>2, <2>3, <2>5
<1>11. ASSUME NEW j \in Jobs, j # k, NEW v \in Workers
       PROVE  (AtWorker(j, v)' <=> AtWorker(j, v)) /\ (OnceAtWorker(j, v)' <=> OnceAtWorker(j, v))
  <2>1. serving'[v] = j <=> serving[v] = j
    BY <1>5, <1>1, <1>11, NoneAssumption
  <2> QED BY <1>2, <2>1 DEF AtWorker, OnceAtWorker, Occ
<1>12. PlacesInv'
  <2> SUFFICES ASSUME NEW j \in Jobs PROVE OnePlace(j)'
    BY DEF PlacesInv
  <2>1. OnePlace(j) /\ (HasLeft(j)' <=> HasLeft(j))
    BY <1>2, <1>3 DEF PlacesInv, HasLeft
  <2>2. CASE j = k
    <3>1. /\ k \in lost' /\ k \notin finished' /\ k \notin Held' /\ HasLeft(k)'
      BY <1>2, <1>8, <1>9, <2>1, <2>2
    <3> QED BY <1>10, <2>2, <3>1 DEF OnePlace
  <2>3. CASE j # k
    <3>1. j \in lost' <=> j \in lost
      BY <1>2, <2>3
    <3> QED BY <1>2, <1>8, <1>11, <2>1, <2>3, <3>1 DEF OnePlace
  <2> QED BY <2>2, <2>3
<1>13. SlotConservation'
  <2> SUFFICES ASSUME NEW v \in Workers
               PROVE  IF v \in crashed'
                      THEN FreeSlots(v)' + Load(v)' <= SlotsPerWorker
                      ELSE FreeSlots(v)' + Load(v)'
                             = SlotsPerWorker - (IF v \in mute' THEN 1 ELSE 0)
    BY DEF SlotConservation
  <2>1. UNCHANGED <<FreeSlots(v), InHand(v), Arriving(v), Queued(v), Returning(v)>>
    BY <1>2 DEF FreeSlots, InHand, Arriving, Queued, Returning
  <2>2. Busy(v) = Busy(v)' + (IF v = w THEN 1 ELSE 0)
    BY <1>2, <1>5, <1>1 DEF Busy
  <2> DEFINE a == FreeSlots(v) + Load(v)
             b == FreeSlots(v)' + Load(v)'
  <2>3. a \in Nat /\ b = a - (IF v = w THEN 1 ELSE 0)
    BY <1>3, <1>6, <1>7, <2>1, <2>2, LoadTerms, LoadTermsNext
  <2>4. /\ a \in Nat /\ b = a - (IF v = w THEN 1 ELSE 0)
        /\ IF v \in crashed THEN a <= SlotsPerWorker
           ELSE a = SlotsPerWorker - (IF v \in mute THEN 1 ELSE 0)
    <3>1. IF v \in crashed THEN a <= SlotsPerWorker
          ELSE a = SlotsPerWorker - (IF v \in mute THEN 1 ELSE 0)
      BY <1>3, Zenon DEF SlotConservation
    <3> HIDE DEF a, b
    <3> QED BY <2>3, <3>1
  <2> HIDE DEF a, b
  <2>5. IF v \in crashed THEN b <= SlotsPerWorker
        ELSE b = SlotsPerWorker - (IF v \in mute' THEN 1 ELSE 0)
    BY <1>2, <1>4, <2>4, SlotsAssumption
  <2> QED BY <1>2, <2>5 DEF a, b
<1>14. Taken' = Taken
  <2>1. ASSUME NEW j PROVE j \in Taken' <=> j \in Taken
    <3>1. /\ j \in Taken <=> /\ j \in Jobs
                             /\ \/ run_pc = "send" /\ j = job
                                \/ j \in lost
                                \/ \E v \in Workers : AtWorker(j, v)
          /\ j \in Taken' <=> /\ j \in Jobs
                              /\ \/ run_pc = "send" /\ j = job
                                 \/ j \in lost'
                                 \/ \E v \in Workers : AtWorker(j, v)'
      BY <1>2, <1>3, <1>6, <1>8, TakenMembers, TakenMembersNext
    <3>2. j \in lost' <=> j \in lost \/ j = k
      BY <1>2
    <3>3. CASE j = k
      BY <1>4, <1>9, <3>1, <3>2, <3>3
    <3>4. CASE j # k
      BY <1>11, <3>1, <3>2, <3>4
    <3> QED BY <3>3, <3>4
  <2> QED BY <2>1
<1>15. CapacityInv'
  BY <1>2, <1>3, <1>14 DEF CapacityInv
<1> QED
  BY <1>6, <1>7, <1>8, <1>12, <1>13, <1>14, <1>15 DEF SInv

\* The jobs at a worker that crashes are lost; the results it has sent are not.
LEMMA CrashStep ==
  ASSUME SInv, FCInv', NEW w \in Workers, Crash(w)
  PROVE  SInv' /\ Taken' = Taken
<1>1. /\ w \notin crashed /\ crashed' = crashed \cup {w} /\ lost' = lost \cup JobsAt(w)
      /\ inbox' = [inbox EXCEPT ![w] = {}]
      /\ job_q' = [job_q EXCEPT ![w] = <<>>]
      /\ serving' = [serving EXCEPT ![w] = None]
      /\ attaching' \subseteq attaching
      /\ UNCHANGED <<run_pc, job, wip, wip_q, popped, handling, finished, settled,
                     listener_pc, is_waiting_for_ajob, sid, sip, mute, results>>
  BY DEF Crash, workerFrame, attachVars, resultVars, fcVars
<1>2. /\ ServerTypeOK /\ WorkersInv /\ DispatcherInv /\ HandlerInv /\ PlacesInv
      /\ SlotConservation /\ CapacityInv
  BY DEF SInv
<1>3. \A v \in Workers : /\ inbox'[v] = IF v = w THEN {} ELSE inbox[v]
                         /\ job_q'[v] = IF v = w THEN <<>> ELSE job_q[v]
                         /\ serving'[v] = IF v = w THEN None ELSE serving[v]
  BY <1>1, <1>2 DEF ServerTypeOK
<1>4. JobsAt(w) \subseteq Jobs
  <2>1. CASE Jobs = {}
    <3>1. /\ inbox[w] = {} /\ job_q[w] \in Seq({}) /\ serving[w] = None
      BY <1>2, <2>1 DEF ServerTypeOK
    <3>2. ToSet(job_q[w]) = {}
      <4>1. \A i \in DOMAIN job_q[w] : job_q[w][i] \in {}
        BY <3>1, LenProperties, ElementOfSeq
      <4> QED BY <4>1 DEF ToSet
    <3> QED BY <3>1, <3>2 DEF JobsAt
  <2>2. CASE Jobs # {}
    BY <1>2, <2>2, AtWorkerMembers
  <2> QED BY <2>1, <2>2
<1>5. ServerTypeOK'
  BY <1>1, <1>2, <1>3, <1>4, EmptySeq DEF ServerTypeOK
<1>6. WorkersInv'
  BY <1>1, <1>2, <1>3, FS_EmptySet DEF WorkersInv
<1>7. HandlerInv' /\ DispatcherInv' /\ Held' = Held
  BY <1>1, <1>2 DEF HandlerInv, DispatcherInv, Held
<1>8. ASSUME NEW j \in Jobs
      PROVE  /\ AtWorker(j, w)' <=> <<w, j>> \in results
             /\ \A v \in Workers : v # w => (AtWorker(j, v)' <=> AtWorker(j, v))
             /\ \A v \in Workers : OnceAtWorker(j, v)'
             /\ AtWorker(j, w) <=> j \in JobsAt(w) \/ <<w, j>> \in results
             /\ j \in JobsAt(w) => <<w, j>> \notin results
  <2>1. Occ(j, w)' = 0 /\ inbox'[w] = {} /\ serving'[w] = None /\ results' = results
    BY <1>1, <1>3, OccurrencesEmpty DEF Occ
  <2>2. j # None
    BY NoneAssumption
  <2>3. \A v \in Workers : OnceAtWorker(j, v)
    BY <1>2 DEF PlacesInv, OnePlace
  <2>4. \A v \in Workers : v # w => (AtWorker(j, v)' <=> AtWorker(j, v)) /\ OnceAtWorker(j, v)'
    BY <1>1, <1>3, <2>3 DEF AtWorker, OnceAtWorker, Occ
  <2>5. (AtWorker(j, w)' <=> <<w, j>> \in results) /\ OnceAtWorker(j, w)'
    BY <2>1, <2>2 DEF AtWorker, OnceAtWorker
  <2>6. /\ j \in JobsAt(w) <=> j \in inbox[w] \/ Occ(j, w) > 0 \/ serving[w] = j
        /\ AtWorker(j, w) <=> j \in JobsAt(w) \/ <<w, j>> \in results
    BY <1>2, AtWorkerMembers
  <2>7. j \in JobsAt(w) => <<w, j>> \notin results
    BY <2>3, <2>6 DEF OnceAtWorker
  <2> QED BY <2>4, <2>5, <2>6, <2>7
<1>9. PlacesInv'
  <2> SUFFICES ASSUME NEW j \in Jobs PROVE OnePlace(j)'
    BY DEF PlacesInv
  <2>1. OnePlace(j) /\ (HasLeft(j)' <=> HasLeft(j))
    BY <1>1, <1>2 DEF PlacesInv, HasLeft
  <2>2. CASE j \in JobsAt(w)
    <3>1. AtWorker(j, w) /\ \A v \in Workers : AtWorker(j, v) => v = w
      BY <1>8, <2>1, <2>2 DEF OnePlace
    <3>2. \A v \in Workers : ~ AtWorker(j, v)'
      BY <1>8, <2>2, <3>1
    <3>3. j \in lost' /\ j \notin Held' /\ j \notin finished' /\ HasLeft(j)'
      BY <1>1, <1>7, <2>1, <2>2, <3>1 DEF OnePlace
    <3> QED BY <1>8, <3>2, <3>3 DEF OnePlace
  <2>3. CASE j \notin JobsAt(w)
    <3>1. \A v \in Workers : AtWorker(j, v)' <=> AtWorker(j, v)
      BY <1>8, <2>3
    <3>2. j \in lost' <=> j \in lost
      BY <1>1, <2>3
    <3> QED BY <1>1, <1>7, <1>8, <2>1, <3>1, <3>2 DEF OnePlace
  <2> QED BY <2>2, <2>3
<1>10. SlotConservation'
  <2> SUFFICES ASSUME NEW v \in Workers
               PROVE  IF v \in crashed'
                      THEN FreeSlots(v)' + Load(v)' <= SlotsPerWorker
                      ELSE FreeSlots(v)' + Load(v)'
                             = SlotsPerWorker - (IF v \in mute' THEN 1 ELSE 0)
    BY DEF SlotConservation
  <2>1. UNCHANGED <<FreeSlots(v), InHand(v), Returning(v)>>
    BY <1>1 DEF FreeSlots, InHand, Returning
  <2>2. CASE v # w
    <3>1. UNCHANGED <<Arriving(v), Queued(v), Busy(v)>>
      BY <1>3, <2>2 DEF Arriving, Queued, Busy
    <3>2. Load(v)' = Load(v)
      BY <1>2, <1>5, <1>6, <2>1, <3>1, LoadTerms, LoadTermsNext
    <3> QED BY <1>1, <1>2, <2>1, <2>2, <3>2 DEF SlotConservation
  <2>3. CASE v = w
    <3>1. Arriving(v)' = 0 /\ Queued(v)' = 0 /\ Busy(v)' = 0
      BY <1>3, <2>3, FS_EmptySet DEF Arriving, Queued, Busy
    <3>2. FreeSlots(v)' + Load(v)' <= FreeSlots(v) + Load(v)
      BY <1>2, <1>5, <1>6, <2>1, <3>1, LoadTerms, LoadTermsNext
    <3>3. FreeSlots(v) + Load(v) <= SlotsPerWorker /\ v \in crashed'
      BY <1>1, <1>2, <2>3, SlotsAssumption DEF SlotConservation
    <3>4. /\ FreeSlots(v) + Load(v) \in Nat /\ FreeSlots(v)' + Load(v)' \in Nat
      BY <1>2, <1>5, <1>6, LoadTerms, LoadTermsNext
    <3> QED BY <3>2, <3>3, <3>4, SlotsAssumption
  <2> QED BY <2>2, <2>3
<1>11. Taken' = Taken
  <2>1. ASSUME NEW j \in Jobs PROVE j \in Taken' <=> j \in Taken
    <3>1. /\ j \in Taken <=> \/ run_pc = "send" /\ j = job
                             \/ j \in lost
                             \/ \E v \in Workers : AtWorker(j, v)
          /\ j \in Taken' <=> \/ run_pc = "send" /\ j = job
                              \/ j \in lost'
                              \/ \E v \in Workers : AtWorker(j, v)'
      BY <1>1, <1>2, <1>5, <1>7, TakenMembers, TakenMembersNext
    <3>2. j \in lost' <=> j \in lost \/ j \in JobsAt(w)
      BY <1>1
    <3> QED BY <1>8, <3>1, <3>2
  <2>2. Taken \subseteq Jobs /\ Taken' \subseteq Jobs
    BY <1>2, <1>5, <1>7, TakenMembers, TakenMembersNext
  <2> QED BY <2>1, <2>2
<1>12. CapacityInv'
  BY <1>1, <1>2, <1>11 DEF CapacityInv
<1> QED
  BY <1>5, <1>6, <1>7, <1>9, <1>10, <1>11, <1>12 DEF SInv

-----------------------------------------------------------------------------
(* The result handlers.                                                    *)

\* A result gives back the slot of the worker that sent it.
LEMMA ReturnSlotStep ==
  ASSUME SInv, FCInv', NEW w, NEW k, ReturnSlot(w, k)
  PROVE  SInv' /\ Taken' = Taken \ {k}
<1> DEFINE e == [job |-> k, share |-> None]
<1>1. /\ <<w, k>> \in results /\ results' = results \ {<<w, k>>}
      /\ wip_q' = Append(wip_q, w)
      /\ handling' = handling \cup {e}
      /\ finished' = finished \cup {k}
      /\ UNCHANGED <<run_pc, job, wip, popped, listener_pc, is_waiting_for_ajob, inbox, job_q,
                     serving, sid, sip, attaching, mute, crashed, lost, settled>>
  BY DEF ReturnSlot, handlerFrame, workerVars, attachVars, fcVars
<1>2. /\ ServerTypeOK /\ WorkersInv /\ DispatcherInv /\ HandlerInv /\ PlacesInv
      /\ SlotConservation /\ CapacityInv
  BY DEF SInv
<1>3. w \in Workers /\ k \in Jobs /\ wip_q \in Seq(Workers)
  BY <1>1, <1>2 DEF ServerTypeOK
<1>4. /\ wip_q' \in Seq(Workers) /\ Len(wip_q') = Len(wip_q) + 1
      /\ \A v \in Workers : FreeSlots(v)' = FreeSlots(v) + (IF v = w THEN 1 ELSE 0)
  BY <1>1, <1>3, AppendProperties, OccurrencesAppend DEF FreeSlots
<1>5. ServerTypeOK'
  <2>1. e \in [job : Jobs, share : 1..Cardinality(Clients) \cup {None}]
    BY <1>3
  <2> HIDE DEF e
  <2> QED BY <1>1, <1>2, <1>3, <1>4, <2>1 DEF ServerTypeOK
<1>6. WorkersInv'
  BY <1>1, <1>2, FS_RemoveElement DEF WorkersInv
<1>7. DispatcherInv' /\ Held' = Held
  BY <1>1, <1>2 DEF DispatcherInv, Held
<1>8. /\ OnePlace(k) /\ AtWorker(k, w) /\ OnceAtWorker(k, w)
      /\ k \notin finished /\ k \notin lost /\ k \notin Held /\ HasLeft(k)
      /\ \A v \in Workers : AtWorker(k, v) => v = w
  BY <1>1, <1>2, <1>3 DEF PlacesInv, OnePlace, AtWorker
<1>9. HandlerInv'
  <2>1. \A h \in handling : h.job # k
    BY <1>2, <1>8 DEF HandlerInv
  <2>2. e.job = k /\ k \notin settled
    BY <1>2, <1>8 DEF HandlerInv
  <2> HIDE DEF e
  <2> QED BY <1>1, <1>2, <2>1, <2>2 DEF HandlerInv
<1>10. \A v \in Workers : ~ AtWorker(k, v)' /\ OnceAtWorker(k, v)'
  <2>1. Occ(k, w) \in Nat
    BY <1>2, <1>3, AtWorkerMembers
  <2>2. ~ AtWorker(k, w)'
    BY <1>1, <1>8, <2>1 DEF AtWorker, OnceAtWorker, Occ
  <2>3. ASSUME NEW v \in Workers, v # w PROVE ~ AtWorker(k, v)'
    BY <1>1, <1>8, <2>3 DEF AtWorker, Occ
  <2>4. \A v \in Workers : OnceAtWorker(k, v)
    BY <1>2, <1>3 DEF PlacesInv, OnePlace
  <2>5. \A v \in Workers : OnceAtWorker(k, v)'
    BY <1>1, <2>4 DEF OnceAtWorker, Occ
  <2> QED BY <2>2, <2>3, <2>5
<1>11. ASSUME NEW j \in Jobs, j # k, NEW v \in Workers
       PROVE  (AtWorker(j, v)' <=> AtWorker(j, v)) /\ (OnceAtWorker(j, v)' <=> OnceAtWorker(j, v))
  <2>1. <<v, j>> \in results' <=> <<v, j>> \in results
    BY <1>1, <1>11
  <2> QED BY <1>1, <2>1 DEF AtWorker, OnceAtWorker, Occ
<1>12. PlacesInv'
  <2> SUFFICES ASSUME NEW j \in Jobs PROVE OnePlace(j)'
    BY DEF PlacesInv
  <2>1. OnePlace(j) /\ (HasLeft(j)' <=> HasLeft(j))
    BY <1>1, <1>2 DEF PlacesInv, HasLeft
  <2>2. CASE j = k
    <3>1. /\ k \in finished' /\ k \notin lost' /\ k \notin Held' /\ HasLeft(k)'
      BY <1>1, <1>7, <1>8, <2>1, <2>2
    <3> QED BY <1>10, <2>2, <3>1 DEF OnePlace
  <2>3. CASE j # k
    <3>1. j \in finished' <=> j \in finished
      BY <1>1, <2>3
    <3> QED BY <1>1, <1>7, <1>11, <2>1, <2>3, <3>1 DEF OnePlace
  <2> QED BY <2>2, <2>3
<1>13. SlotConservation'
  <2> SUFFICES ASSUME NEW v \in Workers
               PROVE  FreeSlots(v)' + Load(v)' = FreeSlots(v) + Load(v)
    BY <1>1, <1>2 DEF SlotConservation
  <2>1. UNCHANGED <<InHand(v), Arriving(v), Queued(v), Busy(v)>>
    BY <1>1 DEF InHand, Arriving, Queued, Busy
  <2>2. Returning(v) = Returning(v)' + (IF v = w THEN 1 ELSE 0)
    <3> DEFINE R == {r \in results : r[1] = v}
    <3>1. IsFiniteSet(R) /\ Returning(v) \in Nat
      BY <1>2, LoadTerms, FS_Subset DEF WorkersInv
    <3>2. CASE v = w
      <4>1. {r \in results' : r[1] = v} = R \ {<<w, k>>} /\ <<w, k>> \in R
        BY <1>1, <3>2
      <4> HIDE DEF R
      <4>2. Cardinality({r \in results' : r[1] = v}) = Cardinality(R) - 1
        BY <3>1, <4>1, FS_RemoveElement
      <4>3. Returning(v)' = Returning(v) - 1
        BY <4>2, Zenon DEF Returning, R
      <4> QED BY <3>1, <3>2, <4>3
    <3>3. CASE v # w
      <4>1. {r \in results' : r[1] = v} = R
        BY <1>1, <3>3
      <4>2. Returning(v)' = Returning(v)
        BY <4>1 DEF Returning
      <4> QED BY <3>1, <3>3, <4>2
    <3> QED BY <3>2, <3>3
  <2>3. /\ Load(v) = InHand(v) + Arriving(v) + Queued(v) + Busy(v) + Returning(v)
        /\ Load(v)' = InHand(v)' + Arriving(v)' + Queued(v)' + Busy(v)' + Returning(v)'
        /\ InHand(v) \in Nat /\ Arriving(v) \in Nat /\ Queued(v) \in Nat
        /\ Busy(v) \in Nat /\ Returning(v) \in Nat /\ Returning(v)' \in Nat
        /\ FreeSlots(v) \in Nat
    BY <1>2, <1>5, <1>6, LoadTerms, LoadTermsNext
  <2> QED BY <1>4, <2>1, <2>2, <2>3
<1>14. k \in Taken /\ Taken' = Taken \ {k}
  <2>1. /\ \A j : j \in Taken <=> /\ j \in Jobs
                                  /\ \/ run_pc = "send" /\ j = job
                                     \/ j \in lost
                                     \/ \E v \in Workers : AtWorker(j, v)
        /\ \A j : j \in Taken' <=> /\ j \in Jobs
                                   /\ \/ run_pc = "send" /\ j = job
                                      \/ j \in lost
                                      \/ \E v \in Workers : AtWorker(j, v)'
    BY <1>1, <1>2, <1>5, <1>7, TakenMembers, TakenMembersNext
  <2>2. run_pc = "send" => k # job
    BY <1>8 DEF Held
  <2>3. k \in Taken /\ k \notin Taken'
    BY <1>3, <1>8, <1>10, <2>1, <2>2
  <2>4. ASSUME NEW j, j # k PROVE j \in Taken' <=> j \in Taken
    BY <1>11, <2>1, <2>4
  <2> QED BY <2>3, <2>4
<1>15. CapacityInv'
  <2>1. IsFiniteSet(Taken') /\ Cardinality(Taken') = Cardinality(Taken) - 1
    BY <1>2, <1>14, FS_RemoveElement DEF CapacityInv
  <2>2. Cardinality(Taken) \in Nat /\ Len(wip_q) \in Nat
    BY <1>2, <1>3, FS_CardinalityType, LenProperties DEF CapacityInv
  <2>3. Len(wip_q') + Cardinality(Taken') = Len(wip_q) + Cardinality(Taken)
    <3> DEFINE a == Len(wip_q)
               b == Len(wip_q')
               c == Cardinality(Taken)
               d == Cardinality(Taken')
    <3>1. a \in Nat /\ b = a + 1 /\ c \in Nat /\ d = c - 1
      BY <1>4, <2>1, <2>2
    <3> HIDE DEF a, b, c, d
    <3>2. b + d = a + c BY <3>1
    <3> QED BY <3>2 DEF a, b, c, d
  <2> QED BY <1>2, <2>1, <2>3 DEF CapacityInv
<1> QED
  BY <1>5, <1>6, <1>7, <1>9, <1>12, <1>13, <1>14, <1>15 DEF SInv

\* A finished job has a registered client, so the share is at least 1.
LEMMA ShareIsPositive ==
  ASSUME SInv, NEW h \in handling
  PROVE  Cardinality(Registered) \in 1..Cardinality(Clients)
<1>1. h.job \in Jobs /\ h.job \in finished
  BY DEF SInv, HandlerInv, ServerTypeOK
<1>2. HasLeft(h.job)
  BY <1>1 DEF SInv, PlacesInv, OnePlace
<1>3. h.job.cid \in Clients /\ h.job.id \in Nat
  BY <1>1 DEF Jobs
<1>4. h.job.cid \in Registered
  <2>1. popped[h.job.cid] # 0
    BY <1>2, <1>3 DEF HasLeft
  <2> QED BY <1>3, <2>1 DEF SInv, FCInv, QueuesAreTheBacklog
<1>5. IsFiniteSet(Registered) /\ Cardinality(Registered) <= Cardinality(Clients)
  BY ClientsAssumption, FS_Subset DEF SInv, FCInv, TypeOK
<1>6. Cardinality(Registered) \in Nat /\ Cardinality(Registered) # 0
  BY <1>4, <1>5, FS_CardinalityType, FS_EmptySet
<1>7. Cardinality(Clients) \in Nat
  BY ClientsAssumption, FS_CardinalityType
<1> QED
  BY <1>5, <1>6, <1>7

\* Writing the share and sending the reply move no job and no slot.
LEMMA AnswerStep ==
  ASSUME SInv, FCInv', NEW h \in handling, SetShare(h) \/ Reply(h)
  PROVE  SInv'
<1>1. UNCHANGED <<run_pc, job, wip, wip_q, popped, listener_pc, is_waiting_for_ajob, inbox,
                  job_q, serving, sid, sip, attaching, mute, crashed, results, finished, lost>>
  BY DEF SetShare, Reply, handlerFrame, workerVars, attachVars, fcVars
<1>2. /\ ServerTypeOK /\ WorkersInv /\ DispatcherInv /\ HandlerInv /\ PlacesInv
      /\ SlotConservation /\ CapacityInv
  BY DEF SInv
<1>3. Quiet
  BY <1>1 DEF Quiet, workerVars, attachVars
<1>4. (WorkersInv /\ PlacesInv /\ DispatcherInv /\ SlotConservation /\ CapacityInv)'
  BY <1>2, <1>3, QuietStep
<1>5. h.job \in Jobs /\ h.job \in finished /\ h.job \notin settled
  BY <1>2 DEF ServerTypeOK, HandlerInv
<1>6. ServerTypeOK' /\ HandlerInv'
  <2>1. CASE SetShare(h)
    <3> DEFINE n == Cardinality(Registered)
               g == [h EXCEPT !.share = n]
    <3>1. /\ handling' = (handling \ {h}) \cup {g} /\ settled' = settled
      BY <2>1 DEF SetShare
    <3>2. n \in 1..Cardinality(Clients)
      BY ShareIsPositive
    <3> HIDE DEF n
    <3>3. g \in [job : Jobs, share : 1..Cardinality(Clients) \cup {None}] /\ g.job = h.job
      BY <1>2, <3>2 DEF ServerTypeOK
    <3> HIDE DEF g
    <3>4. ServerTypeOK'
      BY <1>1, <1>2, <3>1, <3>3 DEF ServerTypeOK
    <3>5. HandlerInv'
      BY <1>1, <1>2, <3>1, <3>3 DEF HandlerInv
    <3> QED BY <3>4, <3>5
  <2>2. CASE Reply(h)
    <3>1. handling' = handling \ {h} /\ settled' = settled \cup {h.job}
      BY <2>2 DEF Reply
    <3>2. ServerTypeOK'
      BY <1>1, <1>2, <1>5, <3>1 DEF ServerTypeOK
    <3>3. HandlerInv'
      BY <1>1, <1>2, <1>5, <3>1 DEF HandlerInv
    <3> QED BY <3>2, <3>3
  <2> QED BY <2>1, <2>2
<1> QED
  BY <1>4, <1>6 DEF SInv

-----------------------------------------------------------------------------
(* Induction.                                                              *)

LEMMA ListenerStep ==
  ASSUME SInv, FCInv', NEW c \in Clients, Listener(c)
  PROVE  SInv'
<1>1. /\ ServerTypeOK /\ WorkersInv /\ DispatcherInv /\ HandlerInv /\ PlacesInv
      /\ SlotConservation /\ CapacityInv
  BY DEF SInv
<1>2. /\ UNCHANGED <<is_waiting_for_ajob, wip_q, wip, workerVars, crashed, results,
                     handling, finished, settled, lost, popped, job>>
      /\ \/ UNCHANGED run_pc
         \/ run_pc = "blocked" /\ run_pc' = "notified"
      /\ \/ UNCHANGED listener_pc
         \/ \E s \in {"handle", "check", "notify"} :
              listener_pc' = [listener_pc EXCEPT ![c] = s]
  BY DEF Listener, HandleReg, HandlePush, CheckFlag, Notify, RegQueue, RegRing, Push,
         srvVars, resultVars, fcVars
<1>3. Quiet
  BY <1>2 DEF Quiet
<1>4. (WorkersInv /\ PlacesInv /\ DispatcherInv /\ SlotConservation /\ CapacityInv)'
  BY <1>1, <1>3, QuietStep
<1>5. ServerTypeOK' /\ HandlerInv'
  BY <1>1, <1>2 DEF ServerTypeOK, HandlerInv, workerVars, attachVars
<1> QED
  BY <1>4, <1>5 DEF SInv

LEMMA RunStep ==
  ASSUME SInv, FCInv', Run
  PROVE  SInv'
<1>1. /\ ServerTypeOK /\ WorkersInv /\ DispatcherInv /\ HandlerInv /\ PlacesInv
      /\ SlotConservation /\ CapacityInv
  BY DEF SInv
<1>2. CASE RunPop /\ PopHit
  <2>1. /\ run_pc \in {"pop", "repop"} /\ run_pc' = "get_wip"
        /\ UNCHANGED <<listener_pc, is_waiting_for_ajob, wip_q, wip, workerVars, crashed,
                       results, resultVars, lost>>
    <3>1. pop_pc' = "idle" /\ job' \in Jobs
      BY <1>1, <1>2, PopHitEffect DEF PopHit, SInv
    <3>2. pop_pc = "loop" /\ visits_left # 0 /\ next_cid_to_pop_q # <<>>
      BY <1>2 DEF PopHit, Visiting
    <3>3. ~ PopEnter /\ ~ PopIndexError /\ ~ PopNone /\ ~ PopMiss
      <4>1. cid_q_m[Head(next_cid_to_pop_q)] # <<>>
        BY <1>2 DEF PopHit
      <4> QED BY <3>2, <4>1 DEF PopEnter, PopIndexError, PopNone, PopMiss
    <3> QED BY <1>2, <3>3 DEF RunPop
  <2>2. ServerTypeOK'
    BY <1>1, <2>1 DEF ServerTypeOK, workerVars, attachVars, resultVars
  <2> QED BY <1>2, <2>1, <2>2, PopHitStep
<1>3. CASE \/ RunPop /\ ~ PopHit
           \/ SetFlag \/ Wait \/ ClearFlag
  <2>1. /\ UNCHANGED <<listener_pc, wip_q, wip, workerVars, crashed, results,
                       handling, finished, settled, lost, popped>>
        /\ run_pc \notin {"get_wip", "send"} /\ run_pc' \notin {"get_wip", "send"}
        /\ run_pc' \in {"pop", "set_flag", "wait", "blocked", "repop", "index_error",
                        "asserted"}
        /\ is_waiting_for_ajob' \in BOOLEAN
    <3>1. CASE RunPop /\ ~ PopHit
      BY <1>1, <3>1 DEF RunPop, PopEnter, PopMiss, PopIndexError, PopNone, resultVars, ServerTypeOK
    <3>2. CASE SetFlag \/ Wait \/ ClearFlag
      BY <1>1, <3>2 DEF SetFlag, Wait, ClearFlag, resultVars, fcVars, ServerTypeOK
    <3> QED BY <1>3, <3>1, <3>2
  <2>2. Quiet
    BY <2>1 DEF Quiet
  <2>3. (WorkersInv /\ PlacesInv /\ DispatcherInv /\ SlotConservation /\ CapacityInv)'
    BY <1>1, <2>2, QuietStep
  <2>4. ServerTypeOK' /\ HandlerInv'
    BY <1>1, <2>1 DEF ServerTypeOK, HandlerInv, workerVars, attachVars
  <2> QED BY <2>3, <2>4 DEF SInv
<1> QED
  BY <1>2, <1>3, GetWipStep, SendJobStep, SendJobFailsStep DEF Run

LEMMA SNextInv == SInv /\ [SNext]_serverVars => SInv'
<1> SUFFICES ASSUME SInv, [SNext]_serverVars PROVE SInv'
  OBVIOUS
<1>1. FCInv'
  BY ServerStepIsQueueStep, FCNextInv DEF SInv
<1>2. ASSUME NEW c \in Clients, Listener(c) PROVE SInv'
  BY <1>1, <1>2, ListenerStep
<1>3. CASE Run
  BY <1>1, <1>3, RunStep
<1>4. ASSUME NEW w \in Workers, Worker(w) \/ Crash(w) PROVE SInv'
  BY <1>1, <1>4, JobReqHandlerStep, ServeStep, SendResultStep, SendResultFailsStep,
     CrashStep DEF Worker
<1>5. CASE HandleResult
  <2>1. ASSUME NEW r \in results, ReturnSlot(r[1], r[2]) PROVE SInv'
    BY <1>1, <2>1, ReturnSlotStep
  <2>2. ASSUME NEW h \in handling, SetShare(h) \/ Reply(h) PROVE SInv'
    BY <1>1, <2>2, AnswerStep
  <2> QED BY <1>5, <2>1, <2>2 DEF HandleResult
<1>6. CASE UNCHANGED serverVars
  <2>1. Quiet /\ UNCHANGED <<listener_pc, run_pc, is_waiting_for_ajob, wip_q, wip, inbox, job_q,
                             serving, sid, sip, attaching, mute, crashed, results, handling,
                             finished, settled, lost>>
    BY <1>6 DEF Quiet, serverVars, srvVars, fcVars, workerVars, attachVars, resultVars
  <2>2. (WorkersInv /\ PlacesInv /\ DispatcherInv /\ SlotConservation /\ CapacityInv)'
    BY <1>1, <2>1, QuietStep DEF SInv
  <2>3. ServerTypeOK' /\ HandlerInv'
    BY <2>1 DEF SInv, ServerTypeOK, HandlerInv
  <2> QED BY <1>1, <2>2, <2>3 DEF SInv
<1> QED
  BY <1>2, <1>3, <1>4, <1>5, <1>6 DEF SNext

-----------------------------------------------------------------------------
\* In every reachable state of the server its variables have their types.
THEOREM ServerTypes == SSpec => []ServerTypeOK
<1>1. SInv => ServerTypeOK
  BY DEF SInv
<1> QED
  BY <1>1, SInitInv, SNextInv, PTL DEF SSpec

\* No slot is gained, and none lost but with a worker that crashes or, one, with
\* a serving thread that dies of its job: the dispatcher takes them from wip_q and
\* handle_result() gives them back, whatever the threads, the workers and the
\* connections interleave.
THEOREM SlotsAreConserved == SSpec => []SlotConservation
<1>1. SInv => SlotConservation
  BY DEF SInv
<1> QED
  BY <1>1, SInitInv, SNextInv, PTL DEF SSpec

\* A place among Places holds a job exactly where OnePlace says it is.
LEMMA OnePlaceIsOne ==
  ASSUME ServerTypeOK, NEW j \in Jobs, OnePlace(j), HasLeft(j)
  PROVE  Cardinality({p \in Places : j \in ContentsOf(p)}) = 1
<1> DEFINE S == {p \in Places : j \in ContentsOf(p)}
<1>1. /\ \A p \in Places : /\ p[1] = "dispatcher" => ContentsOf(p) = Held
                           /\ p[1] = "finished" => ContentsOf(p) = finished
                           /\ p[1] = "lost" => ContentsOf(p) = lost
                           /\ p[1] = "worker" => ContentsOf(p) = JobsAt(p[2])
                                \cup {r[2] : r \in {s \in results : s[1] = p[2]}}
  BY DEF ContentsOf
<1>2. ASSUME NEW w \in Workers
      PROVE  j \in ContentsOf(<<"worker", w>>) <=> AtWorker(j, w)
  <2>1. ContentsOf(<<"worker", w>>)
          = JobsAt(w) \cup {r[2] : r \in {s \in results : s[1] = w}}
    BY DEF ContentsOf
  <2>2. j \in {r[2] : r \in {s \in results : s[1] = w}} <=> <<w, j>> \in results
    <3>1. \A r \in results : r = <<r[1], r[2]>>
      BY DEF ServerTypeOK
    <3> QED BY <3>1
  <2> QED BY <2>1, <2>2, AtWorkerMembers
<1>3. ASSUME NEW p
      PROVE  p \in S <=> \/ p = <<"dispatcher", None>> /\ j \in Held
                         \/ p = <<"finished", None>> /\ j \in finished
                         \/ p = <<"lost", None>> /\ j \in lost
                         \/ \E w \in Workers : p = <<"worker", w>> /\ AtWorker(j, w)
  <2>1. p \in Places <=> \/ p = <<"dispatcher", None>>
                         \/ p = <<"finished", None>>
                         \/ p = <<"lost", None>>
                         \/ \E w \in Workers : p = <<"worker", w>>
    BY DEF Places
  <2>2. /\ ContentsOf(<<"dispatcher", None>>) = Held
        /\ ContentsOf(<<"finished", None>>) = finished
        /\ ContentsOf(<<"lost", None>>) = lost
    BY DEF ContentsOf
  <2> QED BY <1>2, <2>1, <2>2
<1> HIDE DEF S
<1>4. \E p : S = {p}
  <2>1. CASE j \in Held
    <3>1. S = {<<"dispatcher", None>>}
      BY <1>3, <2>1 DEF OnePlace
    <3> QED BY <3>1
  <2>2. CASE j \in finished
    <3>1. S = {<<"finished", None>>}
      BY <1>3, <2>2 DEF OnePlace
    <3> QED BY <3>1
  <2>3. CASE j \in lost
    <3>1. S = {<<"lost", None>>}
      BY <1>3, <2>3 DEF OnePlace
    <3> QED BY <3>1
  <2>4. ASSUME NEW w \in Workers, AtWorker(j, w) PROVE \E p : S = {p}
    <3>1. S = {<<"worker", w>>}
      BY <1>3, <2>4 DEF OnePlace
    <3> QED BY <3>1
  <2> QED BY <2>1, <2>2, <2>3, <2>4 DEF OnePlace
<1> QED
  BY <1>4, FS_Singleton DEF S

\* Every job that left its queue is in exactly one place.
THEOREM JobsAreAccountedFor == SSpec => []JobAccounting
<1>1. SInv => JobAccounting
  <2> SUFFICES ASSUME SInv, NEW c \in Clients, NEW i \in 1..popped[c]
               PROVE  Cardinality({p \in Places : JobOf(c, i) \in ContentsOf(p)}) = 1
    BY DEF JobAccounting
  <2>1. ServerTypeOK /\ PlacesInv /\ popped[c] \in Nat
    BY DEF SInv, FCInv, TypeOK
  <2>2. JobOf(c, i) \in Jobs /\ HasLeft(JobOf(c, i))
    BY <2>1 DEF JobOf, Jobs, HasLeft
  <2> QED BY <2>1, <2>2, OnePlaceIsOne DEF PlacesInv
<1> QED
  BY <1>1, SInitInv, SNextInv, PTL DEF SSpec

-----------------------------------------------------------------------------
(* Refinement of JobService.                                               *)

\* What a step does to the variables of JobService.
LEMMA Stutter ==
  ASSUME UNCHANGED <<pushed, Started, Running, finished, settled, lost>>
  PROVE  [Promise!Next]_(Promise!jsVars)
BY DEF Promise!jsVars

\* Steps that leave the jobs of the dispatcher and the workers where they are.
LEMMA QuietRunning ==
  ASSUME Quiet
  PROVE  Started' = Started /\ Running' = Running
<1>1. /\ UNCHANGED <<inbox, job_q, serving, results, popped>>
      /\ (run_pc \in {"get_wip", "send"} \/ run_pc' \in {"get_wip", "send"})
           => run_pc' = run_pc /\ job' = job
  BY DEF Quiet, workerVars, attachVars
<1> QED
  BY <1>1 DEF Started, Running, JobsAt

\* The running jobs are those that took a slot and are not lost.
LEMMA RunningIsTaken == SInv => Running = Taken \ lost
<1> SUFFICES ASSUME SInv PROVE Running \cap lost = {}
  BY DEF Taken
<1> SUFFICES ASSUME NEW j \in Running PROVE j \notin lost
  OBVIOUS
<1>1. /\ j \in Jobs
      /\ \/ run_pc = "send" /\ j = job
         \/ \E w \in Workers : AtWorker(j, w)
  BY RunningMembers DEF SInv
<1>2. OnePlace(j)
  BY <1>1 DEF SInv, PlacesInv
<1> QED
  BY <1>1, <1>2 DEF OnePlace, Held

LEMMA RunningIsTakenNext == (SInv => Running = Taken \ lost)'
BY RunningIsTaken, PTL

\* The listener that pushes a job receives it for the cluster.
LEMMA ListenerImplements ==
  ASSUME SInv, NEW c \in Clients, Listener(c)
  PROVE  [Promise!Next]_(Promise!jsVars)
<1>1. /\ UNCHANGED <<wip_q, wip, workerVars, crashed, results, finished, settled, lost,
                     popped, job>>
      /\ run_pc \in {"get_wip", "send"} \/ run_pc' \in {"get_wip", "send"} => UNCHANGED run_pc
  BY DEF Listener, HandleReg, HandlePush, CheckFlag, Notify, RegQueue, RegRing, Push,
         srvVars, resultVars, fcVars
<1>2. Started' = Started /\ Running' = Running
  BY <1>1, QuietRunning DEF Quiet
<1>3. CASE HandlePush(c)
  <2>1. Promise!Receive(c)
    BY <1>1, <1>2, <1>3 DEF HandlePush, Push, Promise!Receive
  <2> QED BY <2>1 DEF Promise!Next
<1>4. CASE ~ HandlePush(c)
  <2>1. pushed' = pushed
    BY <1>4 DEF Listener, HandleReg, CheckFlag, Notify, RegQueue, RegRing, fcVars
  <2> QED BY <1>1, <1>2, <2>1, Stutter
<1> QED
  BY <1>3, <1>4

\* Popping a job does not start it: it has no slot yet.
LEMMA PopImplements ==
  ASSUME SInv, RunPop \/ SetFlag \/ Wait \/ ClearFlag
  PROVE  UNCHANGED <<pushed, Started, Running, finished, settled, lost>>
<1>1. CASE RunPop /\ PopHit
  <2>1. PICK c \in Clients : /\ job' = JobOf(c, popped[c] + 1)
                             /\ popped' = [popped EXCEPT ![c] = @ + 1]
                             /\ popped[c] \in Nat
    BY <1>1, PopHitEffect DEF SInv
  <2>2. popped \in [Clients -> Nat]
    BY DEF SInv, FCInv, TypeOK
  <2>3. /\ run_pc \in {"pop", "repop"} /\ run_pc' = "get_wip" /\ UNCHANGED pushed
        /\ UNCHANGED <<inbox, job_q, serving, results, finished, settled, lost>>
    <3>1. pop_pc = "loop" /\ visits_left # 0 /\ next_cid_to_pop_q # <<>>
      BY <1>1 DEF PopHit, Visiting
    <3>2. ~ PopEnter /\ ~ PopIndexError /\ ~ PopNone /\ ~ PopMiss
      <4>1. cid_q_m[Head(next_cid_to_pop_q)] # <<>>
        BY <1>1 DEF PopHit
      <4> QED BY <3>1, <4>1 DEF PopEnter, PopIndexError, PopNone, PopMiss
    <3> QED BY <1>1, <3>2 DEF RunPop, PopHit, workerVars, attachVars, resultVars
  <2>4. ASSUME NEW d \in Clients PROVE Started'[d] = Started[d]
    <3>1. Started[d] = popped[d] - 0
      BY <2>3 DEF Started
    <3>2. Started'[d] = popped'[d] - (IF c = d THEN 1 ELSE 0)
      BY <2>1, <2>3, JobOfFields DEF Started
    <3> QED BY <2>1, <2>2, <3>1, <3>2
  <2>5. Started' = Started
    BY <2>4 DEF Started
  <2>6. Running' = Running
    BY <2>3 DEF Running, JobsAt
  <2> QED BY <2>3, <2>5, <2>6
<1>2. CASE \/ RunPop /\ ~ PopHit
           \/ SetFlag \/ Wait \/ ClearFlag
  <2>1. /\ UNCHANGED <<pushed, wip_q, wip, workerVars, crashed, results, finished, settled,
                       lost, popped>>
        /\ run_pc \notin {"get_wip", "send"} /\ run_pc' \notin {"get_wip", "send"}
    <3>1. CASE RunPop /\ ~ PopHit
      BY <3>1 DEF RunPop, PopEnter, PopMiss, PopIndexError, PopNone, resultVars
    <3>2. CASE SetFlag \/ Wait \/ ClearFlag
      BY <3>2 DEF SetFlag, Wait, ClearFlag, resultVars, fcVars
    <3> QED BY <1>2, <3>1, <3>2
  <2> QED BY <2>1, QuietRunning DEF Quiet
<1> QED
  BY <1>1, <1>2

\* A job starts when the dispatcher takes a slot for it: in its turn, because
\* the dispatcher holds the last job it popped, and only if a slot is free.
LEMMA GetWipImplements ==
  ASSUME SInv, SInv', GetWip
  PROVE  Promise!Start(job.cid) /\ job.cid \in Clients
<1>1. /\ run_pc = "get_wip" /\ run_pc' = "send" /\ wip_q # <<>>
      /\ UNCHANGED <<job, popped, pushed, inbox, job_q, serving, results, finished, settled, lost>>
  BY DEF GetWip, workerVars, attachVars, resultVars, fcVars
<1> DEFINE c == job.cid
<1>2. job \in Jobs /\ job = JobOf(c, popped[c]) /\ c \in Clients
  BY <1>1 DEF SInv, DispatcherInv, Jobs
<1>3. popped \in [Clients -> Nat] /\ pushed \in [Clients -> Nat] /\ popped[c] \in Nat /\ pushed[c] \in Nat
  BY <1>2 DEF SInv, FCInv, TypeOK
<1>4. popped[c] >= 1
  <2>1. OnePlace(job) /\ job \in Held
    BY <1>1, <1>2 DEF SInv, PlacesInv, Held
  <2>2. HasLeft(job)
    BY <2>1 DEF OnePlace
  <2>3. job.id \in Nat
    BY <1>2 DEF Jobs
  <2> QED BY <1>3, <2>2, <2>3 DEF HasLeft
<1>5. popped[c] <= pushed[c]
  <2>1. CASE c \in Registered
    <3>1. /\ popped[c] + Len(cid_q_m[c]) = pushed[c] /\ cid_q_m[c] \in Seq(Jobs)
      BY <1>2, <2>1 DEF SInv, FCInv, QueuesAreTheBacklog, TypeOK
    <3>2. Len(cid_q_m[c]) \in Nat
      BY <3>1, LenProperties
    <3> QED BY <1>3, <3>1, <3>2
  <2>2. CASE c \notin Registered
    BY <1>2, <2>2 DEF SInv, FCInv, QueuesAreTheBacklog
  <2> QED BY <2>1, <2>2
<1>6. Started[c] = popped[c] - 1
  BY <1>1, <1>2 DEF Started
<1>7. Started' = [Started EXCEPT ![c] = @ + 1]
  <2>1. ASSUME NEW d \in Clients
        PROVE  popped[d] - 0 = IF d = c THEN Started[d] + 1 ELSE Started[d]
    <3>1. CASE d = c
      BY <1>3, <1>6, <3>1
    <3>2. CASE d # c
      BY <1>1, <1>3, <3>2 DEF Started
    <3> QED BY <3>1, <3>2
  <2>2. Started' = [d \in Clients |-> popped[d] - 0]
    BY <1>1 DEF Started
  <2>3. Started = [d \in Clients |-> Started[d]]
    BY DEF Started
  <2> HIDE DEF c
  <2>4. [Started EXCEPT ![c] = @ + 1]
          = [d \in Clients |-> IF d = c THEN Started[d] + 1 ELSE Started[d]]
    BY <2>3
  <2> QED BY <2>1, <2>2, <2>4
<1>8. Cardinality(Running \cup lost) < Cardinality(Workers) * SlotsPerWorker
  <2> DEFINE t == Cardinality(Taken)
             l == Len(wip_q)
             m == Cardinality(Workers) * SlotsPerWorker
  <2>1. t \in Nat /\ l + t = m
    BY FS_CardinalityType DEF SInv, CapacityInv
  <2>2. l \in Nat \ {0}
    BY <1>1, SlotTaken DEF SInv
  <2> HIDE DEF t, l, m
  <2>3. t < m
    BY <2>1, <2>2
  <2> QED BY <2>3 DEF t, m, Taken
<1>9. Running' = Running \cup {job}
  <2>1. OnePlace(job) /\ job \in Held
    BY <1>1, <1>2 DEF SInv, PlacesInv, Held
  <2>2. job \notin lost /\ Taken' = Taken \cup {job}
    BY <2>1, GetWipStep DEF SInv, OnePlace
  <2> QED BY <1>1, <2>2, RunningIsTaken, RunningIsTakenNext
<1>10. Promise!JobId(c, Started[c] + 1) = job
  BY <1>2, <1>3, <1>6 DEF Promise!JobId, JobOf
<1>11. Started[c] < pushed[c]
  BY <1>3, <1>5, <1>6
<1> HIDE DEF c
<1>12. Promise!Start(c)
  <2>1. Running' = Running \cup {Promise!JobId(c, Started[c] + 1)}
    BY <1>9, <1>10
  <2>2. UNCHANGED <<pushed, finished, settled, lost>>
    BY <1>1
  <2> HIDE DEF Started, Running
  <2>3. Promise!Cardinality(Running \cup lost) = Cardinality(Running \cup lost)
    BY DEF Promise!Cardinality, Cardinality
  <2> QED BY <1>7, <1>8, <1>11, <2>1, <2>2, <2>3, Zenon DEF Promise!Start
<1> QED
  BY <1>2, <1>12 DEF c

\* A job that cannot be sent, and the jobs of a worker that crashes, are lost
\* with their slots.
LEMMA SendJobFailsImplements ==
  ASSUME SInv, SInv', SendJobFails
  PROVE  Promise!Lose({job}) /\ {job} \in SUBSET Running
<1>1. /\ run_pc = "send" /\ run_pc' = "connect_failed" /\ lost' = lost \cup {job}
      /\ UNCHANGED <<job, popped, pushed, finished, settled>>
  BY DEF SendJobFails, resultVars, fcVars
<1>2. job \in Running
  BY <1>1 DEF Running
<1>3. Taken' = Taken
  BY SendJobFailsStep DEF SInv
<1>4. Running' = Running \ {job}
  BY <1>1, <1>3, RunningIsTaken, RunningIsTakenNext
<1>5. Started' = Started
  BY <1>1 DEF Started
<1>6. Promise!Lose({job})
  BY <1>1, <1>4, <1>5 DEF Promise!Lose
<1> QED
  BY <1>2, <1>6

LEMMA SendResultFailsImplements ==
  ASSUME SInv, SInv', NEW w \in Workers, SendResultFails(w)
  PROVE  Promise!Lose({serving[w]}) /\ {serving[w]} \in SUBSET Running
<1>1. /\ serving[w] # None /\ lost' = lost \cup {serving[w]}
      /\ UNCHANGED <<run_pc, job, popped, pushed, finished, settled>>
  BY DEF SendResultFails, workerFrame, resultVars, fcVars
<1>2. serving[w] \in Running
  BY <1>1 DEF Running, JobsAt
<1>3. Taken' = Taken
  BY SendResultFailsStep DEF SInv
<1>4. Running' = Running \ {serving[w]}
  BY <1>1, <1>3, RunningIsTaken, RunningIsTakenNext
<1>5. Started' = Started
  BY <1>1 DEF Started
<1>6. Promise!Lose({serving[w]})
  BY <1>1, <1>4, <1>5 DEF Promise!Lose
<1> QED
  BY <1>2, <1>6

LEMMA CrashImplements ==
  ASSUME SInv, SInv', NEW w \in Workers, Crash(w)
  PROVE  Promise!Lose(JobsAt(w)) /\ JobsAt(w) \in SUBSET Running
<1>1. /\ lost' = lost \cup JobsAt(w)
      /\ UNCHANGED <<run_pc, job, popped, pushed, finished, settled>>
  BY DEF Crash, workerFrame, attachVars, resultVars, fcVars
<1>2. JobsAt(w) \subseteq Running
  BY DEF Running
<1>3. Taken' = Taken
  BY CrashStep DEF SInv
<1>4. Running' = Running \ JobsAt(w)
  BY <1>1, <1>3, RunningIsTaken, RunningIsTakenNext
<1>5. Started' = Started
  BY <1>1 DEF Started
<1>6. Promise!Lose(JobsAt(w))
  BY <1>1, <1>4, <1>5 DEF Promise!Lose
<1> QED
  BY <1>2, <1>6

\* Sending a job and serving it leave it among the running jobs.
LEMMA MoveImplements ==
  ASSUME SInv, SInv',
         SendJob \/ \E w \in Workers : JobReqHandler(w) \/ Serve(w) \/ SendResult(w)
  PROVE  UNCHANGED <<pushed, Started, Running, finished, settled, lost>>
<1>1. /\ UNCHANGED <<pushed, popped, job, finished, settled, lost>>
      /\ run_pc = "get_wip" <=> run_pc' = "get_wip"
  <2>1. CASE SendJob
    BY <2>1 DEF SendJob, resultVars, fcVars
  <2>2. ASSUME NEW w \in Workers, JobReqHandler(w) \/ Serve(w) \/ SendResult(w)
        PROVE  UNCHANGED workerFrame /\ lost' = lost
    BY <2>2 DEF JobReqHandler, HandleJobReq, FindUnattached, AttachSid, AttachSip, PutJob,
                Serve, SendResult
  <2>3. CASE UNCHANGED workerFrame /\ lost' = lost
    BY <2>3 DEF workerFrame, resultVars, fcVars
  <2> QED BY <2>1, <2>2, <2>3
<1>2. Started' = Started
  BY <1>1 DEF Started
<1>3. Taken' = Taken
  BY SendJobStep, JobReqHandlerStep, ServeStep, SendResultStep DEF SInv
<1>4. Running' = Running
  BY <1>1, <1>3, RunningIsTaken, RunningIsTakenNext
<1> QED
  BY <1>1, <1>2, <1>4

\* A job finishes when its slot goes back, and is settled by the reply.
LEMMA ReturnSlotImplements ==
  ASSUME SInv, SInv', NEW w, NEW k, ReturnSlot(w, k)
  PROVE  Promise!Finish(k) /\ k \in Running
<1>1. /\ <<w, k>> \in results /\ finished' = finished \cup {k}
      /\ UNCHANGED <<run_pc, job, popped, pushed, settled, lost>>
  BY DEF ReturnSlot, handlerFrame, fcVars
<1>2. k \in Running
  BY <1>1 DEF Running
<1>3. Taken' = Taken \ {k}
  BY ReturnSlotStep DEF SInv
<1>4. Running' = Running \ {k}
  BY <1>1, <1>3, RunningIsTaken, RunningIsTakenNext
<1>5. Started' = Started
  BY <1>1 DEF Started
<1> QED
  BY <1>1, <1>2, <1>4, <1>5 DEF Promise!Finish

LEMMA AnswerImplements ==
  ASSUME SInv, NEW h \in handling, SetShare(h) \/ Reply(h)
  PROVE  [Promise!Next]_(Promise!jsVars)
<1>1. UNCHANGED <<run_pc, job, popped, pushed, wip, wip_q, crashed, workerVars, results,
                  finished, lost>>
  <2>1. UNCHANGED <<fcVars, run_pc, wip, crashed, workerVars, results, finished, lost, wip_q>>
    BY DEF SetShare, Reply, handlerFrame
  <2> QED BY <2>1 DEF fcVars
<1>2. Started' = Started /\ Running' = Running
  BY <1>1, QuietRunning DEF Quiet
<1>3. CASE SetShare(h)
  <2>1. settled' = settled
    BY <1>3 DEF SetShare
  <2> QED BY <1>1, <1>2, <2>1, Stutter
<1>4. CASE Reply(h)
  <2>1. h.job \in finished \ settled
    BY DEF SInv, HandlerInv
  <2>2. Promise!Settle(h.job)
    BY <1>1, <1>2, <1>4 DEF Reply, Promise!Settle
  <2> QED BY <2>1, <2>2 DEF Promise!Next
<1> QED
  BY <1>3, <1>4

LEMMA StepImplements ==
  SInv /\ SInv' /\ [SNext]_serverVars => [Promise!Next]_(Promise!jsVars)
<1> SUFFICES ASSUME SInv, SInv', [SNext]_serverVars
             PROVE  [Promise!Next]_(Promise!jsVars)
  OBVIOUS
<1>1. ASSUME NEW c \in Clients, Listener(c) PROVE [Promise!Next]_(Promise!jsVars)
  BY <1>1, ListenerImplements
<1>2. CASE RunPop \/ SetFlag \/ Wait \/ ClearFlag
  BY <1>2, PopImplements, Stutter
<1>3. CASE GetWip
  BY <1>3, GetWipImplements DEF Promise!Next
<1>4. CASE SendJob \/ \E w \in Workers : JobReqHandler(w) \/ Serve(w) \/ SendResult(w)
  BY <1>4, MoveImplements, Stutter
<1>5. CASE SendJobFails
  BY <1>5, SendJobFailsImplements DEF Promise!Next
<1>6. ASSUME NEW w \in Workers, Crash(w) PROVE [Promise!Next]_(Promise!jsVars)
  BY <1>6, CrashImplements DEF Promise!Next
<1>7. ASSUME NEW r \in results, ReturnSlot(r[1], r[2])
      PROVE  [Promise!Next]_(Promise!jsVars)
  BY <1>7, ReturnSlotImplements DEF Promise!Next
<1>8. ASSUME NEW h \in handling, SetShare(h) \/ Reply(h)
      PROVE  [Promise!Next]_(Promise!jsVars)
  BY <1>8, AnswerImplements
<1>9. CASE UNCHANGED serverVars
  <2>1. Quiet /\ UNCHANGED <<pushed, finished, settled, lost>>
    BY <1>9 DEF Quiet, serverVars, srvVars, fcVars, workerVars, attachVars, resultVars
  <2> QED BY <2>1, QuietRunning, Stutter
<1>10. ASSUME NEW w \in Workers, SendResultFails(w) PROVE [Promise!Next]_(Promise!jsVars)
  BY <1>10, SendResultFailsImplements DEF Promise!Next
<1> QED
  BY <1>1, <1>2, <1>3, <1>4, <1>5, <1>6, <1>7, <1>8, <1>9, <1>10
  DEF SNext, Run, Worker, HandleResult

LEMMA InitImplements == SInit => Promise!Init
<1> SUFFICES ASSUME SInit PROVE Promise!Init
  OBVIOUS
<1>1. /\ popped = [c \in Clients |-> 0] /\ pushed = [c \in Clients |-> 0]
      /\ finished = {} /\ settled = {} /\ lost = {} /\ run_pc = "pop"
  BY DEF SInit, Init
<1>2. Started = [c \in Clients |-> 0]
  BY <1>1 DEF Started
<1>3. Running = {}
  <2>1. \A w \in Workers : JobsAt(w) = {}
    BY DEF SInit, JobsAt, ToSet
  <2>2. results = {}
    BY DEF SInit
  <2> QED BY <1>1, <2>1, <2>2 DEF Running
<1> QED
  BY <1>1, <1>2, <1>3 DEF Promise!Init

\* The threads of the master and its workers implement JobService: every step
\* starts, finishes, loses or settles a job as the service allows, or stutters.
THEOREM ServerImplementsJobService == SSpec => ImplementsJobService
BY SInitInv, SNextInv, InitImplements, StepImplements, PTL
DEF SSpec, ImplementsJobService, Promise!Spec
=============================================================================
