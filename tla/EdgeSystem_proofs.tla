--------------------------- MODULE EdgeSystem_proofs ---------------------------
(***************************************************************************)
(* Proofs about EdgeSystem, for every number of clients, masters and       *)
(* workers and every set-up: its types, the conservation of the slots that *)
(* masters share, and, unless a worker serves two masters, that results    *)
(* come home and that a lost job has one of the causes the model names.    *)
(*                                                                         *)
(* The inductive invariant EInv adds to these where a job can be           *)
(* (PlacesInv), whose slots a master has (SlotsInv), and what a worker     *)
(* knows of its master (AttachInv; OnTimeInv for a worker with one slot    *)
(* that no job reached before it was set up).                              *)
(***************************************************************************)
EXTENDS EdgeSystem, FiniteSetTheorems, TLAPS

InWorker == {"sid", "sip", "job_q", "serving"}

\* The jobs, and where they can be: at a worker of their master, or with a
\* result, a reply or an answer that names a master the worker serves.
PlaceOK(j) ==
  /\ j.cid \in Clients /\ j.mid \in Masters /\ j.mid \in cluster.sid_ip_m[j.cid]
  /\ place[j][1] \in InWorker \cup {"inbox", "result"} =>
       place[j][2] \in Workers /\ place[j][2] \in cluster.wip_l[j.mid]
  /\ place[j][1] = "result" =>
       place[j][3] \in SharersOf(place[j][2]) /\ place[j][4] \in SharersOf(place[j][2])
  /\ place[j][1] \in {"reply", "finished"} => place[j][2] \in Masters
  /\ place[j][1] = "lost" => place[j][2] \in Workers \cup {None}

PlacesInv == place = [j \in Jobs |-> place[j]] /\ \A j \in Jobs : PlaceOK(j)

\* A master has slots of its own workers only.
SlotsInv == \A m \in Masters : \A w \in Workers : slots[m][w] > 0 => w \in cluster.wip_l[m]

\* A worker is attached to a master it serves, first by name, then by address,
\* and to none before it has a name to test.
AttachInv ==
  \A w \in Workers :
    /\ sid[w] \in SharersOf(w) \cup {None} /\ sip[w] \in SharersOf(w) \cup {None}
    /\ sip[w] # None => sid[w] # None
    /\ stage[w] = "commer" => sid[w] = None
    /\ \A j \in Jobs : place[j][1] \in InWorker /\ place[j][2] = w =>
         /\ stage[w] # "commer"
         /\ place[j][1] = "sip" => sid[w] # None

\* A worker with one slot of one master that no job reached too early has an
\* address once it has a job to serve.
HasOneSlot(w) == cluster.max_num_jobs_per_worker = 1 /\ \E m \in Masters : SharersOf(w) = {m}

OnTimeInv ==
  \A w \in Workers : w \notin early /\ HasOneSlot(w) =>
    /\ sid[w] # None => \/ sip[w] # None
                        \/ \E k \in Jobs : place[k][1] = "sip" /\ place[k][2] = w
    /\ stage[w] # "up" => sid[w] = None
    /\ \A j \in Jobs : place[j][1] \in InWorker /\ place[j][2] = w =>
         /\ stage[w] = "up"
         /\ place[j][1] \in {"job_q", "serving"} => sip[w] # None

\* The slots of a worker, free and taken, add up to those of the beginning.
CountInv ==
  /\ \A w \in Workers : IsFiniteSet(SlotsFree(w)) /\ IsFiniteSet(SlotsTaken(w))
  /\ SlotsMoveBetweenSharers

EInv ==
  /\ EdgeTypeOK /\ PlacesInv /\ SlotsInv /\ AttachInv /\ OnTimeInv /\ CountInv
  /\ ResultsComeHome /\ LossesHaveACause

-----------------------------------------------------------------------------
(* Sets of jobs and slots.                                                 *)

LEMMA ClusterFacts ==
  ASSUME EdgeTypeOK
  PROVE  /\ cluster.sid_ip_m \in [Clients -> SUBSET Masters]
         /\ cluster.wip_l \in [Masters -> SUBSET Workers]
         /\ cluster.max_num_jobs_per_worker \in Nat \ {0}
         /\ None \notin Masters /\ None \notin Workers
         /\ \A w \in Workers : SharersOf(w) \subseteq Masters /\ IsFiniteSet(SharersOf(w))
<1>1. /\ cluster.sid_ip_m \in [Clients -> SUBSET Masters]
      /\ cluster.wip_l \in [Masters -> SUBSET Workers]
      /\ cluster.max_num_jobs_per_worker \in Nat \ {0}
      /\ None \notin Masters /\ None \notin Workers
  BY ClustersAssumption DEF EdgeTypeOK
<1>2. ASSUME NEW w \in Workers
      PROVE  SharersOf(w) \subseteq Masters /\ IsFiniteSet(SharersOf(w))
  <2>1. SharersOf(w) \subseteq Masters
    BY DEF SharersOf
  <2> QED BY <2>1, FS_Subset, MastersAssumption
<1> QED BY <1>1, <1>2

\* What holds a slot of w: a job at the worker, its result, and a job lost there.
Holding == {"inbox", "sid", "sip", "job_q", "serving", "result", "lost"}

Holds(p, w) == p[1] \in Holding /\ p[2] = w

LEMMA TakenMembers == \A w : SlotsTaken(w) = {j \in Jobs : Holds(place[j], w)}
  BY DEF SlotsTaken, Holds, Holding

LEMMA TakenMembersNext == (\A w : SlotsTaken(w) = {j \in Jobs : Holds(place[j], w)})'
  BY TakenMembers, PTL

LEMMA FreeMembers ==
  \A w, x : x \in SlotsFree(w) <=> \E m \in Masters : \E i \in 1..slots[m][w] : x = <<m, i>>
<1> SUFFICES ASSUME NEW w, NEW x
    PROVE  x \in SlotsFree(w) <=> \E m \in Masters : \E i \in 1..slots[m][w] : x = <<m, i>>
  OBVIOUS
<1>1. x \in SlotsFree(w) <=> \E m \in Masters : x \in {m} \X (1..slots[m][w])
  BY DEF SlotsFree
<1>2. ASSUME NEW m \in Masters
      PROVE  x \in {m} \X (1..slots[m][w]) <=> \E i \in 1..slots[m][w] : x = <<m, i>>
  <2> DEFINE I == 1..slots[m][w]
  <2> HIDE DEF I
  <2>1. x \in {m} \X I <=> \E i \in I : x = <<m, i>>
    OBVIOUS
  <2> QED BY <2>1 DEF I
<1> QED BY <1>1, <1>2

LEMMA FreeMembersNext ==
  (\A w, x : x \in SlotsFree(w) <=> \E m \in Masters : \E i \in 1..slots[m][w] : x = <<m, i>>)'
  BY FreeMembers, PTL

LEMMA MoveFacts ==
  ASSUME PlacesInv, NEW j \in Jobs, NEW p, Move(j, p)
  PROVE  /\ Jobs' = Jobs
         /\ place' = [k \in Jobs' |-> place'[k]]
         /\ place'[j] = p
         /\ \A k \in Jobs : k # j => place'[k] = place[k]
  BY DEF PlacesInv, Move, Jobs

\* A job that moves without its slot changing hands.
LEMMA CountStable ==
  ASSUME CountInv, UNCHANGED <<cluster, slots>>, Jobs' = Jobs,
         \A k \in Jobs : \A w \in Workers : Holds(place'[k], w) <=> Holds(place[k], w)
  PROVE  CountInv'
<1>1. ASSUME NEW w \in Workers
      PROVE  /\ SlotsTaken(w)' = SlotsTaken(w) /\ SlotsFree(w)' = SlotsFree(w)
             /\ SharersOf(w)' = SharersOf(w)
  <2>1. SlotsTaken(w) = {k \in Jobs : Holds(place[k], w)}
    BY TakenMembers
  <2>2. SlotsTaken(w)' = {k \in Jobs' : Holds(place'[k], w)}
    BY TakenMembersNext DEF Holds
  <2>3. SlotsTaken(w)' = SlotsTaken(w)
    BY <2>1, <2>2
  <2> QED BY <2>3 DEF SlotsFree, SharersOf
<1>2. \A w \in Workers : IsFiniteSet(SlotsFree(w))' /\ IsFiniteSet(SlotsTaken(w))'
  BY <1>1 DEF CountInv
<1>3. SlotsMoveBetweenSharers'
  BY <1>1 DEF CountInv, SlotsMoveBetweenSharers
<1> QED BY <1>2, <1>3 DEF CountInv

-----------------------------------------------------------------------------
(* The initial states.                                                     *)

LEMMA InitCount ==
  ASSUME EdgeInit, EdgeTypeOK
  PROVE  CountInv
<1> SUFFICES ASSUME NEW w \in Workers
    PROVE  /\ IsFiniteSet(SlotsFree(w)) /\ IsFiniteSet(SlotsTaken(w))
           /\ Cardinality(SlotsFree(w)) + Cardinality(SlotsTaken(w))
                = Cardinality(SharersOf(w)) * cluster.max_num_jobs_per_worker
  BY DEF CountInv, SlotsMoveBetweenSharers
<1> DEFINE S == SharersOf(w)
           n == cluster.max_num_jobs_per_worker
<1>1. n \in Nat \ {0} /\ IsFiniteSet(S)
  BY ClusterFacts
<1>2. \A j \in Jobs : place[j] = <<"unsent">>
  BY DEF EdgeInit, Jobs
<1>3. SlotsTaken(w) = {}
  BY <1>2, TakenMembers DEF Holds, Holding
<1>4. \A m \in Masters : slots[m][w] = IF m \in S THEN n ELSE 0
  BY DEF EdgeInit, InitialSlots, SharersOf
<1>5. SlotsFree(w) = S \X (1..n)
  <2>1. ASSUME NEW x PROVE x \in SlotsFree(w) <=> x \in S \X (1..n)
    <3>1. x \in SlotsFree(w) <=> \E m \in Masters : \E i \in 1..slots[m][w] : x = <<m, i>>
      BY FreeMembers
    <3>2. x \in S \X (1..n) <=> \E m \in S : \E i \in 1..n : x = <<m, i>>
      <4> DEFINE I == 1..n
      <4> HIDE DEF I, S
      <4>1. x \in S \X I <=> \E m \in S : \E i \in I : x = <<m, i>>
        OBVIOUS
      <4> QED BY <4>1 DEF I
    <3>3. S \subseteq Masters
      BY DEF SharersOf
    <3>4. ASSUME NEW m \in Masters, NEW i
          PROVE  i \in 1..slots[m][w] <=> m \in S /\ i \in 1..n
      <4> HIDE DEF S, n
      <4>1. CASE m \in S
        BY <1>4, <4>1
      <4>2. CASE m \notin S
        <5>1. slots[m][w] = 0
          BY <1>4, <4>2
        <5> QED BY <5>1, <4>2
      <4> QED BY <4>1, <4>2
    <3> HIDE DEF S, n
    <3> QED BY <3>1, <3>2, <3>3, <3>4
  <2> QED BY <2>1
<1>6. IsFiniteSet(1..n) /\ Cardinality(1..n) = n
  <2>1. n \in Nat
    BY <1>1
  <2> HIDE DEF n
  <2>2. IsFiniteSet(1..n) /\ Cardinality(1..n) = IF 1 > n THEN 0 ELSE n - 1 + 1
    BY <2>1, FS_Interval
  <2> QED BY <2>1, <2>2
<1>7. IsFiniteSet(S \X (1..n)) /\ Cardinality(S \X (1..n)) = Cardinality(S) * Cardinality(1..n)
  BY <1>1, <1>6, FS_Product
<1>8. Cardinality(SlotsTaken(w)) = 0 /\ IsFiniteSet(SlotsTaken(w))
  BY <1>3, FS_EmptySet, Zenon
<1>9. Cardinality(SlotsFree(w)) = Cardinality(S) * n
  BY <1>5, <1>6, <1>7
<1>10. Cardinality(S) \in Nat
  BY <1>1, FS_CardinalityType
<1>11. Cardinality(S) * n \in Nat
  BY <1>1, <1>10
<1>12. IsFiniteSet(SlotsFree(w))
  BY <1>5, <1>7
<1> HIDE DEF S, n
<1> QED BY <1>8, <1>9, <1>11, <1>12 DEF S, n

LEMMA InitEInv == EdgeInit => EInv
<1> SUFFICES ASSUME EdgeInit PROVE EInv
  OBVIOUS
<1>1. \A j \in Jobs : place[j] = <<"unsent">> /\ place[j][1] = "unsent"
  BY DEF EdgeInit, Jobs
<1>2. /\ cluster \in Clusters /\ cluster.max_num_jobs_per_worker \in Nat
      /\ cluster.wip_l \in [Masters -> SUBSET Workers]
  BY ClustersAssumption DEF EdgeInit
<1>3. EdgeTypeOK
  <2>1. \A m \in Masters, w \in Workers : InitialSlots(m, w) \in Nat
    BY <1>2 DEF InitialSlots
  <2>2. slots \in [Masters -> [Workers -> Nat]]
    BY <2>1 DEF EdgeInit
  <2> QED BY <1>1, <1>2, <2>2 DEF EdgeTypeOK, EdgeInit
<1>4. PlacesInv
  <2>1. \A j \in Jobs : j.cid \in Clients /\ j.mid \in Masters /\ j.mid \in cluster.sid_ip_m[j.cid]
    BY DEF EdgeInit, Jobs
  <2>2. place = [j \in Jobs |-> place[j]]
    BY DEF EdgeInit, Jobs
  <2> QED BY <1>1, <2>1, <2>2 DEF PlacesInv, PlaceOK, InWorker
<1>5. SlotsInv
  <2>1. ASSUME NEW m \in Masters, NEW w \in Workers, w \notin cluster.wip_l[m]
        PROVE  slots[m][w] = 0
    BY <2>1 DEF EdgeInit, InitialSlots
  <2> QED BY <2>1 DEF SlotsInv
<1>6. AttachInv
  BY <1>1 DEF AttachInv, EdgeInit, InWorker
<1>7. OnTimeInv
  BY <1>1 DEF OnTimeInv, EdgeInit, InWorker
<1>8. CountInv
  BY <1>3, InitCount
<1>9. ResultsComeHome /\ LossesHaveACause
  BY <1>1 DEF ResultsComeHome, LossesHaveACause
<1> QED BY <1>3, <1>4, <1>5, <1>6, <1>7, <1>8, <1>9 DEF EInv

-----------------------------------------------------------------------------
(* What a step leaves alone.                                               *)

Kinds == {"unsent", "way", "queue", "inbox", "sid", "sip", "job_q",
          "serving", "result", "reply", "finished", "lost"}

HomeOK(j) ==
  HasItsOwnWorkers(j.mid) =>
    /\ place[j][1] = "result" => place[j][3] = j.mid /\ place[j][4] = j.mid
    /\ place[j][1] \in {"reply", "finished"} => place[j][2] = j.mid

CauseOK(j) ==
  place[j][1] = "lost" =>
    \/ j.mid \in gone
    \/ ~HasItsOwnWorkers(j.mid)
    \/ IF place[j][2] = None THEN <<j.cid, j.mid>> \in deaf
       ELSE place[j][2] \in early \/ cluster.max_num_jobs_per_worker > 1

JobOK(j) == place[j][1] \in Kinds /\ PlaceOK(j) /\ HomeOK(j) /\ CauseOK(j)

JobsInv ==
  place = [j \in Jobs |-> place[j]] /\ \A j \in Jobs : JobOK(j)

\* The parts of EInv that are about one job at a time.
LEMMA JobsInvParts ==
  JobsInv <=> /\ PlacesInv /\ ResultsComeHome /\ LossesHaveACause
              /\ \A j \in Jobs : place[j][1] \in Kinds
<1>1. ResultsComeHome <=> \A j \in Jobs : HomeOK(j)
  BY DEF ResultsComeHome, HomeOK
<1>2. LossesHaveACause <=> \A j \in Jobs : CauseOK(j)
  BY DEF LossesHaveACause, CauseOK
<1> QED BY <1>1, <1>2 DEF JobsInv, JobOK, PlacesInv

LEMMA JobsInvPartsNext ==
  (JobsInv <=> /\ PlacesInv /\ ResultsComeHome /\ LossesHaveACause
               /\ \A j \in Jobs : place[j][1] \in Kinds)'
  BY JobsInvParts, PTL

OtherTypes ==
  /\ cluster \in Clusters
  /\ on \subseteq Clients /\ sending \subseteq Clients /\ answered \subseteq Clients \X Masters
  /\ stage \in [Masters \cup Workers -> {"commer", "fc_server", "sid", "up"}]
  /\ run \in [Masters -> {"awake", "asleep", "died"}]
  /\ slots \in [Masters -> [Workers -> Nat]]
  /\ deaf \subseteq Clients \X Masters
  /\ sid \in [Workers -> Masters \cup {None}] /\ sip \in [Workers -> Masters \cup {None}]
  /\ stopped \subseteq Workers /\ early \subseteq Workers
  /\ gone \subseteq Masters /\ raced \subseteq Masters

LEMMA TypesParts == EdgeTypeOK <=> OtherTypes /\ \A j \in Jobs : place[j][1] \in Kinds
  BY DEF EdgeTypeOK, OtherTypes, Kinds

LEMMA TypesPartsNext == (EdgeTypeOK <=> OtherTypes /\ \A j \in Jobs : place[j][1] \in Kinds)'
  BY TypesParts, PTL

\* EInv, in the parts the steps disturb.
LEMMA EInvParts ==
  EInv <=> OtherTypes /\ JobsInv /\ SlotsInv /\ AttachInv /\ OnTimeInv /\ CountInv
  BY JobsInvParts, TypesParts DEF EInv

LEMMA EInvPartsNext ==
  (EInv <=> OtherTypes /\ JobsInv /\ SlotsInv /\ AttachInv /\ OnTimeInv /\ CountInv)'
  BY EInvParts, PTL

\* What the steps only ever add to.
Grown ==
  cluster' = cluster /\ gone \subseteq gone' /\ deaf \subseteq deaf' /\ early \subseteq early'

LEMMA JobUnmoved ==
  ASSUME Grown, NEW k, JobOK(k), place'[k] = place[k]
  PROVE  JobOK(k)'
<1>1. SharersOf(place[k][2])' = SharersOf(place[k][2])
  BY DEF SharersOf, Grown
<1>2. PlaceOK(k)'
  BY <1>1 DEF PlaceOK, JobOK, Grown
<1>3. HasItsOwnWorkers(k.mid)' = HasItsOwnWorkers(k.mid)
  BY DEF HasItsOwnWorkers, SharersOf, Grown
<1>4. HomeOK(k)'
  BY <1>3 DEF HomeOK, JobOK
<1>5. CauseOK(k)'
  BY <1>3 DEF CauseOK, JobOK, Grown
<1> QED BY <1>2, <1>4, <1>5 DEF JobOK

LEMMA JobMoved ==
  ASSUME JobsInv, Grown, NEW j \in Jobs, NEW p, Move(j, p), JobOK(j)'
  PROVE  JobsInv'
<1>1. PlacesInv
  BY JobsInvParts
<1>2. /\ Jobs' = Jobs
      /\ place' = [k \in Jobs' |-> place'[k]]
      /\ \A k \in Jobs : k # j => place'[k] = place[k]
  BY <1>1, MoveFacts
<1>3. ASSUME NEW k \in Jobs PROVE JobOK(k)'
  <2>1. CASE k = j
    BY <2>1
  <2>2. CASE k # j
    BY <1>2, <2>2, JobUnmoved DEF JobsInv
  <2> QED BY <2>1, <2>2
<1> QED BY <1>2, <1>3 DEF JobsInv

LEMMA NoJobMoved ==
  ASSUME JobsInv, Grown, place' = place
  PROVE  JobsInv'
<1>1. Jobs' = Jobs
  BY DEF Jobs
<1>2. \A k \in Jobs : JobOK(k)'
  BY JobUnmoved DEF JobsInv
<1> QED BY <1>1, <1>2 DEF JobsInv

LEMMA SlotsStable ==
  ASSUME SlotsInv, UNCHANGED <<cluster, slots>>
  PROVE  SlotsInv'
  BY DEF SlotsInv

LEMMA SharersStable ==
  ASSUME cluster' = cluster, NEW w
  PROVE  SharersOf(w)' = SharersOf(w) /\ HasOneSlot(w)' = HasOneSlot(w)
  BY DEF SharersOf, HasOneSlot

\* No job comes to a worker or leaves one.
LEMMA AttachStable ==
  ASSUME AttachInv, OnTimeInv, Jobs' = Jobs, UNCHANGED <<cluster, sid, sip, early>>,
         \A w \in Workers : stage'[w] = stage[w],
         \A k \in Jobs :
           place'[k] = place[k] \/ (place[k][1] \notin InWorker /\ place'[k][1] \notin InWorker)
  PROVE  AttachInv' /\ OnTimeInv'
<1>1. AttachInv'
  <2> SUFFICES ASSUME NEW w \in Workers
      PROVE  /\ sid'[w] \in SharersOf(w)' \cup {None} /\ sip'[w] \in SharersOf(w)' \cup {None}
             /\ sip'[w] # None => sid'[w] # None
             /\ stage'[w] = "commer" => sid'[w] = None
             /\ \A j \in Jobs : place'[j][1] \in InWorker /\ place'[j][2] = w =>
                  /\ stage'[w] # "commer"
                  /\ place'[j][1] = "sip" => sid'[w] # None
    BY DEF AttachInv
  <2>1. SharersOf(w)' = SharersOf(w)
    BY SharersStable
  <2> QED BY <2>1 DEF AttachInv
<1>2. OnTimeInv'
  <2> SUFFICES ASSUME NEW w \in Workers, w \notin early, HasOneSlot(w)'
      PROVE  /\ sid'[w] # None => \/ sip'[w] # None
                        \/ \E k \in Jobs : place'[k][1] = "sip" /\ place'[k][2] = w
             /\ stage'[w] # "up" => sid'[w] = None
             /\ \A j \in Jobs : place'[j][1] \in InWorker /\ place'[j][2] = w =>
                  /\ stage'[w] = "up"
                  /\ place'[j][1] \in {"job_q", "serving"} => sip'[w] # None
    BY DEF OnTimeInv
  <2>1. HasOneSlot(w)
    BY SharersStable
  <2>2. ASSUME NEW k \in Jobs, place[k][1] = "sip" PROVE place'[k] = place[k]
    BY <2>2 DEF InWorker
  <2> QED BY <2>1, <2>2 DEF OnTimeInv
<1> QED BY <1>1, <1>2

-----------------------------------------------------------------------------
(* The steps of the clients.                                               *)

LEMMA SendStep ==
  ASSUME EInv, NEW j \in Jobs, Send(j)
  PROVE  EInv'
<1>1. OtherTypes /\ JobsInv /\ SlotsInv /\ AttachInv /\ OnTimeInv /\ CountInv
  BY EInvParts
<1>2. /\ UNCHANGED <<cluster, on, answered, masterVars, attachVars, gone>>
      /\ place[j] = <<"unsent">> /\ sending' \subseteq sending
      /\ \/ Move(j, <<"lost", None>>) /\ j.mid \in gone
         \/ Move(j, <<"way">>)
  BY DEF Send
<1>3. OtherTypes'
  BY <1>1, <1>2 DEF OtherTypes, masterVars, attachVars
<1>4. Grown
  BY <1>2 DEF Grown, masterVars, attachVars
<1>5. /\ Jobs' = Jobs /\ \A k \in Jobs : k # j => place'[k] = place[k]
      /\ place'[j] = <<"way">> \/ (place'[j] = <<"lost", None>> /\ j.mid \in gone)
  <2>1. PlacesInv
    BY <1>1, JobsInvParts
  <2>2. CASE Move(j, <<"way">>)
    BY <2>1, <2>2, MoveFacts
  <2>3. CASE Move(j, <<"lost", None>>) /\ j.mid \in gone
    BY <2>1, <2>3, MoveFacts
  <2> QED BY <1>2, <2>2, <2>3
<1>6. JobsInv'
  <2>1. JobOK(j)'
    BY <1>1, <1>2, <1>5, ClusterFacts DEF JobsInv, JobOK, PlaceOK, HomeOK, CauseOK, InWorker, Kinds
  <2> QED BY <1>1, <1>2, <1>4, <2>1, JobMoved
<1>7. SlotsInv'
  BY <1>1, <1>2, SlotsStable DEF masterVars
<1>8. AttachInv' /\ OnTimeInv'
  <2>1. UNCHANGED <<cluster, sid, sip, early>> /\ stage' = stage
    BY <1>2 DEF masterVars, attachVars
  <2>2. place[j][1] \notin InWorker /\ place'[j][1] \notin InWorker
    BY <1>2, <1>5 DEF InWorker
  <2> QED BY <1>1, <1>5, <2>1, <2>2, AttachStable
<1>9. CountInv'
  <2>1. \A w \in Workers : w # None
    BY ClustersAssumption
  <2>2. \A k \in Jobs : \A w \in Workers : Holds(place'[k], w) <=> Holds(place[k], w)
    BY <1>2, <1>5, <2>1 DEF Holds, Holding
  <2> QED BY <1>1, <1>2, <1>5, <2>2, CountStable DEF masterVars
<1> QED BY <1>3, <1>6, <1>7, <1>8, <1>9, EInvPartsNext

LEMMA ReceiveStep ==
  ASSUME EInv, NEW j \in Jobs, Receive(j)
  PROVE  EInv'
<1>1. OtherTypes /\ JobsInv /\ SlotsInv /\ AttachInv /\ OnTimeInv /\ CountInv
  BY EInvParts
<1>2. /\ UNCHANGED <<cluster, sending, masterVars, attachVars, gone>>
      /\ place[j][1] = "reply" /\ Move(j, <<"finished", place[j][2]>>)
      /\ on' \subseteq on /\ answered' = answered \cup {<<j.cid, place[j][2]>>}
  BY DEF Receive
<1>3. JobOK(j) /\ j.cid \in Clients /\ place[j][2] \in Masters
  BY <1>1, <1>2 DEF JobsInv, JobOK, PlaceOK
<1>4. OtherTypes'
  BY <1>1, <1>2, <1>3 DEF OtherTypes, masterVars, attachVars
<1>5. Grown
  BY <1>2 DEF Grown, masterVars, attachVars
<1>6. /\ Jobs' = Jobs /\ \A k \in Jobs : k # j => place'[k] = place[k]
      /\ place'[j] = <<"finished", place[j][2]>>
  BY <1>1, <1>2, MoveFacts, JobsInvParts
<1>7. JobsInv'
  <2>1. PlaceOK(j)'
    BY <1>2, <1>3, <1>6 DEF JobOK, PlaceOK, InWorker
  <2>2. HasItsOwnWorkers(j.mid)' = HasItsOwnWorkers(j.mid)
    BY <1>2 DEF HasItsOwnWorkers, SharersOf
  <2>3. JobOK(j)'
    BY <1>2, <1>3, <1>6, <2>1, <2>2 DEF JobOK, HomeOK, CauseOK, Kinds
  <2> QED BY <1>1, <1>2, <1>5, <2>3, JobMoved
<1>8. SlotsInv'
  BY <1>1, <1>2, SlotsStable DEF masterVars
<1>9. AttachInv' /\ OnTimeInv'
  <2>1. UNCHANGED <<cluster, sid, sip, early>> /\ stage' = stage
    BY <1>2 DEF masterVars, attachVars
  <2>2. place[j][1] \notin InWorker /\ place'[j][1] \notin InWorker
    BY <1>2, <1>6 DEF InWorker
  <2> QED BY <1>1, <1>6, <2>1, <2>2, AttachStable
<1>10. CountInv'
  <2>1. \A k \in Jobs : \A w \in Workers : Holds(place'[k], w) <=> Holds(place[k], w)
    BY <1>2, <1>6 DEF Holds, Holding
  <2> QED BY <1>1, <1>2, <1>6, <2>1, CountStable DEF masterVars
<1> QED BY <1>4, <1>7, <1>8, <1>9, <1>10, EInvPartsNext

-----------------------------------------------------------------------------
(* The steps of the masters.                                               *)

LEMMA ConstructMasterStep ==
  ASSUME EInv, NEW m \in Masters, ConstructMaster(m)
  PROVE  EInv'
<1>1. OtherTypes /\ JobsInv /\ SlotsInv /\ AttachInv /\ OnTimeInv /\ CountInv
  BY EInvParts
<1>2. /\ UNCHANGED <<cluster, place, clientVars, run, slots, deaf, raced, attachVars, gone>>
      /\ stage' = [stage EXCEPT ![m] = IF @ = "commer" THEN "fc_server" ELSE "up"]
  BY DEF ConstructMaster
<1>3. OtherTypes'
  BY <1>1, <1>2 DEF OtherTypes, clientVars, attachVars
<1>4. JobsInv'
  BY <1>1, <1>2, NoJobMoved DEF Grown, attachVars
<1>5. SlotsInv'
  BY <1>1, <1>2, SlotsStable
<1>6. AttachInv' /\ OnTimeInv'
  <2>1. UNCHANGED <<cluster, sid, sip, early>> /\ place' = place /\ Jobs' = Jobs
    BY <1>2 DEF attachVars, Jobs
  <2>2. \A w \in Workers : stage'[w] = stage[w]
    BY <1>1, <1>2, MastersAssumption DEF OtherTypes
  <2> QED BY <1>1, <2>1, <2>2, AttachStable
<1>7. CountInv'
  BY <1>1, <1>2, CountStable DEF Jobs
<1> QED BY <1>3, <1>4, <1>5, <1>6, <1>7, EInvPartsNext

LEMMA SleepStep ==
  ASSUME EInv, NEW m \in Masters, Sleep(m)
  PROVE  EInv'
<1>1. OtherTypes /\ JobsInv /\ SlotsInv /\ AttachInv /\ OnTimeInv /\ CountInv
  BY EInvParts
<1>2. /\ UNCHANGED <<cluster, place, clientVars, stage, slots, deaf, raced, attachVars, gone>>
      /\ run' = [run EXCEPT ![m] = "asleep"]
  BY DEF Sleep
<1>3. OtherTypes'
  BY <1>1, <1>2 DEF OtherTypes, clientVars, attachVars
<1>4. JobsInv'
  BY <1>1, <1>2, NoJobMoved DEF Grown, attachVars
<1>5. SlotsInv'
  BY <1>1, <1>2, SlotsStable
<1>6. AttachInv' /\ OnTimeInv'
  BY <1>1, <1>2, AttachStable DEF attachVars, Jobs
<1>7. CountInv'
  BY <1>1, <1>2, CountStable DEF Jobs
<1> QED BY <1>3, <1>4, <1>5, <1>6, <1>7, EInvPartsNext

\* A job comes to the queue, or is lost, in the listener.
LEMMA ListenEarlyStep ==
  ASSUME EInv, NEW j \in Jobs, ListenEarly(j)
  PROVE  EInv'
<1>1. OtherTypes /\ JobsInv /\ SlotsInv /\ AttachInv /\ OnTimeInv /\ CountInv /\ PlacesInv
  BY EInvParts, JobsInvParts
<1>2. /\ UNCHANGED <<cluster, clientVars, stage, run, slots, raced, attachVars, gone>>
      /\ place[j] = <<"way">> /\ deaf' = deaf \cup {<<j.cid, j.mid>>}
      /\ Move(j, <<"lost", None>>) \/ Move(j, <<"queue">>)
  BY DEF ListenEarly
<1>3. JobOK(j) /\ j.cid \in Clients /\ j.mid \in Masters
  BY <1>1 DEF JobsInv, JobOK, PlaceOK
<1>4. OtherTypes'
  BY <1>1, <1>2, <1>3 DEF OtherTypes, clientVars, attachVars
<1>5. Grown
  BY <1>2 DEF Grown, attachVars
<1>6. /\ Jobs' = Jobs /\ \A k \in Jobs : k # j => place'[k] = place[k]
      /\ place'[j] = <<"lost", None>> \/ place'[j] = <<"queue">>
  <2>1. CASE Move(j, <<"lost", None>>)
    BY <1>1, <2>1, MoveFacts
  <2>2. CASE Move(j, <<"queue">>)
    BY <1>1, <2>2, MoveFacts
  <2> QED BY <1>2, <2>1, <2>2
<1>7. JobsInv'
  <2>1. JobOK(j)'
    BY <1>2, <1>3, <1>6 DEF JobOK, PlaceOK, HomeOK, CauseOK, InWorker, Kinds
  <2> QED BY <1>1, <1>2, <1>5, <2>1, JobMoved
<1>8. SlotsInv'
  BY <1>1, <1>2, SlotsStable
<1>9. AttachInv' /\ OnTimeInv'
  <2>1. UNCHANGED <<cluster, sid, sip, early, stage>>
    BY <1>2 DEF attachVars
  <2>2. place[j][1] \notin InWorker /\ place'[j][1] \notin InWorker
    BY <1>2, <1>6 DEF InWorker
  <2> QED BY <1>1, <1>6, <2>1, <2>2, AttachStable
<1>10. CountInv'
  <2>1. \A w \in Workers : w # None
    BY ClustersAssumption
  <2>2. \A k \in Jobs : \A w \in Workers : Holds(place'[k], w) <=> Holds(place[k], w)
    BY <1>2, <1>6, <2>1 DEF Holds, Holding
  <2> QED BY <1>1, <1>2, <1>6, <2>2, CountStable
<1> QED BY <1>4, <1>7, <1>8, <1>9, <1>10, EInvPartsNext

LEMMA ListenStep ==
  ASSUME EInv, NEW j \in Jobs, Listen(j)
  PROVE  EInv'
<1>1. OtherTypes /\ JobsInv /\ SlotsInv /\ AttachInv /\ OnTimeInv /\ CountInv /\ PlacesInv
  BY EInvParts, JobsInvParts
<1>2. /\ UNCHANGED <<cluster, clientVars, stage, slots, deaf, attachVars, gone>>
      /\ place[j] = <<"way">> /\ Move(j, <<"queue">>)
  BY DEF Listen
<1>3. JobOK(j) /\ j.mid \in Masters
  BY <1>1 DEF JobsInv, JobOK, PlaceOK
<1>4. OtherTypes'
  <2>1. run' \in [Masters -> {"awake", "asleep", "died"}] /\ raced' \subseteq Masters
    BY <1>1, <1>3 DEF Listen, Woken, OtherTypes
  <2> QED BY <1>1, <1>2, <2>1 DEF OtherTypes, clientVars, attachVars
<1>5. Grown
  BY <1>2 DEF Grown, attachVars
<1>6. /\ Jobs' = Jobs /\ \A k \in Jobs : k # j => place'[k] = place[k]
      /\ place'[j] = <<"queue">>
  BY <1>1, <1>2, MoveFacts
<1>7. JobsInv'
  <2>1. JobOK(j)'
    BY <1>2, <1>3, <1>6 DEF JobOK, PlaceOK, HomeOK, CauseOK, InWorker, Kinds
  <2> QED BY <1>1, <1>2, <1>5, <2>1, JobMoved
<1>8. SlotsInv'
  BY <1>1, <1>2, SlotsStable
<1>9. AttachInv' /\ OnTimeInv'
  <2>1. UNCHANGED <<cluster, sid, sip, early, stage>>
    BY <1>2 DEF attachVars
  <2>2. place[j][1] \notin InWorker /\ place'[j][1] \notin InWorker
    BY <1>2, <1>6 DEF InWorker
  <2> QED BY <1>1, <1>6, <2>1, <2>2, AttachStable
<1>10. CountInv'
  <2>1. \A k \in Jobs : \A w \in Workers : Holds(place'[k], w) <=> Holds(place[k], w)
    BY <1>2, <1>6 DEF Holds, Holding
  <2> QED BY <1>1, <1>2, <1>6, <2>1, CountStable
<1> QED BY <1>4, <1>7, <1>8, <1>9, <1>10, EInvPartsNext

\* One slot of w leaves a queue of a master, and one job takes it.
LEMMA DispatchCount ==
  ASSUME EInv, NEW j \in Jobs, NEW w \in Workers, Dispatch(j, w)
  PROVE  CountInv'
<1>1. OtherTypes /\ JobsInv /\ CountInv /\ PlacesInv
  BY EInvParts, JobsInvParts
<1>2. j.mid \in Masters
  BY <1>1 DEF PlacesInv, PlaceOK
<1> DEFINE m == j.mid
           n == slots[m][w]
<1>3. /\ cluster' = cluster /\ n \in Nat /\ n > 0
      /\ slots' = [slots EXCEPT ![m][w] = n - 1]
      /\ place[j] = <<"queue">> /\ Move(j, <<"inbox", w>>)
  BY <1>1, <1>2 DEF Dispatch, Queued, MayTake, Taken, OtherTypes
<1>4. /\ slots'[m][w] = n - 1
      /\ \A l \in Masters, v \in Workers : (l # m \/ v # w) => slots'[l][v] = slots[l][v]
  BY <1>1, <1>2, <1>3 DEF OtherTypes
<1>5. /\ Jobs' = Jobs /\ \A k \in Jobs : k # j => place'[k] = place[k]
      /\ place'[j] = <<"inbox", w>>
  BY <1>1, <1>3, MoveFacts
<1> SUFFICES ASSUME NEW v \in Workers
    PROVE  /\ IsFiniteSet(SlotsFree(v))' /\ IsFiniteSet(SlotsTaken(v))'
           /\ Cardinality(SlotsFree(v))' + Cardinality(SlotsTaken(v))'
                = Cardinality(SharersOf(v))' * cluster'.max_num_jobs_per_worker
  BY DEF CountInv, SlotsMoveBetweenSharers
<1>6. SharersOf(v)' = SharersOf(v)
  BY <1>3 DEF SharersOf
<1>7. /\ IsFiniteSet(SlotsFree(v)) /\ IsFiniteSet(SlotsTaken(v))
      /\ Cardinality(SlotsFree(v)) + Cardinality(SlotsTaken(v))
           = Cardinality(SharersOf(v)) * cluster.max_num_jobs_per_worker
  BY <1>1 DEF CountInv, SlotsMoveBetweenSharers
<1>8. SlotsTaken(v) = {k \in Jobs : Holds(place[k], v)}
  BY TakenMembers
<1>9. SlotsTaken(v)' = {k \in Jobs : Holds(place'[k], v)}
  BY <1>5, TakenMembersNext DEF Holds
<1>10. CASE v # w
  <2>1. SlotsTaken(v)' = SlotsTaken(v)
    BY <1>3, <1>5, <1>8, <1>9, <1>10 DEF Holds, Holding
  <2>2. SlotsFree(v)' = SlotsFree(v)
    <3>1. ASSUME NEW x PROVE x \in SlotsFree(v)' <=> x \in SlotsFree(v)
      <4>1. x \in SlotsFree(v) <=> \E l \in Masters : \E i \in 1..slots[l][v] : x = <<l, i>>
        BY FreeMembers
      <4>2. x \in SlotsFree(v)' <=> \E l \in Masters : \E i \in 1..slots'[l][v] : x = <<l, i>>
        BY FreeMembersNext
      <4> QED BY <1>4, <1>10, <4>1, <4>2
    <3> QED BY <3>1
  <2> QED BY <1>3, <1>6, <1>7, <2>1, <2>2
<1>11. CASE v = w
  <2>1. SlotsTaken(v)' = SlotsTaken(v) \cup {j} /\ j \notin SlotsTaken(v)
    BY <1>3, <1>5, <1>8, <1>9, <1>11 DEF Holds, Holding
  <2>2. SlotsFree(v)' = SlotsFree(v) \ {<<m, n>>} /\ <<m, n>> \in SlotsFree(v)
    <3>1. ASSUME NEW x PROVE x \in SlotsFree(w)' <=> x \in SlotsFree(w) /\ x # <<m, n>>
      <4>1. x \in SlotsFree(w) <=> \E l \in Masters : \E i \in 1..slots[l][w] : x = <<l, i>>
        BY FreeMembers
      <4>2. x \in SlotsFree(w)' <=> \E l \in Masters : \E i \in 1..slots'[l][w] : x = <<l, i>>
        BY FreeMembersNext
      <4>3. ASSUME NEW l \in Masters, NEW i
            PROVE  i \in 1..slots'[l][w] <=> i \in 1..slots[l][w] /\ <<l, i>> # <<m, n>>
        <5>1. CASE l = m
          BY <1>3, <1>4, <5>1
        <5>2. CASE l # m
          BY <1>4, <5>2
        <5> QED BY <5>1, <5>2
      <4> QED BY <4>1, <4>2, <4>3
    <3>2. <<m, n>> \in SlotsFree(w)
      BY <1>2, <1>3, FreeMembers
    <3> QED BY <1>11, <3>1, <3>2
  <2>3. IsFiniteSet(SlotsTaken(v)') /\ Cardinality(SlotsTaken(v)') = Cardinality(SlotsTaken(v)) + 1
    BY <1>7, <2>1, FS_AddElement
  <2>4. IsFiniteSet(SlotsFree(v)') /\ Cardinality(SlotsFree(v)') = Cardinality(SlotsFree(v)) - 1
    <3> DEFINE q == <<m, n>>
    <3> HIDE DEF q
    <3>1. SlotsFree(v)' = SlotsFree(v) \ {q} /\ q \in SlotsFree(v)
      BY <2>2 DEF q
    <3>2. /\ IsFiniteSet(SlotsFree(v) \ {q})
          /\ Cardinality(SlotsFree(v) \ {q}) = Cardinality(SlotsFree(v)) - 1
      BY <1>7, <3>1, FS_RemoveElement
    <3> QED BY <3>1, <3>2, Zenon
  <2>5. Cardinality(SlotsFree(v)) \in Nat /\ Cardinality(SlotsTaken(v)) \in Nat
    BY <1>7, FS_CardinalityType
  <2> QED BY <1>3, <1>6, <1>7, <2>3, <2>4, <2>5
<1> QED BY <1>10, <1>11

LEMMA DispatchStep ==
  ASSUME EInv, NEW j \in Jobs, NEW w \in Workers, Dispatch(j, w)
  PROVE  EInv'
<1>1. OtherTypes /\ JobsInv /\ SlotsInv /\ AttachInv /\ OnTimeInv /\ CountInv /\ PlacesInv
  BY EInvParts, JobsInvParts
<1>2. JobOK(j) /\ j.mid \in Masters
  BY <1>1 DEF JobsInv, JobOK, PlaceOK
<1>3. /\ UNCHANGED <<cluster, clientVars, stage, run, deaf, raced, attachVars, gone>>
      /\ slots[j.mid][w] \in Nat /\ slots[j.mid][w] > 0
      /\ slots' = [slots EXCEPT ![j.mid][w] = slots[j.mid][w] - 1]
      /\ place[j] = <<"queue">> /\ Move(j, <<"inbox", w>>)
  BY <1>1, <1>2 DEF Dispatch, Queued, MayTake, Taken, OtherTypes
<1>4. OtherTypes'
  BY <1>1, <1>2, <1>3 DEF OtherTypes, clientVars, attachVars
<1>5. Grown
  BY <1>3 DEF Grown, attachVars
<1>6. /\ Jobs' = Jobs /\ \A k \in Jobs : k # j => place'[k] = place[k]
      /\ place'[j] = <<"inbox", w>>
  BY <1>1, <1>3, MoveFacts
<1>7. JobsInv'
  <2>1. w \in cluster.wip_l[j.mid]
    BY <1>1, <1>2, <1>3 DEF SlotsInv
  <2>2. JobOK(j)'
    BY <1>2, <1>3, <1>6, <2>1 DEF JobOK, PlaceOK, HomeOK, CauseOK, InWorker, Kinds
  <2> QED BY <1>1, <1>3, <1>5, <2>2, JobMoved
<1>8. SlotsInv'
  BY <1>1, <1>2, <1>3 DEF SlotsInv, OtherTypes
<1>9. AttachInv' /\ OnTimeInv'
  <2>1. UNCHANGED <<cluster, sid, sip, early, stage>>
    BY <1>3 DEF attachVars
  <2>2. place[j][1] \notin InWorker /\ place'[j][1] \notin InWorker
    BY <1>3, <1>6 DEF InWorker
  <2> QED BY <1>1, <1>6, <2>1, <2>2, AttachStable
<1>10. CountInv'
  BY DispatchCount
<1> QED BY <1>4, <1>7, <1>8, <1>9, <1>10, EInvPartsNext

\* A slot of w comes to the queue of the master that got the result.
LEMMA HandleCount ==
  ASSUME EInv, NEW j \in Jobs, NEW w \in Workers, NEW m \in Masters,
         cluster' = cluster, slots' = [slots EXCEPT ![m][w] = @ + 1],
         Jobs' = Jobs, \A k \in Jobs : k # j => place'[k] = place[k],
         Holds(place[j], w), \A v \in Workers : ~Holds(place'[j], v)
  PROVE  CountInv'
<1>1. OtherTypes /\ CountInv
  BY EInvParts
<1> DEFINE n == slots[m][w]
<1>2. n \in Nat /\ slots'[m][w] = n + 1
  BY <1>1 DEF OtherTypes
<1>3. \A l \in Masters, v \in Workers : (l # m \/ v # w) => slots'[l][v] = slots[l][v]
  BY <1>1 DEF OtherTypes
<1> SUFFICES ASSUME NEW v \in Workers
    PROVE  /\ IsFiniteSet(SlotsFree(v))' /\ IsFiniteSet(SlotsTaken(v))'
           /\ Cardinality(SlotsFree(v))' + Cardinality(SlotsTaken(v))'
                = Cardinality(SharersOf(v))' * cluster'.max_num_jobs_per_worker
  BY DEF CountInv, SlotsMoveBetweenSharers
<1>4. SharersOf(v)' = SharersOf(v)
  BY DEF SharersOf
<1>5. /\ IsFiniteSet(SlotsFree(v)) /\ IsFiniteSet(SlotsTaken(v))
      /\ Cardinality(SlotsFree(v)) + Cardinality(SlotsTaken(v))
           = Cardinality(SharersOf(v)) * cluster.max_num_jobs_per_worker
  BY <1>1 DEF CountInv, SlotsMoveBetweenSharers
<1>6. SlotsTaken(v) = {k \in Jobs : Holds(place[k], v)}
  BY TakenMembers
<1>7. SlotsTaken(v)' = {k \in Jobs : Holds(place'[k], v)}
  BY TakenMembersNext DEF Holds
<1>8. CASE v # w
  <2>1. ~Holds(place[j], v)
    BY <1>8 DEF Holds
  <2>2. SlotsTaken(v)' = SlotsTaken(v)
    BY <1>6, <1>7, <2>1
  <2>3. SlotsFree(v)' = SlotsFree(v)
    <3>1. ASSUME NEW x PROVE x \in SlotsFree(v)' <=> x \in SlotsFree(v)
      <4>1. x \in SlotsFree(v) <=> \E l \in Masters : \E i \in 1..slots[l][v] : x = <<l, i>>
        BY FreeMembers
      <4>2. x \in SlotsFree(v)' <=> \E l \in Masters : \E i \in 1..slots'[l][v] : x = <<l, i>>
        BY FreeMembersNext
      <4> QED BY <1>3, <1>8, <4>1, <4>2
    <3> QED BY <3>1
  <2> QED BY <1>4, <1>5, <2>2, <2>3
<1>9. CASE v = w
  <2>1. SlotsTaken(v)' = SlotsTaken(v) \ {j} /\ j \in SlotsTaken(v)
    BY <1>6, <1>7, <1>9
  <2> DEFINE q == <<m, n + 1>>
  <2>2. SlotsFree(v)' = SlotsFree(v) \cup {q} /\ q \notin SlotsFree(v)
    <3>1. ASSUME NEW x PROVE x \in SlotsFree(w)' <=> x \in SlotsFree(w) \/ x = q
      <4>1. x \in SlotsFree(w) <=> \E l \in Masters : \E i \in 1..slots[l][w] : x = <<l, i>>
        BY FreeMembers
      <4>2. x \in SlotsFree(w)' <=> \E l \in Masters : \E i \in 1..slots'[l][w] : x = <<l, i>>
        BY FreeMembersNext
      <4>3. ASSUME NEW l \in Masters, NEW i
            PROVE  i \in 1..slots'[l][w] <=> i \in 1..slots[l][w] \/ <<l, i>> = q
        <5>1. CASE l = m
          BY <1>2, <5>1
        <5>2. CASE l # m
          BY <1>3, <5>2
        <5> QED BY <5>1, <5>2
      <4>4. n + 1 \in 1..slots'[m][w]
        BY <1>2
      <4> QED BY <4>1, <4>2, <4>3, <4>4
    <3>2. q \notin SlotsFree(w)
      <4>1. q \in SlotsFree(w) <=> \E l \in Masters : \E i \in 1..slots[l][w] : q = <<l, i>>
        BY FreeMembers
      <4>2. n + 1 \notin 1..slots[m][w]
        BY <1>2
      <4> QED BY <4>1, <4>2
    <3> QED BY <1>9, <3>1, <3>2
  <2> HIDE DEF q
  <2>3. IsFiniteSet(SlotsTaken(v)') /\ Cardinality(SlotsTaken(v)') = Cardinality(SlotsTaken(v)) - 1
    BY <1>5, <2>1, FS_RemoveElement
  <2>4. IsFiniteSet(SlotsFree(v)') /\ Cardinality(SlotsFree(v)') = Cardinality(SlotsFree(v)) + 1
    BY <1>5, <2>2, FS_AddElement
  <2>5. Cardinality(SlotsFree(v)) \in Nat /\ Cardinality(SlotsTaken(v)) \in Nat
    BY <1>5, FS_CardinalityType
  <2> QED BY <1>4, <1>5, <2>3, <2>4, <2>5
<1> QED BY <1>8, <1>9

\* A master whose workers are its own is the only one its results can go to.
LEMMA OwnWorkers ==
  ASSUME NEW m \in Masters, NEW w, w \in cluster.wip_l[m], HasItsOwnWorkers(m)
  PROVE  SharersOf(w) = {m}
  BY DEF HasItsOwnWorkers

LEMMA HandleResultStep ==
  ASSUME EInv, NEW j \in Jobs, HandleResult(j)
  PROVE  EInv'
<1> DEFINE w == place[j][2]
           m == place[j][3]
<1>1. OtherTypes /\ JobsInv /\ SlotsInv /\ AttachInv /\ OnTimeInv /\ CountInv /\ PlacesInv
  BY EInvParts, JobsInvParts
<1>2. /\ UNCHANGED <<cluster, clientVars, stage, run, deaf, raced, attachVars, gone>>
      /\ place[j][1] = "result"
  BY DEF HandleResult
<1>3. JobOK(j) /\ HomeOK(j)
  BY <1>1 DEF JobsInv, JobOK
<1>4. /\ j.cid \in Clients /\ j.mid \in Masters /\ j.mid \in cluster.sid_ip_m[j.cid]
      /\ w \in Workers /\ w \in cluster.wip_l[j.mid]
      /\ m \in Masters /\ w \in cluster.wip_l[m]
  BY <1>2, <1>3 DEF JobOK, PlaceOK, SharersOf
<1>5. Holds(place[j], w) /\ \A v \in Workers : v # None
  BY <1>2, ClustersAssumption DEF Holds, Holding
<1>6. Grown
  BY <1>2 DEF Grown, attachVars
<1>7. UNCHANGED <<cluster, sid, sip, early, stage>>
  BY <1>2 DEF attachVars
<1>8. HasItsOwnWorkers(j.mid)' = HasItsOwnWorkers(j.mid)
  BY <1>2 DEF HasItsOwnWorkers, SharersOf
<1>9. HasItsOwnWorkers(j.mid) => m = j.mid /\ place[j][4] = j.mid
  BY <1>2, <1>3 DEF HomeOK
<1>10. place[j][1] \notin InWorker
  BY <1>2 DEF InWorker
<1> HIDE DEF w, m
<1>11. CASE place[j][4] # m
  <2>1. Move(j, <<"lost", w>>) /\ slots' = slots
    BY <1>11 DEF HandleResult, w, m
  <2>2. /\ Jobs' = Jobs /\ \A k \in Jobs : k # j => place'[k] = place[k]
        /\ place'[j] = <<"lost", w>>
    BY <1>1, <2>1, MoveFacts
  <2>3. OtherTypes'
    BY <1>1, <1>2, <2>1 DEF OtherTypes, clientVars, attachVars
  <2>4. JobOK(j)'
    BY <1>2, <1>4, <1>8, <1>9, <1>11, <2>2 DEF JobOK, PlaceOK, HomeOK, CauseOK, InWorker, Kinds
  <2>5. JobsInv'
    BY <1>1, <1>6, <2>1, <2>4, JobMoved
  <2>6. SlotsInv'
    BY <1>1, <1>2, <2>1, SlotsStable
  <2>7. AttachInv' /\ OnTimeInv'
    <3>1. place'[j][1] \notin InWorker
      BY <2>2 DEF InWorker
    <3> QED BY <1>1, <1>7, <1>10, <2>2, <3>1, AttachStable
  <2>8. CountInv'
    <3>1. \A v : Holds(place'[j], v) <=> Holds(place[j], v)
      BY <1>5, <2>2 DEF Holds, Holding
    <3>2. \A k \in Jobs : \A v \in Workers : Holds(place'[k], v) <=> Holds(place[k], v)
      BY <2>2, <3>1
    <3> QED BY <1>1, <1>2, <2>1, <2>2, <3>2, CountStable
  <2> QED BY <2>3, <2>5, <2>6, <2>7, <2>8, EInvPartsNext
<1>12. CASE place[j][4] = m
  <2>1. /\ slots' = [slots EXCEPT ![m][w] = @ + 1]
        /\ \/ m \in cluster.sid_ip_m[j.cid] /\ Move(j, <<"reply", m>>)
           \/ m \notin cluster.sid_ip_m[j.cid] /\ Move(j, <<"lost", None>>)
    BY <1>12 DEF HandleResult, w, m
  <2>2. /\ Jobs' = Jobs /\ \A k \in Jobs : k # j => place'[k] = place[k]
        /\ \/ m \in cluster.sid_ip_m[j.cid] /\ place'[j] = <<"reply", m>>
           \/ m \notin cluster.sid_ip_m[j.cid] /\ place'[j] = <<"lost", None>>
    <3>1. CASE m \in cluster.sid_ip_m[j.cid] /\ Move(j, <<"reply", m>>)
      BY <1>1, <3>1, MoveFacts
    <3>2. CASE m \notin cluster.sid_ip_m[j.cid] /\ Move(j, <<"lost", None>>)
      BY <1>1, <3>2, MoveFacts
    <3> QED BY <2>1, <3>1, <3>2
  <2>3. OtherTypes'
    BY <1>1, <1>2, <1>4, <2>1 DEF OtherTypes, clientVars, attachVars
  <2>4. JobOK(j)'
    BY <1>2, <1>4, <1>8, <1>9, <2>2 DEF JobOK, PlaceOK, HomeOK, CauseOK, InWorker, Kinds
  <2>5. JobsInv'
    BY <1>1, <1>6, <2>1, <2>4, JobMoved
  <2>6. SlotsInv'
    <3> SUFFICES ASSUME NEW l \in Masters, NEW v \in Workers, slots'[l][v] > 0
        PROVE  v \in cluster.wip_l[l]
      BY <1>2 DEF SlotsInv
    <3>1. CASE l = m /\ v = w
      BY <1>4, <3>1
    <3>2. CASE l # m \/ v # w
      <4>1. slots'[l][v] = slots[l][v]
        BY <1>1, <2>1, <3>2 DEF OtherTypes
      <4> QED BY <1>1, <4>1 DEF SlotsInv
    <3> QED BY <3>1, <3>2
  <2>7. AttachInv' /\ OnTimeInv'
    <3>1. place'[j][1] \notin InWorker
      BY <2>2 DEF InWorker
    <3> QED BY <1>1, <1>7, <1>10, <2>2, <3>1, AttachStable
  <2>8. CountInv'
    <3>1. \A v \in Workers : ~Holds(place'[j], v)
      BY <1>5, <2>2 DEF Holds, Holding
    <3> QED BY <1>2, <1>4, <1>5, <2>1, <2>2, <3>1, HandleCount
  <2> QED BY <2>3, <2>5, <2>6, <2>7, <2>8, EInvPartsNext
<1> QED BY <1>11, <1>12

LEMMA StopStep ==
  ASSUME EInv, NEW m \in Masters, Stop(m)
  PROVE  EInv'
<1>1. OtherTypes /\ JobsInv /\ SlotsInv /\ AttachInv /\ OnTimeInv /\ CountInv
  BY EInvParts
<1>2. /\ UNCHANGED <<cluster, clientVars, masterVars, attachVars>>
      /\ gone' = gone \cup {m}
      /\ place' = [j \in Jobs |->
           IF j.mid = m /\ place[j] \in {<<"way">>, <<"queue">>} THEN <<"lost", None>>
           ELSE IF place[j][1] = "result" /\ place[j][3] = m THEN <<"lost", place[j][2]>>
           ELSE place[j]]
  BY DEF Stop
<1>3. Jobs' = Jobs /\ place' = [k \in Jobs' |-> place'[k]]
  BY <1>2 DEF Jobs
<1>4. ASSUME NEW k \in Jobs
      PROVE  \/ /\ k.mid = m /\ place[k][1] \in {"way", "queue"}
                /\ place'[k] = <<"lost", None>>
             \/ /\ place[k][1] = "result" /\ place[k][3] = m
                /\ place'[k] = <<"lost", place[k][2]>>
             \/ place'[k] = place[k]
  BY <1>2
<1>5. OtherTypes'
  BY <1>1, <1>2 DEF OtherTypes, clientVars, masterVars, attachVars
<1>6. Grown
  BY <1>2 DEF Grown, masterVars, attachVars
<1>7. JobsInv'
  <2>1. ASSUME NEW k \in Jobs PROVE JobOK(k)'
    <3>1. JobOK(k) /\ HomeOK(k)
      BY <1>1 DEF JobsInv, JobOK
    <3>2. HasItsOwnWorkers(k.mid)' = HasItsOwnWorkers(k.mid)
      BY <1>2 DEF HasItsOwnWorkers, SharersOf
    <3>3. CASE k.mid = m /\ place[k][1] \in {"way", "queue"} /\ place'[k] = <<"lost", None>>
      BY <1>2, <3>1, <3>3 DEF JobOK, PlaceOK, HomeOK, CauseOK, InWorker, Kinds
    <3>4. CASE /\ place[k][1] = "result" /\ place[k][3] = m
               /\ place'[k] = <<"lost", place[k][2]>>
      <4>1. HasItsOwnWorkers(k.mid) => k.mid \in gone'
        BY <1>2, <3>1, <3>4 DEF HomeOK
      <4>2. /\ k.cid \in Clients /\ k.mid \in Masters /\ k.mid \in cluster.sid_ip_m[k.cid]
            /\ place[k][2] \in Workers
        BY <3>1, <3>4 DEF JobOK, PlaceOK
      <4> QED
        BY <1>2, <3>2, <3>4, <4>1, <4>2 DEF JobOK, PlaceOK, HomeOK, CauseOK, InWorker, Kinds
    <3>5. CASE place'[k] = place[k]
      BY <1>6, <3>1, <3>5, JobUnmoved
    <3> QED BY <1>4, <3>3, <3>4, <3>5
  <2> QED BY <1>3, <2>1 DEF JobsInv
<1>8. SlotsInv'
  BY <1>1, <1>2, SlotsStable DEF masterVars
<1>9. AttachInv' /\ OnTimeInv'
  <2>1. UNCHANGED <<cluster, sid, sip, early, stage>>
    BY <1>2 DEF masterVars, attachVars
  <2>2. \A k \in Jobs :
          place'[k] = place[k] \/ (place[k][1] \notin InWorker /\ place'[k][1] \notin InWorker)
    BY <1>4 DEF InWorker
  <2> QED BY <1>1, <1>3, <2>1, <2>2, AttachStable
<1>10. CountInv'
  <2>1. \A v \in Workers : v # None
    BY ClustersAssumption
  <2>2. ASSUME NEW k \in Jobs, NEW v \in Workers
        PROVE  Holds(place'[k], v) <=> Holds(place[k], v)
    BY <1>4, <2>1 DEF Holds, Holding
  <2> QED BY <1>1, <1>2, <1>3, <2>2, CountStable DEF masterVars
<1> QED BY <1>5, <1>7, <1>8, <1>9, <1>10, EInvPartsNext

-----------------------------------------------------------------------------
(* The steps of the workers.                                               *)

LEMMA ConstructWorkerStep ==
  ASSUME EInv, NEW w \in Workers, ConstructWorker(w)
  PROVE  EInv'
<1>1. OtherTypes /\ JobsInv /\ SlotsInv /\ AttachInv /\ OnTimeInv /\ CountInv
  BY EInvParts
<1>2. /\ UNCHANGED <<cluster, place, clientVars, run, slots, deaf, raced, stopped, early, gone>>
      /\ stage[w] # "up"
      /\ \/ /\ stage[w] = "commer" /\ stage' = [stage EXCEPT ![w] = "sid"]
            /\ sid' = [sid EXCEPT ![w] = None] /\ sip' = sip
         \/ /\ stage[w] = "sid" /\ stage' = [stage EXCEPT ![w] = "up"]
            /\ sip' = [sip EXCEPT ![w] = None] /\ sid' = sid
  BY DEF ConstructWorker
<1>3. OtherTypes'
  BY <1>1, <1>2 DEF OtherTypes, clientVars
<1>4. JobsInv' /\ Jobs' = Jobs
  BY <1>1, <1>2, NoJobMoved DEF Grown, Jobs
<1>5. SlotsInv'
  BY <1>1, <1>2, SlotsStable
<1>6. /\ \A v \in Workers : v # w => stage'[v] = stage[v] /\ sid'[v] = sid[v] /\ sip'[v] = sip[v]
      /\ \/ stage[w] = "commer" /\ stage'[w] = "sid" /\ sid'[w] = None /\ sip'[w] = sip[w]
         \/ stage[w] = "sid" /\ stage'[w] = "up" /\ sip'[w] = None /\ sid'[w] = sid[w]
  BY <1>1, <1>2 DEF OtherTypes
<1>7. ASSUME NEW v \in Workers
      PROVE  SharersOf(v)' = SharersOf(v) /\ HasOneSlot(v)' = HasOneSlot(v)
  BY <1>2, SharersStable
<1>8. AttachInv'
  <2> SUFFICES ASSUME NEW v \in Workers
      PROVE  /\ sid'[v] \in SharersOf(v)' \cup {None} /\ sip'[v] \in SharersOf(v)' \cup {None}
             /\ sip'[v] # None => sid'[v] # None
             /\ stage'[v] = "commer" => sid'[v] = None
             /\ \A j \in Jobs : place[j][1] \in InWorker /\ place[j][2] = v =>
                  /\ stage'[v] # "commer"
                  /\ place[j][1] = "sip" => sid'[v] # None
    BY <1>2, <1>4 DEF AttachInv
  <2>1. CASE v = w
    BY <1>1, <1>2, <1>6, <1>7, <2>1 DEF AttachInv
  <2>2. CASE v # w
    BY <1>1, <1>6, <1>7, <2>2 DEF AttachInv
  <2> QED BY <2>1, <2>2
<1>9. OnTimeInv'
  <2> SUFFICES ASSUME NEW v \in Workers, v \notin early, HasOneSlot(v)'
      PROVE  /\ sid'[v] # None => \/ sip'[v] # None
                        \/ \E k \in Jobs : place[k][1] = "sip" /\ place[k][2] = v
             /\ stage'[v] # "up" => sid'[v] = None
             /\ \A j \in Jobs : place[j][1] \in InWorker /\ place[j][2] = v =>
                  /\ stage'[v] = "up"
                  /\ place[j][1] \in {"job_q", "serving"} => sip'[v] # None
    BY <1>2, <1>4 DEF OnTimeInv
  <2>1. CASE v = w
    BY <1>1, <1>2, <1>6, <1>7, <2>1 DEF OnTimeInv
  <2>2. CASE v # w
    BY <1>1, <1>6, <1>7, <2>2 DEF OnTimeInv
  <2> QED BY <2>1, <2>2
<1>10. CountInv'
  BY <1>1, <1>2, <1>4, CountStable
<1> QED BY <1>3, <1>4, <1>5, <1>8, <1>9, <1>10, EInvPartsNext

\* A worker with one slot holds one job.
LEMMA OneJob ==
  ASSUME EInv, NEW w \in Workers, HasOneSlot(w),
         NEW j \in Jobs, Holds(place[j], w), NEW k \in Jobs, Holds(place[k], w)
  PROVE  j = k
<1> DEFINE S == SlotsTaken(w)
<1>1. CountInv
  BY EInvParts
<1>2. PICK m \in Masters : SharersOf(w) = {m}
  BY DEF HasOneSlot
<1>3. Cardinality(SharersOf(w)) = 1
  BY <1>2, FS_Singleton, Zenon
<1>4. /\ IsFiniteSet(S) /\ IsFiniteSet(SlotsFree(w))
      /\ Cardinality(SlotsFree(w)) + Cardinality(S) = 1
  BY <1>1, <1>3 DEF CountInv, SlotsMoveBetweenSharers, HasOneSlot
<1>5. j \in S /\ k \in S
  BY TakenMembers
<1> HIDE DEF S
<1>6. Cardinality(SlotsFree(w)) \in Nat /\ Cardinality(S) \in Nat
  BY <1>4, FS_CardinalityType
<1>7. IsFiniteSet(S \ {j}) /\ Cardinality(S \ {j}) = Cardinality(S) - 1
  BY <1>4, <1>5, FS_RemoveElement
<1>8. Cardinality(S \ {j}) = 0
  BY <1>4, <1>6, <1>7, FS_CardinalityType
<1>9. S \ {j} = {}
  BY <1>7, <1>8, FS_EmptySet
<1> QED BY <1>5, <1>9

\* A job that stays with worker w keeps its slot, and is as it should be.
LEMMA WorkerMove ==
  ASSUME EInv, NEW j \in Jobs, NEW w \in Workers, NEW p,
         UNCHANGED workerFrame, early \subseteq early',
         Holds(place[j], w), place[j][1] # "lost", Move(j, p),
         Holds(p, w), p[1] \in InWorker \cup {"lost"}, p[1] = "lost" => w \in early'
  PROVE  /\ Jobs' = Jobs /\ \A k \in Jobs : k # j => place'[k] = place[k]
         /\ place'[j] = p /\ w \in cluster.wip_l[j.mid] /\ j.mid \in Masters
         /\ JobsInv' /\ SlotsInv' /\ CountInv'
<1>1. OtherTypes /\ JobsInv /\ SlotsInv /\ CountInv /\ PlacesInv
  BY EInvParts, JobsInvParts
<1>2. JobOK(j)
  BY <1>1 DEF JobsInv
<1>3. /\ j.cid \in Clients /\ j.mid \in Masters /\ j.mid \in cluster.sid_ip_m[j.cid]
      /\ w \in cluster.wip_l[j.mid]
  BY <1>2 DEF JobOK, PlaceOK, Holds, Holding, InWorker
<1>4. /\ Jobs' = Jobs /\ \A k \in Jobs : k # j => place'[k] = place[k]
      /\ place'[j] = p
  BY <1>1, MoveFacts
<1>5. UNCHANGED <<cluster, slots, gone, deaf>>
  BY DEF workerFrame, masterVars
<1>6. w # None
  BY ClustersAssumption
<1>7. JobOK(j)'
  <2>1. p[2] = w /\ p[1] \in InWorker \cup {"lost"}
    BY DEF Holds
  <2>2. p[1] \in Kinds
    BY <2>1 DEF InWorker, Kinds
  <2>3. PlaceOK(j)'
    BY <1>3, <1>4, <1>5, <2>1 DEF PlaceOK, InWorker
  <2>4. HomeOK(j)'
    BY <1>4, <2>1 DEF HomeOK, InWorker
  <2>5. CauseOK(j)'
    BY <1>4, <1>6, <2>1 DEF CauseOK
  <2> QED BY <1>4, <2>2, <2>3, <2>4, <2>5 DEF JobOK
<1>8. JobsInv'
  BY <1>1, <1>5, <1>7, JobMoved DEF Grown
<1>9. SlotsInv'
  BY <1>1, <1>5, SlotsStable
<1>10. CountInv'
  <2>1. \A v : Holds(p, v) <=> Holds(place[j], v)
    BY DEF Holds
  <2>2. \A k \in Jobs : \A v \in Workers : Holds(place'[k], v) <=> Holds(place[k], v)
    BY <1>4, <2>1
  <2> QED BY <1>1, <1>4, <1>5, <2>2, CountStable
<1> QED BY <1>3, <1>4, <1>8, <1>9, <1>10

\* AttachInv and OnTimeInv, for one worker.
AttachOK(w) ==
  /\ sid[w] \in SharersOf(w) \cup {None} /\ sip[w] \in SharersOf(w) \cup {None}
  /\ sip[w] # None => sid[w] # None
  /\ stage[w] = "commer" => sid[w] = None
  /\ \A j \in Jobs : place[j][1] \in InWorker /\ place[j][2] = w =>
       /\ stage[w] # "commer"
       /\ place[j][1] = "sip" => sid[w] # None

OnTimeOK(w) ==
  w \notin early /\ HasOneSlot(w) =>
    /\ sid[w] # None => \/ sip[w] # None
                        \/ \E k \in Jobs : place[k][1] = "sip" /\ place[k][2] = w
    /\ stage[w] # "up" => sid[w] = None
    /\ \A j \in Jobs : place[j][1] \in InWorker /\ place[j][2] = w =>
         /\ stage[w] = "up"
         /\ place[j][1] \in {"job_q", "serving"} => sip[w] # None

LEMMA AttachParts ==
  /\ AttachInv <=> \A w \in Workers : AttachOK(w)
  /\ OnTimeInv <=> \A w \in Workers : OnTimeOK(w)
<1>1. AttachInv <=> \A w \in Workers : AttachOK(w)
  BY DEF AttachInv, AttachOK
<1>2. OnTimeInv <=> \A w \in Workers : OnTimeOK(w)
  BY DEF OnTimeInv, OnTimeOK
<1> QED BY <1>1, <1>2

LEMMA AttachPartsNext ==
  (/\ AttachInv <=> \A w \in Workers : AttachOK(w)
   /\ OnTimeInv <=> \A w \in Workers : OnTimeOK(w))'
  BY AttachParts, PTL

\* What happens at a worker is nothing to the others.
LEMMA OtherWorkers ==
  ASSUME AttachInv, OnTimeInv, NEW j \in Jobs, NEW w \in Workers, Jobs' = Jobs,
         cluster' = cluster, stage' = stage, early \subseteq early',
         \A v \in Workers : v # w => sid'[v] = sid[v] /\ sip'[v] = sip[v],
         \A k \in Jobs : k # j => place'[k] = place[k],
         place[j][2] = w, place'[j][1] \in InWorker => place'[j][2] = w,
         AttachOK(w)', OnTimeOK(w)'
  PROVE  AttachInv' /\ OnTimeInv'
<1>1. ASSUME NEW v \in Workers, v # w PROVE AttachOK(v)' /\ OnTimeOK(v)'
  <2>1. SharersOf(v)' = SharersOf(v) /\ HasOneSlot(v)' = HasOneSlot(v)
    BY SharersStable
  <2>2. AttachOK(v) /\ OnTimeOK(v)
    BY AttachParts
  <2>3. \A k \in Jobs : place'[k][1] \in InWorker /\ place'[k][2] = v => place'[k] = place[k]
    BY <1>1
  <2>4. AttachOK(v)'
    BY <1>1, <2>1, <2>2, <2>3 DEF AttachOK
  <2>5. \A k \in Jobs : place[k][2] = v => place'[k] = place[k]
    BY <1>1
  <2>6. OnTimeOK(v)'
    BY <1>1, <2>1, <2>2, <2>3, <2>5 DEF OnTimeOK
  <2> QED BY <2>4, <2>6
<1> QED BY <1>1, AttachPartsNext

\* A worker tests if it is attached.  Without an address, a job that is not the
\* first is a second job of this worker.
LEMMA TestAttachedStep ==
  ASSUME EInv, NEW j \in Jobs, NEW w \in Workers, TestAttached(j, w)
  PROVE  EInv'
<1> DEFINE p == IF stage[w] = "commer" THEN <<"lost", w>>
                ELSE IF sid[w] = None THEN <<"sid", w>> ELSE <<"job_q", w>>
<1>1. OtherTypes /\ AttachInv /\ OnTimeInv
  BY EInvParts
<1>2. /\ UNCHANGED <<cluster, clientVars, masterVars, stopped, gone, sid, sip>>
      /\ place[j] = <<"inbox", w>> /\ Move(j, p)
      /\ early' = IF stage[w] = "up" THEN early ELSE early \cup {w}
  BY DEF TestAttached, workerFrame
<1>3. \/ p = <<"lost", w>> /\ stage[w] = "commer"
      \/ p = <<"sid", w>> /\ stage[w] # "commer" /\ sid[w] = None
      \/ p = <<"job_q", w>> /\ stage[w] # "commer" /\ sid[w] # None
  OBVIOUS
<1>4. OtherTypes'
  BY <1>1, <1>2 DEF OtherTypes, clientVars, masterVars
<1> HIDE DEF p
<1>5. /\ Holds(place[j], w) /\ place[j][1] # "lost" /\ place[j][1] \notin InWorker
      /\ place[j][2] = w /\ Holds(p, w) /\ p[1] \in InWorker \cup {"lost"}
      /\ p[1] = "lost" => w \in early'
  BY <1>2, <1>3 DEF Holds, Holding, InWorker
<1>6. /\ Jobs' = Jobs /\ \A k \in Jobs : k # j => place'[k] = place[k]
      /\ place'[j] = p /\ w \in cluster.wip_l[j.mid] /\ j.mid \in Masters
      /\ JobsInv' /\ SlotsInv' /\ CountInv'
  <2>1. UNCHANGED workerFrame /\ early \subseteq early'
    BY <1>2 DEF workerFrame
  <2> QED BY <1>2, <1>5, <2>1, WorkerMove
<1>7. AttachOK(w) /\ OnTimeOK(w)
  BY <1>1, AttachParts
<1>8. SharersOf(w)' = SharersOf(w) /\ HasOneSlot(w)' = HasOneSlot(w)
  BY <1>2, SharersStable
<1>9. UNCHANGED <<stage, sid, sip>>
  BY <1>2 DEF masterVars
<1>10. AttachOK(w)'
  BY <1>3, <1>6, <1>7, <1>8, <1>9 DEF AttachOK, InWorker
<1>11. OnTimeOK(w)'
  <2> SUFFICES ASSUME w \notin early', HasOneSlot(w)
      PROVE  /\ sid'[w] # None => \/ sip'[w] # None
                        \/ \E k \in Jobs : place'[k][1] = "sip" /\ place'[k][2] = w
             /\ stage'[w] # "up" => sid'[w] = None
             /\ \A k \in Jobs : place'[k][1] \in InWorker /\ place'[k][2] = w =>
                  /\ stage'[w] = "up"
                  /\ place'[k][1] \in {"job_q", "serving"} => sip'[w] # None
    BY <1>6, <1>8 DEF OnTimeOK
  <2>1. stage[w] = "up" /\ w \notin early
    BY <1>2
  <2>2. ASSUME NEW k \in Jobs, place[k][1] = "sip", place[k][2] = w PROVE FALSE
    <3>1. Holds(place[k], w)
      BY <2>2 DEF Holds, Holding
    <3>2. k = j
      BY <1>5, <3>1, OneJob
    <3> QED BY <1>2, <2>2, <3>2
  <2>3. sid[w] # None => sip[w] # None
    BY <1>7, <2>1, <2>2 DEF OnTimeOK
  <2> QED BY <1>3, <1>6, <1>7, <1>9, <2>1, <2>3 DEF OnTimeOK, InWorker
<1>12. AttachInv' /\ OnTimeInv'
  <2>1. place'[j][1] \in InWorker => place'[j][2] = w
    BY <1>5, <1>6 DEF Holds
  <2>2. cluster' = cluster /\ early \subseteq early'
    BY <1>2
  <2> QED BY <1>1, <1>5, <1>6, <1>9, <1>10, <1>11, <2>1, <2>2, OtherWorkers
<1> QED BY <1>4, <1>6, <1>12, EInvPartsNext

LEMMA AttachSidStep ==
  ASSUME EInv, NEW j \in Jobs, NEW w \in Workers, AttachSid(j, w)
  PROVE  EInv'
<1> DEFINE p == <<"sip", w>>
<1>1. OtherTypes /\ AttachInv /\ OnTimeInv
  BY EInvParts
<1>2. /\ UNCHANGED workerFrame /\ sip' = sip /\ early' = early
      /\ place[j] = <<"sid", w>> /\ Move(j, p)
      /\ sid' = [sid EXCEPT ![w] = j.mid]
  BY DEF AttachSid
<1>3. UNCHANGED <<cluster, clientVars, masterVars, stopped, gone, stage>>
  BY <1>2 DEF workerFrame, masterVars
<1>4. /\ Holds(place[j], w) /\ place[j][1] # "lost" /\ place[j][1] \in InWorker
      /\ place[j][2] = w /\ Holds(p, w) /\ p[1] \in InWorker \cup {"lost"} /\ p[1] # "lost"
  BY <1>2 DEF Holds, Holding, InWorker
<1>5. /\ Jobs' = Jobs /\ \A k \in Jobs : k # j => place'[k] = place[k]
      /\ place'[j] = p /\ w \in cluster.wip_l[j.mid] /\ j.mid \in Masters
      /\ JobsInv' /\ SlotsInv' /\ CountInv'
  <2> HIDE DEF p
  <2> QED BY <1>2, <1>4, WorkerMove
<1>6. OtherTypes'
  BY <1>1, <1>2, <1>3, <1>5 DEF OtherTypes, clientVars, masterVars
<1>7. AttachOK(w) /\ OnTimeOK(w)
  BY <1>1, AttachParts
<1>8. SharersOf(w)' = SharersOf(w) /\ HasOneSlot(w)' = HasOneSlot(w)
  BY <1>3, SharersStable
<1>9. sid'[w] = j.mid /\ \A v \in Workers : v # w => sid'[v] = sid[v]
  BY <1>1, <1>2 DEF OtherTypes
<1>10. j.mid # None /\ j.mid \in SharersOf(w)
  BY <1>5, ClustersAssumption DEF SharersOf
<1>11. AttachOK(w)'
  BY <1>2, <1>3, <1>4, <1>5, <1>7, <1>8, <1>9, <1>10 DEF AttachOK
<1>12. OnTimeOK(w)'
  BY <1>2, <1>3, <1>4, <1>5, <1>7, <1>8 DEF OnTimeOK
<1>13. AttachInv' /\ OnTimeInv'
  BY <1>1, <1>2, <1>3, <1>4, <1>5, <1>9, <1>11, <1>12, OtherWorkers
<1> QED BY <1>5, <1>6, <1>13, EInvPartsNext

LEMMA AttachSipStep ==
  ASSUME EInv, NEW j \in Jobs, NEW w \in Workers, AttachSip(j, w)
  PROVE  EInv'
<1> DEFINE p == <<"job_q", w>>
<1>1. OtherTypes /\ AttachInv /\ OnTimeInv
  BY EInvParts
<1>2. /\ UNCHANGED workerFrame /\ sid' = sid /\ early' = early
      /\ place[j] = <<"sip", w>> /\ Move(j, p)
      /\ sip' = [sip EXCEPT ![w] = j.mid]
  BY DEF AttachSip, SipOf
<1>3. UNCHANGED <<cluster, clientVars, masterVars, stopped, gone, stage>>
  BY <1>2 DEF workerFrame, masterVars
<1>4. /\ Holds(place[j], w) /\ place[j][1] # "lost" /\ place[j][1] \in InWorker
      /\ place[j][2] = w /\ Holds(p, w) /\ p[1] \in InWorker \cup {"lost"} /\ p[1] # "lost"
  BY <1>2 DEF Holds, Holding, InWorker
<1>5. /\ Jobs' = Jobs /\ \A k \in Jobs : k # j => place'[k] = place[k]
      /\ place'[j] = p /\ w \in cluster.wip_l[j.mid] /\ j.mid \in Masters
      /\ JobsInv' /\ SlotsInv' /\ CountInv'
  <2> HIDE DEF p
  <2> QED BY <1>2, <1>4, WorkerMove
<1>6. OtherTypes'
  BY <1>1, <1>2, <1>3, <1>5 DEF OtherTypes, clientVars, masterVars
<1>7. AttachOK(w) /\ OnTimeOK(w)
  BY <1>1, AttachParts
<1>8. SharersOf(w)' = SharersOf(w) /\ HasOneSlot(w)' = HasOneSlot(w)
  BY <1>3, SharersStable
<1>9. sip'[w] = j.mid /\ \A v \in Workers : v # w => sip'[v] = sip[v]
  BY <1>1, <1>2 DEF OtherTypes
<1>10. j.mid # None /\ j.mid \in SharersOf(w)
  BY <1>5, ClustersAssumption DEF SharersOf
<1>11. sid[w] # None
  BY <1>2, <1>4, <1>7 DEF AttachOK
<1>12. AttachOK(w)'
  BY <1>2, <1>3, <1>4, <1>5, <1>7, <1>8, <1>9, <1>10, <1>11 DEF AttachOK
<1>13. OnTimeOK(w)'
  BY <1>2, <1>3, <1>4, <1>5, <1>7, <1>8, <1>9, <1>10 DEF OnTimeOK
<1>14. AttachInv' /\ OnTimeInv'
  BY <1>1, <1>2, <1>3, <1>4, <1>5, <1>9, <1>12, <1>13, OtherWorkers
<1> QED BY <1>5, <1>6, <1>14, EInvPartsNext

LEMMA ServeStep ==
  ASSUME EInv, NEW j \in Jobs, NEW w \in Workers, Serve(j, w)
  PROVE  EInv'
<1> DEFINE p == <<"serving", w>>
<1>1. OtherTypes /\ AttachInv /\ OnTimeInv
  BY EInvParts
<1>2. /\ UNCHANGED workerFrame /\ sid' = sid /\ sip' = sip /\ early' = early
      /\ place[j] = <<"job_q", w>> /\ Move(j, p)
  BY DEF Serve
<1>3. UNCHANGED <<cluster, clientVars, masterVars, stopped, gone, stage>>
  BY <1>2 DEF workerFrame, masterVars
<1>4. /\ Holds(place[j], w) /\ place[j][1] # "lost" /\ place[j][1] \in InWorker
      /\ place[j][2] = w /\ Holds(p, w) /\ p[1] \in InWorker \cup {"lost"} /\ p[1] # "lost"
  BY <1>2 DEF Holds, Holding, InWorker
<1>5. /\ Jobs' = Jobs /\ \A k \in Jobs : k # j => place'[k] = place[k]
      /\ place'[j] = p /\ w \in cluster.wip_l[j.mid] /\ j.mid \in Masters
      /\ JobsInv' /\ SlotsInv' /\ CountInv'
  <2> HIDE DEF p
  <2> QED BY <1>2, <1>4, WorkerMove
<1>6. OtherTypes'
  BY <1>1, <1>2, <1>3 DEF OtherTypes, clientVars, masterVars
<1>7. AttachOK(w) /\ OnTimeOK(w)
  BY <1>1, AttachParts
<1>8. SharersOf(w)' = SharersOf(w) /\ HasOneSlot(w)' = HasOneSlot(w)
  BY <1>3, SharersStable
<1>9. AttachOK(w)'
  BY <1>2, <1>3, <1>4, <1>5, <1>7, <1>8 DEF AttachOK
<1>10. OnTimeOK(w)'
  BY <1>2, <1>3, <1>4, <1>5, <1>7, <1>8 DEF OnTimeOK
<1>11. AttachInv' /\ OnTimeInv'
  BY <1>1, <1>2, <1>3, <1>4, <1>5, <1>9, <1>10, OtherWorkers
<1> QED BY <1>5, <1>6, <1>11, EInvPartsNext

\* A result that is sent has the name and the address of a sharer; one that is
\* not was without an address, or that of a master that is gone.
LEMMA SendResultStep ==
  ASSUME EInv, NEW j \in Jobs, NEW w \in Workers, SendResult(j, w)
  PROVE  EInv'
<1> DEFINE p == IF sip[w] \in gone \cup {None} THEN <<"lost", w>>
                ELSE <<"result", w, sip[w], sid[w]>>
<1>1. /\ OtherTypes /\ JobsInv /\ SlotsInv /\ AttachInv /\ OnTimeInv /\ CountInv /\ PlacesInv
  BY EInvParts, JobsInvParts
<1>2. /\ UNCHANGED <<cluster, clientVars, masterVars, sid, sip, early, gone>>
      /\ place[j] = <<"serving", w>> /\ Move(j, p) /\ stopped' \subseteq stopped \cup {w}
  BY DEF SendResult
<1>3. \/ sip[w] \in gone \cup {None} /\ p = <<"lost", w>>
      \/ sip[w] \notin gone \cup {None} /\ p = <<"result", w, sip[w], sid[w]>>
  OBVIOUS
<1> HIDE DEF p
<1>4. UNCHANGED <<slots, deaf, stage>>
  BY <1>2 DEF masterVars
<1>5. /\ Jobs' = Jobs /\ \A k \in Jobs : k # j => place'[k] = place[k]
      /\ place'[j] = p
  BY <1>1, <1>2, MoveFacts
<1>6. OtherTypes'
  BY <1>1, <1>2 DEF OtherTypes, clientVars, masterVars
<1>7. JobOK(j) /\ place[j][1] = "serving" /\ place[j][2] = w /\ w # None
  BY <1>1, <1>2, ClustersAssumption DEF JobsInv
<1>8. /\ j.cid \in Clients /\ j.mid \in Masters /\ j.mid \in cluster.sid_ip_m[j.cid]
      /\ w \in cluster.wip_l[j.mid]
  BY <1>7 DEF JobOK, PlaceOK, InWorker
<1>9. AttachOK(w) /\ OnTimeOK(w)
  BY <1>1, AttachParts
<1>10. SharersOf(w)' = SharersOf(w) /\ HasOneSlot(w)' = HasOneSlot(w)
  BY <1>2, SharersStable
<1>11. HasItsOwnWorkers(j.mid)' = HasItsOwnWorkers(j.mid)
  BY <1>2 DEF HasItsOwnWorkers, SharersOf
<1>12. sip[w] # None => sip[w] \in SharersOf(w) /\ sid[w] \in SharersOf(w)
  BY <1>9 DEF AttachOK
<1>13. JobsInv'
  <2>1. CASE sip[w] \in gone \cup {None} /\ p = <<"lost", w>>
    <3>1. ASSUME HasItsOwnWorkers(j.mid), j.mid \notin gone, w \notin early
          PROVE  cluster.max_num_jobs_per_worker > 1
      <4>1. SharersOf(w) = {j.mid}
        BY <1>8, <3>1, OwnWorkers
      <4>2. sip[w] = None
        BY <1>12, <2>1, <3>1, <4>1
      <4>3. cluster.max_num_jobs_per_worker # 1
        BY <1>7, <1>8, <1>9, <3>1, <4>1, <4>2 DEF OnTimeOK, HasOneSlot, InWorker
      <4>4. EdgeTypeOK
        BY DEF EInv
      <4> QED BY <4>3, <4>4, ClusterFacts
    <3>2. JobOK(j)'
      BY <1>2, <1>5, <1>7, <1>8, <1>11, <2>1, <3>1
      DEF JobOK, PlaceOK, HomeOK, CauseOK, InWorker, Kinds
    <3> QED BY <1>1, <1>2, <1>4, <3>2, JobMoved DEF Grown
  <2>2. CASE sip[w] \notin gone \cup {None} /\ p = <<"result", w, sip[w], sid[w]>>
    <3>1. HasItsOwnWorkers(j.mid) => sip[w] = j.mid /\ sid[w] = j.mid
      BY <1>8, <1>12, <2>2, OwnWorkers
    <3>2. /\ place'[j][1] = "result" /\ place'[j][2] = w
          /\ place'[j][3] = sip[w] /\ place'[j][4] = sid[w]
      BY <1>5, <2>2
    <3>3. PlaceOK(j)'
      BY <1>2, <1>8, <1>10, <1>12, <2>2, <3>2 DEF PlaceOK, InWorker
    <3>4. JobOK(j)'
      BY <1>11, <3>1, <3>2, <3>3 DEF JobOK, HomeOK, CauseOK, Kinds
    <3> QED BY <1>1, <1>2, <1>4, <3>4, JobMoved DEF Grown
  <2> QED BY <1>3, <2>1, <2>2
<1>14. SlotsInv'
  BY <1>1, <1>2, <1>4, SlotsStable
<1>15. place'[j][1] \notin InWorker /\ place[j][1] # "sip"
  BY <1>3, <1>5, <1>7 DEF InWorker
<1>16. AttachInv' /\ OnTimeInv'
  <2>1. AttachOK(w)'
    BY <1>2, <1>4, <1>5, <1>9, <1>10, <1>15 DEF AttachOK
  <2>2. OnTimeOK(w)'
    BY <1>2, <1>4, <1>5, <1>9, <1>10, <1>15 DEF OnTimeOK
  <2> QED BY <1>1, <1>2, <1>4, <1>5, <1>7, <1>15, <2>1, <2>2, OtherWorkers
<1>17. CountInv'
  <2>1. \A v : Holds(p, v) <=> Holds(place[j], v)
    BY <1>3, <1>7 DEF Holds, Holding
  <2>2. \A k \in Jobs : \A v \in Workers : Holds(place'[k], v) <=> Holds(place[k], v)
    BY <1>5, <2>1
  <2> QED BY <1>1, <1>2, <1>4, <1>5, <2>2, CountStable
<1> QED BY <1>6, <1>13, <1>14, <1>16, <1>17, EInvPartsNext

-----------------------------------------------------------------------------
(* The invariant.                                                          *)

LEMMA NextEInv == EInv /\ [EdgeNext]_edgeVars => EInv'
<1> SUFFICES ASSUME EInv, [EdgeNext]_edgeVars PROVE EInv'
  OBVIOUS
<1>1. ASSUME NEW j \in Jobs, Send(j) \/ Receive(j) PROVE EInv'
  BY <1>1, SendStep, ReceiveStep
<1>2. CASE Master
  <2>1. ASSUME NEW m \in Masters, ConstructMaster(m) \/ Sleep(m) PROVE EInv'
    BY <2>1, ConstructMasterStep, SleepStep
  <2>2. ASSUME NEW j \in Jobs, ListenEarly(j) \/ Listen(j) \/ HandleResult(j) PROVE EInv'
    BY <2>2, ListenEarlyStep, ListenStep, HandleResultStep
  <2>3. ASSUME NEW j \in Jobs, NEW w \in Workers, Dispatch(j, w) PROVE EInv'
    BY <2>3, DispatchStep
  <2> QED BY <1>2, <2>1, <2>2, <2>3 DEF Master
<1>3. ASSUME NEW m \in Masters, Stop(m) PROVE EInv'
  BY <1>3, StopStep
<1>4. ASSUME NEW w \in Workers, Worker(w) PROVE EInv'
  <2>1. CASE ConstructWorker(w)
    BY <2>1, ConstructWorkerStep
  <2>2. ASSUME NEW j \in Jobs, TestAttached(j, w) \/ AttachSid(j, w) \/ AttachSip(j, w)
        PROVE  EInv'
    BY <2>2, TestAttachedStep, AttachSidStep, AttachSipStep
  <2>3. ASSUME NEW j \in Jobs, Serve(j, w) \/ SendResult(j, w) PROVE EInv'
    BY <2>3, ServeStep, SendResultStep
  <2> QED BY <1>4, <2>1, <2>2, <2>3 DEF Worker
<1>5. CASE UNCHANGED edgeVars
  <2>1. OtherTypes /\ JobsInv /\ SlotsInv /\ AttachInv /\ OnTimeInv /\ CountInv
    BY EInvParts
  <2>2. UNCHANGED <<cluster, place, on, sending, answered, stage, run, slots, deaf, raced,
                    sid, sip, stopped, early, gone>> /\ Jobs' = Jobs
    BY <1>5 DEF edgeVars, clientVars, masterVars, attachVars, Jobs
  <2>3. OtherTypes' /\ SlotsInv'
    BY <2>1, <2>2 DEF OtherTypes, SlotsInv
  <2>4. JobsInv'
    BY <2>1, <2>2, NoJobMoved DEF Grown
  <2>5. AttachInv' /\ OnTimeInv'
    BY <2>1, <2>2, AttachStable
  <2>6. CountInv'
    BY <2>1, <2>2, CountStable
  <2> QED BY <2>3, <2>4, <2>5, <2>6, EInvPartsNext
<1> QED BY <1>1, <1>2, <1>3, <1>4, <1>5 DEF EdgeNext

\* The inductive invariant holds of every state the system comes to.
THEOREM EInvAlways == EdgeSpec => []EInv
<1>1. EdgeInit => EInv
  BY InitEInv
<1>2. EInv /\ [EdgeNext]_edgeVars => EInv'
  BY NextEInv
<1> QED BY <1>1, <1>2, PTL DEF EdgeSpec

-----------------------------------------------------------------------------
(* The theorems.                                                           *)

\* The type invariant of the whole system.
THEOREM EdgeTypes == EdgeSpec => []EdgeTypeOK
<1>1. EInv => EdgeTypeOK
  BY DEF EInv
<1> QED BY <1>1, EInvAlways, PTL

\* Whichever of its masters a worker answers, none of its slots is made or lost
\* but with a job: run() takes one for each job it sends, handle_msg() puts one
\* back for each result.
THEOREM SharedSlots == EdgeSpec => []SlotsMoveBetweenSharers
<1>1. EInv => SlotsMoveBetweenSharers
  BY DEF EInv, CountInv
<1> QED BY <1>1, EInvAlways, PTL

\* The results of a master whose workers are its own come back to it and to its
\* name in the client.
THEOREM ResultsReturn == EdgeSpec => []ResultsComeHome
<1>1. EInv => ResultsComeHome
  BY DEF EInv
<1> QED BY <1>1, EInvAlways, PTL

\* No job is lost but for the causes the model names.
THEOREM LossesExplained == EdgeSpec => []LossesHaveACause
<1>1. EInv => LossesHaveACause
  BY DEF EInv
<1> QED BY <1>1, EInvAlways, PTL
=============================================================================
