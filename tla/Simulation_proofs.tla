--------------------------- MODULE Simulation_proofs ---------------------------
(***************************************************************************)
(* Proofs about Simulation, for every number of clients, servers, results  *)
(* and tokens: its types, the permits of the flow controls, the servers,   *)
(* and the check of the dispatcher.                                        *)
(*                                                                         *)
(* The inductive invariant SimInv adds to these the ring of the cluster    *)
(* (RingInv), when the dispatcher is woken (WakeInv), and where a flow     *)
(* control that waits has its permit (Pacer).                              *)
(***************************************************************************)
EXTENDS Simulation, Counting_proofs

\* The ring holds the clients that have a queue.
RingInv == \A c \in Clients : c \in DOMAIN cid_q_m <=> c \in ToSet(next_cid_to_pop_q)

\* A dispatcher that waits says so, and unless a put came twice it is woken
\* once, for a request that is there.
WakeInv ==
  /\ dispatcher = "sync" <=> waiting_for_req
  /\ ~put_twice /\ dispatcher # "asserted" /\ syncer_s > 0 =>
       syncer_s = 1 /\ dispatcher = "sync" /\ Busy # {}
  /\ dispatcher = "asserted" => put_twice

\* A flow control that waits, in a client that is not done, has its permit; one
\* that waits although the gap is known has it in the syncer.
Pacer(c) ==
  HasFlowControl(c) /\ num_req_recved[c] < NumReqToRecv =>
    /\ num_results[c] < ResultsForAGap(c) =>
         Permits(c) = 1 /\ ~inter_req_time[c] /\ fc_pc[c] = "sync"
    /\ fc_pc[c] = "sync" => Permits(c) >= 1
    /\ fc_pc[c] = "sync" /\ inter_req_time[c] => syncer[c] >= 1
    /\ pacing[c] = "load" =>
         /\ num_results[c] = 0 => syncer[c] = 0
         /\ num_results[c] > 0 => inter_req_time[c]

PacersInv == \A c \in Clients : Pacer(c)

SimInv == SimTypeOK /\ RingInv /\ WakeInv /\ ServersAreConserved /\ PacersInv

-----------------------------------------------------------------------------
(* The places a request of a client can be in, and how many are there.     *)

Sent(c) == Occurrences(<<"request", c>>, net)
Returned(c) == Occurrences(<<"result", c>>, net)
Queued(c) == IF c \in DOMAIN cid_q_m THEN cid_q_m[c] ELSE 0
AtServers(c) == {s \in ServerIds : c \in ToSet(at_server[s])}
Served(c) == Cardinality(AtServers(c))
Back(c) == Occurrences(c, results)

LEMMA ServerIdsFacts == IsFiniteSet(ServerIds) /\ 0 \in ServerIds /\ ServerIds \subseteq Nat
<1>1. NumServer \in Nat /\ NumServer > 0
  BY NumbersAssumption
<1>2. IsFiniteSet(0..(NumServer - 1))
  BY <1>1, FS_Interval
<1> QED BY <1>1, <1>2 DEF ServerIds

LEMMA PermitsParts ==
  \A c : Permits(c) = syncer[c] + token_s[c]
                        + (Sent(c) + Returned(c) + Queued(c) + Served(c) + Back(c) + result_s[c])
  BY DEF Permits, Outstanding, Sent, Returned, Queued, AtServers, Served, Back

LEMMA PermitsPartsNext ==
  (\A c : Permits(c) = syncer[c] + token_s[c]
            + (Sent(c) + Returned(c) + Queued(c) + Served(c) + Back(c) + result_s[c]))'
  BY PermitsParts, PTL

LEMMA CountsAreNat ==
  SimTypeOK => \A c \in Clients :
    /\ Sent(c) \in Nat /\ Returned(c) \in Nat /\ Queued(c) \in Nat /\ Back(c) \in Nat
    /\ IsFiniteSet(AtServers(c)) /\ Served(c) \in Nat
    /\ syncer[c] \in Nat /\ token_s[c] \in Nat /\ result_s[c] \in Nat
<1> SUFFICES ASSUME SimTypeOK, NEW c \in Clients
    PROVE  /\ Sent(c) \in Nat /\ Returned(c) \in Nat /\ Queued(c) \in Nat /\ Back(c) \in Nat
           /\ IsFiniteSet(AtServers(c)) /\ Served(c) \in Nat
           /\ syncer[c] \in Nat /\ token_s[c] \in Nat /\ result_s[c] \in Nat
  OBVIOUS
<1>1. net \in Seq(Kinds \X Clients) /\ results \in Seq(Clients)
  BY DEF SimTypeOK
<1>2. Sent(c) \in Nat /\ Returned(c) \in Nat /\ Back(c) \in Nat
  BY <1>1, OccurrencesType DEF Sent, Returned, Back
<1>3. Queued(c) \in Nat
  BY DEF Queued, SimTypeOK
<1>4. IsFiniteSet(AtServers(c))
  BY ServerIdsFacts, FS_Subset DEF AtServers
<1>5. Served(c) \in Nat
  BY <1>4, FS_CardinalityType DEF Served
<1> QED BY <1>2, <1>3, <1>4, <1>5 DEF SimTypeOK

LEMMA CountsAreNatNext ==
  (SimTypeOK => \A c \in Clients :
    /\ Sent(c) \in Nat /\ Returned(c) \in Nat /\ Queued(c) \in Nat /\ Back(c) \in Nat
    /\ IsFiniteSet(AtServers(c)) /\ Served(c) \in Nat
    /\ syncer[c] \in Nat /\ token_s[c] \in Nat /\ result_s[c] \in Nat)'
  BY CountsAreNat, PTL

\* A message enters the network, or leaves it.
LEMMA NetAppend ==
  ASSUME SimTypeOK, NEW k \in Kinds, NEW c \in Clients, net' = Append(net, <<k, c>>)
  PROVE  /\ net' \in Seq(Kinds \X Clients)
         /\ \A d : Sent(d)' = Sent(d) + (IF k = "request" /\ d = c THEN 1 ELSE 0)
         /\ \A d : Returned(d)' = Returned(d) + (IF k = "result" /\ d = c THEN 1 ELSE 0)
<1>1. net \in Seq(Kinds \X Clients) /\ <<k, c>> \in Kinds \X Clients
  BY DEF SimTypeOK
<1>2. \A x : Occurrences(x, net') = Occurrences(x, net) + (IF <<k, c>> = x THEN 1 ELSE 0)
  BY <1>1, OccurrencesAppend
<1>3. ASSUME NEW d PROVE Sent(d)' = Sent(d) + (IF k = "request" /\ d = c THEN 1 ELSE 0)
  <2>1. Sent(d)' = Sent(d) + (IF <<k, c>> = <<"request", d>> THEN 1 ELSE 0)
    BY <1>2 DEF Sent
  <2>2. <<k, c>> = <<"request", d>> <=> k = "request" /\ d = c
    OBVIOUS
  <2> QED BY <2>1, <2>2, Zenon
<1>4. ASSUME NEW d PROVE Returned(d)' = Returned(d) + (IF k = "result" /\ d = c THEN 1 ELSE 0)
  <2>1. Returned(d)' = Returned(d) + (IF <<k, c>> = <<"result", d>> THEN 1 ELSE 0)
    BY <1>2 DEF Returned
  <2>2. <<k, c>> = <<"result", d>> <=> k = "result" /\ d = c
    OBVIOUS
  <2> QED BY <2>1, <2>2, Zenon
<1>5. net' \in Seq(Kinds \X Clients)
  BY <1>1, AppendProperties
<1> QED BY <1>3, <1>4, <1>5

LEMMA NetTail ==
  ASSUME SimTypeOK, net # <<>>, net' = Tail(net)
  PROVE  /\ net' \in Seq(Kinds \X Clients)
         /\ \E k \in Kinds, c \in Clients :
              /\ Head(net) = <<k, c>>
              /\ \A d : Sent(d) = Sent(d)' + (IF k = "request" /\ d = c THEN 1 ELSE 0)
              /\ \A d : Returned(d) = Returned(d)' + (IF k = "result" /\ d = c THEN 1 ELSE 0)
<1>1. net \in Seq(Kinds \X Clients)
  BY DEF SimTypeOK
<1>2. Head(net) \in Kinds \X Clients /\ Tail(net) \in Seq(Kinds \X Clients)
  BY <1>1, HeadTailProperties
<1>3. PICK k \in Kinds, c \in Clients : Head(net) = <<k, c>>
  BY <1>2
<1>4. \A x : Occurrences(x, net) = Occurrences(x, net') + (IF <<k, c>> = x THEN 1 ELSE 0)
  BY <1>1, <1>3, OccurrencesTail
<1>5. ASSUME NEW d PROVE Sent(d) = Sent(d)' + (IF k = "request" /\ d = c THEN 1 ELSE 0)
  <2>1. Sent(d) = Sent(d)' + (IF <<k, c>> = <<"request", d>> THEN 1 ELSE 0)
    BY <1>4 DEF Sent
  <2>2. <<k, c>> = <<"request", d>> <=> k = "request" /\ d = c
    OBVIOUS
  <2> QED BY <2>1, <2>2, Zenon
<1>6. ASSUME NEW d PROVE Returned(d) = Returned(d)' + (IF k = "result" /\ d = c THEN 1 ELSE 0)
  <2>1. Returned(d) = Returned(d)' + (IF <<k, c>> = <<"result", d>> THEN 1 ELSE 0)
    BY <1>4 DEF Returned
  <2>2. <<k, c>> = <<"result", d>> <=> k = "result" /\ d = c
    OBVIOUS
  <2> QED BY <2>1, <2>2, Zenon
<1> QED BY <1>2, <1>3, <1>5, <1>6

\* A request comes to a server that had none.
LEMMA ServerTakes ==
  ASSUME SimTypeOK, NEW s \in ServerIds, NEW c \in Clients, at_server[s] = <<>>,
         at_server' = [at_server EXCEPT ![s] = Append(@, c)]
  PROVE  /\ at_server' \in [ServerIds -> Seq(Clients)]
         /\ at_server'[s] = <<c>> /\ Len(at_server'[s]) = 1
         /\ \A r \in ServerIds : r # s => at_server'[r] = at_server[r]
         /\ \A d \in Clients : Served(d)' = Served(d) + (IF d = c THEN 1 ELSE 0)
<1>1. at_server \in [ServerIds -> Seq(Clients)]
  BY DEF SimTypeOK
<1>2. Append(<<>>, c) = <<c>> /\ <<c>> \in Seq(Clients) /\ Len(<<c>>) = 1
  OBVIOUS
<1>3. /\ at_server' \in [ServerIds -> Seq(Clients)] /\ at_server'[s] = <<c>>
      /\ \A r \in ServerIds : r # s => at_server'[r] = at_server[r]
  BY <1>1, <1>2
<1>4. ToSet(at_server[s]) = {} /\ ToSet(at_server'[s]) = {c}
  BY <1>3 DEF ToSet
<1>5. ASSUME NEW d \in Clients PROVE Served(d)' = Served(d) + (IF d = c THEN 1 ELSE 0)
  <2> DEFINE A == AtServers(d)
             B == {r \in ServerIds : d \in ToSet(at_server'[r])}
  <2>1. A = {r \in ServerIds : d \in ToSet(at_server[r])}
    BY DEF AtServers
  <2>2. s \notin A
    BY <1>4, <2>1
  <2>3. Served(d) = Cardinality(A) /\ IsFiniteSet(A) /\ Served(d) \in Nat
    BY CountsAreNat DEF Served
  <2>4. Served(d)' = Cardinality(B)
    BY DEF Served, AtServers
  <2>5. \A r \in ServerIds : r # s => (r \in B <=> r \in A)
    BY <1>3, <2>1
  <2>6. s \in B <=> d = c
    BY <1>4
  <2>7. B \subseteq ServerIds /\ A \subseteq ServerIds
    BY <2>1
  <2> HIDE DEF A, B
  <2>8. CASE d = c
    <3>1. B = A \cup {s}
      BY <2>5, <2>6, <2>7, <2>8
    <3> QED BY <2>2, <2>3, <2>4, <2>8, <3>1, FS_AddElement
  <2>9. CASE d # c
    <3>1. B = A
      <4>1. \A r \in ServerIds : r \in B <=> r \in A
        BY <2>2, <2>5, <2>6, <2>9
      <4> QED BY <2>7, <4>1
    <3> QED BY <2>3, <2>4, <2>9, <3>1
  <2> QED BY <2>8, <2>9
<1> QED BY <1>2, <1>3, <1>5

\* A server is done with its request.
LEMMA ServerGives ==
  ASSUME SimTypeOK, NEW s \in ServerIds, Len(at_server[s]) = 1,
         at_server' = [at_server EXCEPT ![s] = Tail(@)]
  PROVE  /\ at_server' \in [ServerIds -> Seq(Clients)]
         /\ at_server'[s] = <<>> /\ Head(at_server[s]) \in Clients
         /\ \A r \in ServerIds : r # s => at_server'[r] = at_server[r]
         /\ \A d \in Clients :
              Served(d) = Served(d)' + (IF d = Head(at_server[s]) THEN 1 ELSE 0)
<1>1. at_server \in [ServerIds -> Seq(Clients)]
  BY DEF SimTypeOK
<1> DEFINE q == at_server[s]
           c == q[1]
<1>2. q \in Seq(Clients) /\ Len(q) = 1
  BY <1>1
<1>3. Head(q) = c /\ c \in Clients /\ Tail(q) = <<>> /\ DOMAIN q = {1}
  <2> HIDE DEF q
  <2>1. q # <<>> /\ DOMAIN q = 1..1
    <3>1. q # <<>>
      <4>1. Len(<<>>) = 0
        OBVIOUS
      <4>2. Len(q) # Len(<<>>)
        BY <1>2, <4>1
      <4> QED BY <4>2, Zenon
    <3>2. DOMAIN q = 1..Len(q)
      BY <1>2, LenProperties
    <3> QED BY <1>2, <3>1, <3>2
  <2>2. Tail(q) \in Seq(Clients) /\ Len(Tail(q)) = 0
    BY <1>2, <2>1, HeadTailProperties
  <2>3. Tail(q) = <<>>
    BY <2>2, EmptySeq
  <2> QED BY <1>2, <2>1, <2>3, ElementOfSeq
<1>4. /\ at_server' \in [ServerIds -> Seq(Clients)] /\ at_server'[s] = <<>>
      /\ \A r \in ServerIds : r # s => at_server'[r] = at_server[r]
  <2>1. Tail(at_server[s]) = <<>>
    BY <1>3
  <2>2. at_server' = [at_server EXCEPT ![s] = Tail(at_server[s])]
    OBVIOUS
  <2>3. at_server' = [at_server EXCEPT ![s] = <<>>]
    BY <2>1, <2>2, Zenon
  <2>4. <<>> \in Seq(Clients)
    BY EmptySeq
  <2> DEFINE e == <<>>
  <2>5. at_server' = [at_server EXCEPT ![s] = e] /\ e \in Seq(Clients)
    BY <2>3, <2>4
  <2> HIDE DEF e
  <2>6. /\ at_server' \in [ServerIds -> Seq(Clients)] /\ at_server'[s] = e
        /\ \A r \in ServerIds : r # s => at_server'[r] = at_server[r]
    BY <1>1, <2>5
  <2> QED BY <2>6 DEF e
<1>5. ToSet(at_server[s]) = {c} /\ ToSet(at_server'[s]) = {}
  BY <1>3, <1>4 DEF ToSet
<1>6. ASSUME NEW d \in Clients PROVE Served(d) = Served(d)' + (IF d = c THEN 1 ELSE 0)
  <2> DEFINE A == AtServers(d)
             B == {r \in ServerIds : d \in ToSet(at_server'[r])}
  <2>1. A = {r \in ServerIds : d \in ToSet(at_server[r])}
    BY DEF AtServers
  <2>2. s \notin B
    BY <1>5
  <2>3. Served(d) = Cardinality(A) /\ IsFiniteSet(A)
    BY CountsAreNat DEF Served
  <2>4. Served(d)' = Cardinality(B)
    BY DEF Served, AtServers
  <2>5. \A r \in ServerIds : r # s => (r \in B <=> r \in A)
    BY <1>4, <2>1
  <2>6. s \in A <=> d = c
    BY <1>5, <2>1
  <2>7. B \subseteq ServerIds /\ A \subseteq ServerIds
    BY <2>1
  <2>8. IsFiniteSet(B)
    BY <2>7, ServerIdsFacts, FS_Subset
  <2> HIDE DEF A, B, c
  <2>9. CASE d = c
    <3>1. A = B \cup {s}
      BY <2>5, <2>6, <2>7, <2>9
    <3> QED BY <2>2, <2>3, <2>4, <2>8, <2>9, <3>1, FS_AddElement
  <2>10. CASE d # c
    <3>1. B = A
      <4>1. \A r \in ServerIds : r \in B <=> r \in A
        BY <2>2, <2>5, <2>6, <2>10
      <4> QED BY <2>7, <4>1
    <3>2. Cardinality(B) \in Nat
      BY <2>8, FS_CardinalityType
    <3> QED BY <2>3, <2>4, <2>10, <3>1, <3>2
  <2> QED BY <2>9, <2>10
<1> QED BY <1>3, <1>4, <1>6

\* next_req(): the request of a busy client is taken, and the ring turns.
LEMMA RingServes ==
  ASSUME SimTypeOK, RingInv, NEW s, NEW t \in Busy, Serve(s, t)
  PROVE  /\ next_cid_to_pop_q[t] \in Clients
         /\ DOMAIN cid_q_m' = DOMAIN cid_q_m /\ cid_q_m' \in [DOMAIN cid_q_m' -> Nat]
         /\ next_cid_to_pop_q' \in Seq(Clients)
         /\ RingInv'
         /\ \A d : Queued(d) = Queued(d)' + (IF d = next_cid_to_pop_q[t] THEN 1 ELSE 0)
         /\ at_server' = [at_server EXCEPT ![s] = Append(@, next_cid_to_pop_q[t])]
         /\ dispatcher' = "sid"
<1> DEFINE r == next_cid_to_pop_q
           n == Len(r)
           c == r[t]
           u == SubSeq(r, t + 1, n)
           v == SubSeq(r, 1, t)
<1>1. /\ r \in Seq(Clients) /\ n \in Nat /\ DOMAIN r = 1..n
      /\ \A i \in 1..n : r[i] \in Clients
  <2>1. r \in Seq(Clients)
    BY DEF SimTypeOK
  <2> QED BY <2>1, LenProperties, ElementOfSeq
<1>2. t \in 1..n /\ cid_q_m[c] > 0
  BY <1>1 DEF Busy
<1>3. r' = u \o v /\ cid_q_m' = [cid_q_m EXCEPT ![c] = @ - 1]
  BY DEF Serve
<1>4. c \in Clients /\ c \in DOMAIN cid_q_m
  <2>1. c \in ToSet(r)
    BY <1>1, <1>2 DEF ToSet
  <2> QED BY <1>1, <1>2, <2>1 DEF RingInv
<1>5. cid_q_m \in [DOMAIN cid_q_m -> Nat]
  BY DEF SimTypeOK
<1> HIDE DEF c
<1>6. /\ DOMAIN cid_q_m' = DOMAIN cid_q_m /\ cid_q_m' \in [DOMAIN cid_q_m -> Nat]
      /\ cid_q_m'[c] = cid_q_m[c] - 1
      /\ \A d \in DOMAIN cid_q_m : d # c => cid_q_m'[d] = cid_q_m[d]
  BY <1>2, <1>3, <1>4, <1>5 DEF c
<1>7. ASSUME NEW d PROVE Queued(d) = Queued(d)' + (IF d = c THEN 1 ELSE 0)
  BY <1>4, <1>5, <1>6 DEF Queued
<1> HIDE DEF r, n
<1>8. /\ u \in Seq(Clients) /\ Len(u) = n - t
      /\ \A i \in 1..(n - t) : u[i] = r[i + t]
  <2>1. \A i \in (t + 1)..n : r[i] \in Clients
    BY <1>1, <1>2
  <2>2. t + 1 \in Int /\ n \in Int
    BY <1>1, <1>2
  <2>3. /\ u \in Seq(Clients)
        /\ Len(u) = IF t + 1 <= n THEN n - (t + 1) + 1 ELSE 0
        /\ \A i \in 1..(n - (t + 1) + 1) : u[i] = r[(t + 1) + i - 1]
    BY <2>1, <2>2, SubSeqProperties
  <2> HIDE DEF u
  <2> QED BY <1>1, <1>2, <2>3
<1>9. /\ v \in Seq(Clients) /\ Len(v) = t
      /\ \A i \in 1..t : v[i] = r[i]
  <2>1. \A i \in 1..t : r[i] \in Clients
    BY <1>1, <1>2
  <2>2. 1 \in Int /\ t \in Int
    BY <1>1, <1>2
  <2>3. /\ v \in Seq(Clients)
        /\ Len(v) = IF 1 <= t THEN t - 1 + 1 ELSE 0
        /\ \A i \in 1..(t - 1 + 1) : v[i] = r[1 + i - 1]
    BY <2>1, <2>2, SubSeqProperties
  <2> HIDE DEF v
  <2> QED BY <1>1, <1>2, <2>3
<1> HIDE DEF u, v
<1>10. /\ u \o v \in Seq(Clients) /\ Len(u \o v) = n
       /\ \A i \in 1..n : (u \o v)[i] = IF i <= n - t THEN r[i + t] ELSE r[i - (n - t)]
  <2>1. /\ u \o v \in Seq(Clients) /\ Len(u \o v) = Len(u) + Len(v)
        /\ \A i \in 1..(Len(u) + Len(v)) :
             (u \o v)[i] = IF i <= Len(u) THEN u[i] ELSE v[i - Len(u)]
    BY <1>8, <1>9, ConcatProperties
  <2>2. Len(u) + Len(v) = n
    BY <1>1, <1>2, <1>8, <1>9
  <2>3. ASSUME NEW i \in 1..n
        PROVE  (u \o v)[i] = IF i <= n - t THEN r[i + t] ELSE r[i - (n - t)]
    <3>1. (u \o v)[i] = IF i <= n - t THEN u[i] ELSE v[i - (n - t)]
      BY <1>8, <2>1, <2>2
    <3>2. i <= n - t => i \in 1..(n - t)
      BY <1>1, <1>2
    <3>3. ~(i <= n - t) => i - (n - t) \in 1..t
      BY <1>1, <1>2
    <3> QED BY <1>8, <1>9, <3>1, <3>2, <3>3
  <2> QED BY <2>1, <2>2, <2>3
<1>11. r' \in Seq(Clients) /\ DOMAIN r' = 1..n
  BY <1>3, <1>10, LenProperties
<1>12. ASSUME NEW d PROVE d \in ToSet(r') <=> d \in ToSet(r)
  <2>1. d \in ToSet(r') <=> \E i \in 1..n : r'[i] = d
    BY <1>11 DEF ToSet
  <2>2. d \in ToSet(r) <=> \E i \in 1..n : r[i] = d
    BY <1>1 DEF ToSet
  <2>3. ASSUME NEW i \in 1..n PROVE \E k \in 1..n : r'[i] = r[k]
    <3>1. CASE i <= n - t
      <4>1. i + t \in 1..n
        BY <1>1, <1>2, <3>1
      <4> QED BY <1>3, <1>10, <3>1, <4>1
    <3>2. CASE ~(i <= n - t)
      <4>1. i - (n - t) \in 1..n
        BY <1>1, <1>2, <3>2
      <4> QED BY <1>3, <1>10, <3>2, <4>1
    <3> QED BY <3>1, <3>2
  <2>4. ASSUME NEW k \in 1..n PROVE \E i \in 1..n : r'[i] = r[k]
    <3>1. CASE k <= t
      <4>1. k + (n - t) \in 1..n /\ ~(k + (n - t) <= n - t) /\ (k + (n - t)) - (n - t) = k
        BY <1>1, <1>2, <3>1
      <4> QED BY <1>3, <1>10, <4>1
    <3>2. CASE ~(k <= t)
      <4>1. k - t \in 1..n /\ k - t <= n - t /\ (k - t) + t = k
        BY <1>1, <1>2, <3>2
      <4> QED BY <1>3, <1>10, <4>1
    <3> QED BY <3>1, <3>2
  <2> QED BY <2>1, <2>2, <2>3, <2>4
<1>13. RingInv'
  BY <1>6, <1>12 DEF RingInv, r
<1>14. dispatcher' = "sid" /\ at_server' = [at_server EXCEPT ![s] = Append(@, c)]
  BY DEF Serve, c, r
<1> QED BY <1>4, <1>6, <1>7, <1>11, <1>13, <1>14 DEF c, r

\* put(): the client is in the ring, and has a request.
LEMMA RingQueues ==
  ASSUME SimTypeOK, RingInv, NEW c \in Clients, Queue(c)
  PROVE  /\ DOMAIN cid_q_m' \subseteq Clients /\ cid_q_m' \in [DOMAIN cid_q_m' -> Nat]
         /\ next_cid_to_pop_q' \in Seq(Clients)
         /\ RingInv' /\ Busy' # {}
         /\ \A d : Queued(d)' = Queued(d) + (IF d = c THEN 1 ELSE 0)
<1> DEFINE r == next_cid_to_pop_q
<1>1. cid_q_m \in [DOMAIN cid_q_m -> Nat] /\ DOMAIN cid_q_m \subseteq Clients /\ r \in Seq(Clients)
  BY DEF SimTypeOK
<1>2. /\ cid_q_m' = [d \in DOMAIN cid_q_m \cup {c} |->
            (IF d \in DOMAIN cid_q_m THEN cid_q_m[d] ELSE 0) + (IF d = c THEN 1 ELSE 0)]
      /\ r' = IF c \in DOMAIN cid_q_m THEN r ELSE Append(r, c)
  BY DEF Queue
<1>3. /\ DOMAIN cid_q_m' = DOMAIN cid_q_m \cup {c}
      /\ cid_q_m' \in [DOMAIN cid_q_m' -> Nat] /\ cid_q_m'[c] > 0
      /\ \A d \in DOMAIN cid_q_m : d # c => cid_q_m'[d] = cid_q_m[d]
      /\ cid_q_m'[c] = (IF c \in DOMAIN cid_q_m THEN cid_q_m[c] ELSE 0) + 1
  BY <1>1, <1>2
<1>4. ASSUME NEW d PROVE Queued(d)' = Queued(d) + (IF d = c THEN 1 ELSE 0)
  BY <1>1, <1>3 DEF Queued
<1>5. r' \in Seq(Clients)
  BY <1>1, <1>2, AppendProperties
<1>6. ASSUME NEW d PROVE d \in ToSet(r') <=> d \in ToSet(r) \/ d = c
  <2>1. DOMAIN r = 1..Len(r) /\ DOMAIN r' = 1..Len(r') /\ Len(r) \in Nat
    BY <1>1, <1>5, LenProperties
  <2>2. CASE c \in DOMAIN cid_q_m
    <3>1. c \in ToSet(r)
      BY <2>2 DEF RingInv
    <3> QED BY <1>2, <2>2, <3>1
  <2>3. CASE c \notin DOMAIN cid_q_m
    <3>1. r' = Append(r, c)
      BY <1>2, <2>3
    <3>2. Len(r') = Len(r) + 1 /\ r'[Len(r) + 1] = c /\ \A i \in 1..Len(r) : r'[i] = r[i]
      BY <1>1, <3>1, AppendProperties
    <3>3. d \in ToSet(r') <=> \E i \in 1..(Len(r) + 1) : r'[i] = d
      BY <2>1, <3>2 DEF ToSet
    <3>4. d \in ToSet(r) <=> \E i \in 1..Len(r) : r[i] = d
      BY <2>1 DEF ToSet
    <3> QED BY <2>1, <3>2, <3>3, <3>4
  <2> QED BY <2>2, <2>3
<1>7. RingInv'
  BY <1>3, <1>6 DEF RingInv
<1>8. Busy' # {}
  <2>1. c \in ToSet(r')
    BY <1>6
  <2>2. PICK i \in DOMAIN r' : r'[i] = c
    BY <2>1 DEF ToSet
  <2>3. i \in Busy'
    BY <1>3, <2>2 DEF Busy
  <2> QED BY <2>3
<1> QED BY <1>1, <1>3, <1>4, <1>5, <1>7, <1>8

-----------------------------------------------------------------------------
(* What a step leaves alone.                                               *)

LEMMA RingStable ==
  ASSUME RingInv, UNCHANGED queueVars
  PROVE  RingInv' /\ Busy' = Busy /\ \A c : Queued(c)' = Queued(c)
  BY DEF RingInv, queueVars, Busy, Queued

LEMMA WakeStable ==
  ASSUME WakeInv, UNCHANGED queueVars, UNCHANGED dispVars, put_twice' = put_twice
  PROVE  WakeInv'
  BY DEF WakeInv, queueVars, dispVars, Busy

LEMMA ServersStable ==
  ASSUME ServersAreConserved, UNCHANGED <<sid_s, dispatcher, sid, at_server>>
  PROVE  ServersAreConserved'
  BY DEF ServersAreConserved

LEMMA ServedStable ==
  ASSUME at_server' = at_server
  PROVE  \A c : Served(c)' = Served(c)
  BY DEF Served, AtServers

LEMMA NetStable ==
  ASSUME net' = net
  PROVE  \A c : Sent(c)' = Sent(c) /\ Returned(c)' = Returned(c)
  BY DEF Sent, Returned

LEMMA BackStable ==
  ASSUME results' = results
  PROVE  \A c : Back(c)' = Back(c)
  BY DEF Back

\* A client whose flow control is not touched and whose permits stay as many.
LEMMA PacerStable ==
  ASSUME NEW c \in Clients, Pacer(c), pacing' = pacing,
         fc_pc'[c] = fc_pc[c], inter_req_time'[c] = inter_req_time[c], syncer'[c] = syncer[c],
         num_results'[c] = num_results[c], num_req_recved'[c] = num_req_recved[c],
         Permits(c)' = Permits(c)
  PROVE  Pacer(c)'
  BY DEF Pacer, HasFlowControl, ResultsForAGap

-----------------------------------------------------------------------------
(* The steps of a client.                                                  *)

LEMMA PermitsSame ==
  ASSUME SimTypeOK, SimTypeOK', NEW c \in Clients,
         syncer'[c] + token_s'[c] = syncer[c] + token_s[c], net' = net, UNCHANGED queueVars,
         at_server' = at_server, results' = results, result_s'[c] = result_s[c]
  PROVE  Permits(c)' = Permits(c)
<1>1. /\ Sent(c)' = Sent(c) /\ Returned(c)' = Returned(c) /\ Queued(c)' = Queued(c)
      /\ Served(c)' = Served(c) /\ Back(c)' = Back(c)
  BY NetStable, ServedStable, BackStable DEF Queued, queueVars
<1> QED BY <1>1, PermitsParts, PermitsPartsNext

LEMMA RunStep ==
  ASSUME SimInv, NEW c \in Clients, RunFlowControl(c)
  PROVE  SimInv'
<1>1. SimTypeOK /\ RingInv /\ WakeInv /\ ServersAreConserved /\ PacersInv
  BY DEF SimInv
<1>2. UNCHANGED <<pacing, inter_req_time, num_results, result_s, num_req_recved, net,
                  queueVars, dispVars, at_server, results, put_twice>>
  BY DEF RunFlowControl
<1>3. PICK n \in {1, 2} :
        /\ n = 1 \/ (n = 2 /\ pacing[c] = "load" /\ ~inter_req_time[c])
        /\ fc_pc[c] = "sync" => syncer[c] > 0
        /\ syncer' = [syncer EXCEPT ![c] = IF fc_pc[c] = "sync" THEN @ - 1 ELSE @]
        /\ tokens[c] + n <= MaxTokens
        /\ tokens' = [tokens EXCEPT ![c] = @ + n]
        /\ token_s' = [token_s EXCEPT ![c] = @ + n]
        /\ fc_pc' = [fc_pc EXCEPT ![c] = IF inter_req_time[c] THEN "sleep" ELSE "sync"]
  <2>1. CASE RunTime(c)
    BY <2>1 DEF RunTime, Waited, PutTokens, Loop
  <2>2. CASE RunLoad(c)
    <3>1. CASE inter_req_time[c]
      BY <2>2, <3>1 DEF RunLoad, Waited, PutTokens, Loop
    <3>2. CASE ~inter_req_time[c]
      BY <2>2, <3>2 DEF RunLoad, Waited, PutTokens, Loop
    <3> QED BY <3>1, <3>2
  <2> QED BY <2>1, <2>2 DEF RunFlowControl
<1>4. /\ pacing[c] \in {"time", "load"} /\ HasFlowControl(c)
  BY DEF RunFlowControl, RunTime, RunLoad, HasFlowControl
<1>5. SimTypeOK'
  <2>1. /\ syncer \in [Clients -> Nat] /\ tokens \in [Clients -> 0..MaxTokens]
        /\ token_s \in [Clients -> Nat] /\ fc_pc \in [Clients -> {"sync", "sleep"}]
        /\ MaxTokens \in Nat
    BY <1>1, NumbersAssumption DEF SimTypeOK
  <2>2. syncer' \in [Clients -> Nat]
    BY <1>3, <2>1
  <2>3. tokens' \in [Clients -> 0..MaxTokens]
    <3>1. tokens[c] + n \in 0..MaxTokens
      BY <1>3, <2>1
    <3> QED BY <1>3, <2>1, <3>1
  <2>4. token_s' \in [Clients -> Nat] /\ fc_pc' \in [Clients -> {"sync", "sleep"}]
    BY <1>3, <2>1
  <2> QED BY <1>1, <1>2, <2>2, <2>3, <2>4 DEF SimTypeOK, queueVars, dispVars
<1>6. RingInv' /\ WakeInv' /\ ServersAreConserved'
  BY <1>1, <1>2, RingStable, WakeStable, ServersStable DEF dispVars
<1>7. ASSUME NEW d \in Clients, d # c PROVE Pacer(d)'
  <2>1. syncer'[d] = syncer[d] /\ token_s'[d] = token_s[d] /\ fc_pc'[d] = fc_pc[d]
    BY <1>1, <1>3, <1>7 DEF SimTypeOK
  <2>2. Permits(d)' = Permits(d)
    BY <1>1, <1>2, <1>5, <2>1, PermitsSame
  <2> QED BY <1>1, <1>2, <2>1, <2>2, PacerStable DEF PacersInv
<1>8. Pacer(c)'
  <2>1. /\ syncer'[c] = IF fc_pc[c] = "sync" THEN syncer[c] - 1 ELSE syncer[c]
        /\ token_s'[c] = token_s[c] + n
        /\ fc_pc'[c] = IF inter_req_time[c] THEN "sleep" ELSE "sync"
        /\ syncer[c] \in Nat /\ token_s[c] \in Nat /\ n \in Nat /\ n >= 1
        /\ fc_pc[c] \in {"sync", "sleep"} /\ inter_req_time[c] \in BOOLEAN
        /\ num_results[c] \in Nat
    <3>1. /\ syncer \in [Clients -> Nat] /\ token_s \in [Clients -> Nat]
          /\ fc_pc \in [Clients -> {"sync", "sleep"}] /\ inter_req_time \in [Clients -> BOOLEAN]
          /\ num_results \in [Clients -> 0..MinResults] /\ MinResults \in Nat
      BY <1>1, NumbersAssumption DEF SimTypeOK
    <3>2. /\ syncer'[c] = IF fc_pc[c] = "sync" THEN syncer[c] - 1 ELSE syncer[c]
          /\ token_s'[c] = token_s[c] + n
          /\ fc_pc'[c] = IF inter_req_time[c] THEN "sleep" ELSE "sync"
      BY <1>3, <3>1
    <3>3. syncer[c] \in Nat /\ token_s[c] \in Nat /\ n \in Nat /\ n >= 1
      BY <3>1
    <3>4. /\ fc_pc[c] \in {"sync", "sleep"} /\ inter_req_time[c] \in BOOLEAN
          /\ num_results[c] \in Nat
      BY <3>1
    <3> QED BY <3>2, <3>3, <3>4
  <2> DEFINE rest == Sent(c) + Returned(c) + Queued(c) + Served(c) + Back(c) + result_s[c]
  <2>2. rest \in Nat /\ rest' = rest
    <3>1. /\ Sent(c)' = Sent(c) /\ Returned(c)' = Returned(c) /\ Queued(c)' = Queued(c)
          /\ Served(c)' = Served(c) /\ Back(c)' = Back(c) /\ result_s' = result_s
      BY <1>2, NetStable, ServedStable, BackStable DEF Queued, queueVars
    <3> QED BY <1>1, <3>1, CountsAreNat
  <2>3. Permits(c) = syncer[c] + token_s[c] + rest
    BY PermitsParts
  <2>4. Permits(c)' = syncer'[c] + token_s'[c] + rest'
    BY PermitsPartsNext
  <2> HIDE DEF rest
  <2>5. Permits(c)' >= 1
    BY <1>3, <2>1, <2>2, <2>4
  <2> SUFFICES ASSUME num_req_recved[c] < NumReqToRecv
      PROVE  /\ num_results[c] < ResultsForAGap(c) =>
                  Permits(c)' = 1 /\ ~inter_req_time[c] /\ fc_pc'[c] = "sync"
             /\ fc_pc'[c] = "sync" /\ inter_req_time[c] => syncer'[c] >= 1
             /\ pacing[c] = "load" =>
                  /\ num_results[c] = 0 => syncer'[c] = 0
                  /\ num_results[c] > 0 => inter_req_time[c]
    BY <1>2, <2>5 DEF Pacer, ResultsForAGap, HasFlowControl
  <2>6. Pacer(c)
    BY <1>1 DEF PacersInv
  <2>7. /\ num_results[c] < ResultsForAGap(c) =>
             Permits(c) = 1 /\ ~inter_req_time[c] /\ fc_pc[c] = "sync"
        /\ pacing[c] = "load" =>
             /\ num_results[c] = 0 => syncer[c] = 0
             /\ num_results[c] > 0 => inter_req_time[c]
    BY <1>4, <2>6 DEF Pacer
  <2>8. pacing[c] = "load" => num_results[c] > 0
    <3>1. pacing[c] = "load" => ResultsForAGap(c) = 1
      BY DEF ResultsForAGap
    <3> QED BY <1>3, <2>1, <2>7, <3>1
  <2>9. CASE pacing[c] = "load"
    <3>1. num_results[c] > 0 /\ inter_req_time[c] /\ ~(num_results[c] < ResultsForAGap(c))
      BY <2>1, <2>7, <2>8, <2>9 DEF ResultsForAGap
    <3> QED BY <2>1, <3>1
  <2>10. CASE pacing[c] = "time"
    <3>1. n = 1
      BY <1>3, <2>10
    <3> QED BY <1>3, <2>1, <2>2, <2>3, <2>4, <2>7, <2>10, <3>1
  <2> QED BY <1>4, <2>9, <2>10
<1> QED BY <1>5, <1>6, <1>7, <1>8 DEF SimInv, PacersInv

LEMMA SendReqStep ==
  ASSUME SimInv, NEW c \in Clients, SendReq(c)
  PROVE  SimInv'
<1>1. SimTypeOK /\ RingInv /\ WakeInv /\ ServersAreConserved /\ PacersInv
  BY DEF SimInv
<1>2. /\ UNCHANGED <<fcSimVars, result_s, num_req_recved, queueVars, dispVars, at_server,
                     results, put_twice>>
      /\ token_s[c] > 0 /\ token_s' = [token_s EXCEPT ![c] = @ - 1]
      /\ net' = Append(net, <<"request", c>>)
  BY DEF SendReq
<1>3. /\ net' \in Seq(Kinds \X Clients)
      /\ \A d : Sent(d)' = Sent(d) + (IF d = c THEN 1 ELSE 0)
      /\ \A d : Returned(d)' = Returned(d)
  <2>1. "request" \in Kinds
    BY DEF Kinds
  <2>2. /\ net' \in Seq(Kinds \X Clients)
        /\ \A d : Sent(d)' = Sent(d) + (IF "request" = "request" /\ d = c THEN 1 ELSE 0)
        /\ \A d : Returned(d)' = Returned(d) + (IF "request" = "result" /\ d = c THEN 1 ELSE 0)
    BY <1>1, <1>2, <2>1, NetAppend
  <2>3. ASSUME NEW d PROVE Returned(d) \in Nat
    BY <1>1, OccurrencesType DEF Returned, SimTypeOK
  <2> QED BY <2>2, <2>3
<1>4. SimTypeOK'
  <2>1. token_s' \in [Clients -> Nat]
    BY <1>1, <1>2 DEF SimTypeOK
  <2> QED BY <1>1, <1>2, <1>3, <2>1 DEF SimTypeOK, fcSimVars, queueVars, dispVars
<1>5. RingInv' /\ WakeInv' /\ ServersAreConserved'
  BY <1>1, <1>2, RingStable, WakeStable, ServersStable DEF dispVars
<1>6. ASSUME NEW d \in Clients PROVE Pacer(d)'
  <2>1. token_s'[d] + (IF d = c THEN 1 ELSE 0) = token_s[d] /\ token_s'[d] \in Nat
    <3>1. token_s \in [Clients -> Nat]
      BY <1>1 DEF SimTypeOK
    <3>2. CASE d = c
      BY <1>2, <3>1, <3>2
    <3>3. CASE d # c
      BY <1>2, <3>1, <3>3
    <3> QED BY <3>2, <3>3
  <2>2. /\ Queued(d)' = Queued(d) /\ Served(d)' = Served(d) /\ Back(d)' = Back(d)
        /\ result_s' = result_s /\ syncer' = syncer
    BY <1>2, ServedStable, BackStable, RingStable DEF fcSimVars, Queued, queueVars
  <2>3. /\ Sent(d) \in Nat /\ Returned(d) \in Nat /\ Queued(d) \in Nat /\ Served(d) \in Nat
        /\ Back(d) \in Nat /\ result_s[d] \in Nat /\ syncer[d] \in Nat
    BY <1>1, CountsAreNat
  <2>4. Sent(d)' = Sent(d) + (IF d = c THEN 1 ELSE 0) /\ Returned(d)' = Returned(d)
    BY <1>3
  <2>5. Permits(d) = syncer[d] + token_s[d]
                       + (Sent(d) + Returned(d) + Queued(d) + Served(d) + Back(d) + result_s[d])
    BY PermitsParts
  <2>6. Permits(d)' = syncer[d] + token_s'[d]
                        + (Sent(d)' + Returned(d) + Queued(d) + Served(d) + Back(d) + result_s[d])
    BY <2>2, <2>4, PermitsPartsNext
  <2>7. Permits(d)' = Permits(d)
    <3>1. CASE d = c
      BY <2>1, <2>3, <2>4, <2>5, <2>6, <3>1
    <3>2. CASE d # c
      BY <2>1, <2>3, <2>4, <2>5, <2>6, <3>2
    <3> QED BY <3>1, <3>2
  <2> QED BY <1>1, <1>2, <2>7, PacerStable DEF PacersInv, fcSimVars
<1> QED BY <1>4, <1>5, <1>6 DEF SimInv, PacersInv

LEMMA SendReqNoFCStep ==
  ASSUME SimInv, NEW c \in Clients, SendReqNoFC(c)
  PROVE  SimInv'
<1>1. SimTypeOK /\ RingInv /\ WakeInv /\ ServersAreConserved /\ PacersInv
  BY DEF SimInv
<1>2. /\ UNCHANGED <<pacing, fc_pc, inter_req_time, syncer, num_results, clientSimVars,
                     queueVars, dispVars, at_server, results, put_twice>>
      /\ ~HasFlowControl(c) /\ tokens[c] < MaxTokens
      /\ tokens' = [tokens EXCEPT ![c] = @ + 1]
      /\ net' = Append(net, <<"request", c>>)
  BY DEF SendReqNoFC
<1>3. /\ net' \in Seq(Kinds \X Clients)
      /\ \A d : Sent(d)' = Sent(d) + (IF d = c THEN 1 ELSE 0)
      /\ \A d : Returned(d)' = Returned(d)
  <2>1. "request" \in Kinds
    BY DEF Kinds
  <2>2. /\ net' \in Seq(Kinds \X Clients)
        /\ \A d : Sent(d)' = Sent(d) + (IF "request" = "request" /\ d = c THEN 1 ELSE 0)
        /\ \A d : Returned(d)' = Returned(d) + (IF "request" = "result" /\ d = c THEN 1 ELSE 0)
    BY <1>1, <1>2, <2>1, NetAppend
  <2>3. ASSUME NEW d PROVE Returned(d) \in Nat
    BY <1>1, OccurrencesType DEF Returned, SimTypeOK
  <2> QED BY <2>2, <2>3
<1>4. SimTypeOK'
  <2>1. tokens' \in [Clients -> 0..MaxTokens]
    <3>1. tokens \in [Clients -> 0..MaxTokens] /\ MaxTokens \in Nat
      BY <1>1, NumbersAssumption DEF SimTypeOK
    <3>2. tokens[c] + 1 \in 0..MaxTokens
      BY <1>2, <3>1
    <3> QED BY <1>2, <3>1, <3>2
  <2> QED BY <1>1, <1>2, <1>3, <2>1 DEF SimTypeOK, clientSimVars, queueVars, dispVars
<1>5. RingInv' /\ WakeInv' /\ ServersAreConserved'
  BY <1>1, <1>2, RingStable, WakeStable, ServersStable DEF dispVars
<1>6. ASSUME NEW d \in Clients PROVE Pacer(d)'
  <2>1. CASE d = c
    BY <1>2, <2>1 DEF Pacer, HasFlowControl
  <2>2. CASE d # c
    <3>1. Sent(d)' = Sent(d)
      BY <1>1, <1>3, <2>2, CountsAreNat
    <3>2. /\ Queued(d)' = Queued(d) /\ Served(d)' = Served(d) /\ Back(d)' = Back(d)
          /\ result_s' = result_s /\ syncer' = syncer /\ token_s' = token_s
      BY <1>2, ServedStable, BackStable DEF clientSimVars, Queued, queueVars
    <3>3. Permits(d)' = Permits(d)
      BY <1>3, <3>1, <3>2, PermitsParts, PermitsPartsNext
    <3> QED BY <1>1, <1>2, <3>3, PacerStable DEF PacersInv, clientSimVars
  <2> QED BY <2>1, <2>2
<1> QED BY <1>4, <1>5, <1>6 DEF SimInv, PacersInv

\* A result that is fed back turns into an item of the syncer, while the gap is
\* unknown, or was one of those that come anyway.
LEMMA RecvResultStep ==
  ASSUME SimInv, NEW c \in Clients, RecvResult(c)
  PROVE  SimInv'
<1>1. SimTypeOK /\ RingInv /\ WakeInv /\ ServersAreConserved /\ PacersInv
  BY DEF SimInv
<1>2. /\ UNCHANGED <<pacing, fc_pc, tokens, token_s, net, queueVars, dispVars, at_server,
                     results, put_twice>>
      /\ HasFlowControl(c) /\ result_s[c] > 0 /\ num_req_recved[c] < NumReqToRecv
      /\ result_s' = [result_s EXCEPT ![c] = @ - 1]
      /\ num_req_recved' = [num_req_recved EXCEPT ![c] = @ + 1]
  BY DEF RecvResult, TakeResult
<1>3. \/ /\ num_req_recved[c] + 1 = NumReqToRecv
         /\ UNCHANGED <<inter_req_time, syncer, num_results>>
      \/ \E known \in BOOLEAN :
           /\ pacing[c] = "time" /\ num_results[c] + 1 < MinResults => ~known
           /\ pacing[c] # "time" => known
           /\ num_results' = [num_results EXCEPT ![c] = IF @ < MinResults THEN @ + 1 ELSE @]
           /\ inter_req_time' = [inter_req_time EXCEPT ![c] = known]
           /\ syncer' = [syncer EXCEPT ![c] = IF ~inter_req_time[c] THEN @ + 1 ELSE @]
  <2>1. CASE num_req_recved[c] + 1 = NumReqToRecv
    BY <2>1 DEF RecvResult
  <2>2. CASE num_req_recved[c] + 1 # NumReqToRecv /\ pacing[c] = "time"
    BY <2>2 DEF RecvResult, UpdateTime, TimeKnown, FeedBack
  <2>3. CASE num_req_recved[c] + 1 # NumReqToRecv /\ pacing[c] # "time"
    BY <2>3 DEF RecvResult, UpdateLoad, FeedBack
  <2> QED BY <2>1, <2>2, <2>3
<1>4. /\ num_req_recved \in [Clients -> 0..NumReqToRecv] /\ NumReqToRecv \in Nat
      /\ result_s \in [Clients -> Nat] /\ syncer \in [Clients -> Nat]
      /\ num_results \in [Clients -> 0..MinResults] /\ MinResults \in Nat /\ MinResults > 0
      /\ inter_req_time \in [Clients -> BOOLEAN] /\ fc_pc \in [Clients -> {"sync", "sleep"}]
      /\ token_s \in [Clients -> Nat]
  <2>1. NumReqToRecv \in Nat /\ MinResults \in Nat /\ MinResults > 0
    BY NumbersAssumption
  <2>2. /\ num_req_recved \in [Clients -> 0..NumReqToRecv] /\ result_s \in [Clients -> Nat]
        /\ syncer \in [Clients -> Nat] /\ num_results \in [Clients -> 0..MinResults]
        /\ inter_req_time \in [Clients -> BOOLEAN] /\ fc_pc \in [Clients -> {"sync", "sleep"}]
        /\ token_s \in [Clients -> Nat]
    BY <1>1 DEF SimTypeOK
  <2> QED BY <2>1, <2>2
<1>5. SimTypeOK'
  <2>1. result_s' \in [Clients -> Nat]
    BY <1>2, <1>4
  <2>2. num_req_recved' \in [Clients -> 0..NumReqToRecv]
    <3>1. num_req_recved[c] + 1 \in 0..NumReqToRecv
      BY <1>2, <1>4
    <3> QED BY <1>2, <1>4, <3>1
  <2>3. /\ syncer' \in [Clients -> Nat] /\ inter_req_time' \in [Clients -> BOOLEAN]
        /\ num_results' \in [Clients -> 0..MinResults]
    <3>1. (IF num_results[c] < MinResults THEN num_results[c] + 1 ELSE num_results[c])
            \in 0..MinResults
      BY <1>4
    <3> QED BY <1>3, <1>4, <3>1
  <2> QED BY <1>1, <1>2, <2>1, <2>2, <2>3 DEF SimTypeOK, queueVars, dispVars
<1>6. RingInv' /\ WakeInv' /\ ServersAreConserved'
  BY <1>1, <1>2, RingStable, WakeStable, ServersStable DEF dispVars
<1>7. \A d \in Clients : d # c =>
        /\ syncer'[d] = syncer[d] /\ inter_req_time'[d] = inter_req_time[d]
        /\ num_results'[d] = num_results[d] /\ num_req_recved'[d] = num_req_recved[d]
        /\ result_s'[d] = result_s[d]
  BY <1>2, <1>3, <1>4
<1>8. ASSUME NEW d \in Clients, d # c PROVE Pacer(d)'
  <2>1. Permits(d)' = Permits(d)
    BY <1>1, <1>2, <1>5, <1>7, <1>8, PermitsSame
  <2> QED BY <1>1, <1>2, <1>7, <1>8, <2>1, PacerStable DEF PacersInv
<1>9. Pacer(c)'
  <2>1. num_req_recved'[c] = num_req_recved[c] + 1 /\ result_s'[c] = result_s[c] - 1
    BY <1>2, <1>4
  <2> SUFFICES ASSUME num_req_recved[c] + 1 < NumReqToRecv PROVE Pacer(c)'
    BY <1>2, <2>1 DEF Pacer
  <2>2. PICK known \in BOOLEAN :
          /\ pacing[c] = "time" /\ num_results[c] + 1 < MinResults => ~known
          /\ pacing[c] # "time" => known
          /\ num_results' = [num_results EXCEPT ![c] = IF @ < MinResults THEN @ + 1 ELSE @]
          /\ inter_req_time' = [inter_req_time EXCEPT ![c] = known]
          /\ syncer' = [syncer EXCEPT ![c] = IF ~inter_req_time[c] THEN @ + 1 ELSE @]
    BY <1>3, <1>4
  <2>3. /\ num_results'[c] = IF num_results[c] < MinResults THEN num_results[c] + 1
                                                            ELSE num_results[c]
        /\ inter_req_time'[c] = known
        /\ syncer'[c] = IF ~inter_req_time[c] THEN syncer[c] + 1 ELSE syncer[c]
        /\ num_results[c] \in Nat /\ syncer[c] \in Nat /\ token_s[c] \in Nat
        /\ result_s[c] \in Nat
    BY <1>4, <2>2
  <2>4. Pacer(c) /\ num_req_recved[c] < NumReqToRecv
    BY <1>1, <1>2 DEF PacersInv
  <2>5. /\ num_results[c] < ResultsForAGap(c) =>
             Permits(c) = 1 /\ ~inter_req_time[c] /\ fc_pc[c] = "sync"
        /\ fc_pc[c] = "sync" => Permits(c) >= 1
        /\ fc_pc[c] = "sync" /\ inter_req_time[c] => syncer[c] >= 1
    BY <1>2, <2>4 DEF Pacer
  <2> DEFINE rest == Sent(c) + Returned(c) + Queued(c) + Served(c) + Back(c)
  <2>6. rest \in Nat /\ rest' = rest
    <3>1. /\ Sent(c)' = Sent(c) /\ Returned(c)' = Returned(c) /\ Queued(c)' = Queued(c)
          /\ Served(c)' = Served(c) /\ Back(c)' = Back(c)
      BY <1>2, NetStable, ServedStable, BackStable DEF Queued, queueVars
    <3> QED BY <1>1, <3>1, CountsAreNat
  <2>7. Permits(c) = syncer[c] + token_s[c] + (rest + result_s[c])
    BY PermitsParts
  <2>8. Permits(c)' = syncer'[c] + token_s'[c] + (rest' + result_s'[c])
    BY PermitsPartsNext
  <2> HIDE DEF rest
  <2>9. /\ ~inter_req_time[c] => Permits(c)' = Permits(c)
        /\ Permits(c)' >= syncer'[c]
    BY <1>2, <2>1, <2>3, <2>6, <2>7, <2>8
  <2>10. ResultsForAGap(c)' = ResultsForAGap(c) /\ HasFlowControl(c)'
    BY <1>2 DEF ResultsForAGap, HasFlowControl
  <2>11. fc_pc'[c] = "sync" => Permits(c)' >= 1
    <3>1. Permits(c) \in Nat /\ Permits(c)' \in Nat /\ fc_pc' = fc_pc
      BY <1>2, <2>1, <2>3, <2>6, <2>7, <2>8
    <3>2. CASE inter_req_time[c]
      BY <2>3, <2>5, <2>9, <3>1, <3>2
    <3>3. CASE ~inter_req_time[c]
      BY <2>5, <2>9, <3>1, <3>3
    <3> QED BY <3>2, <3>3
  <2>12. fc_pc'[c] = "sync" /\ inter_req_time'[c] => syncer'[c] >= 1
    BY <1>2, <1>4, <2>3, <2>5
  <2>13. num_results'[c] > 0
    BY <1>4, <2>3
  <2>14. CASE pacing[c] = "time"
    <3>1. ResultsForAGap(c) = MinResults
      BY <2>14 DEF ResultsForAGap
    <3>2. num_results'[c] < MinResults => num_results[c] + 1 < MinResults
      BY <1>4, <2>3
    <3>3. num_results'[c] < MinResults =>
            Permits(c)' = 1 /\ ~inter_req_time'[c] /\ fc_pc'[c] = "sync"
      BY <1>2, <1>4, <2>2, <2>3, <2>5, <2>9, <2>14, <3>1, <3>2
    <3> QED BY <1>2, <2>10, <2>11, <2>12, <2>14, <3>1, <3>3 DEF Pacer
  <2>15. CASE pacing[c] # "time"
    <3>1. ResultsForAGap(c) = 1 /\ ~(num_results'[c] < 1)
      BY <1>4, <2>3, <2>13, <2>15 DEF ResultsForAGap
    <3>2. num_results'[c] # 0 /\ inter_req_time'[c]
      BY <2>2, <2>3, <2>13, <2>15
    <3> QED BY <1>2, <2>10, <2>11, <2>12, <2>15, <3>1, <3>2 DEF Pacer
  <2> QED BY <2>14, <2>15
<1> QED BY <1>5, <1>6, <1>8, <1>9 DEF SimInv, PacersInv

LEMMA RecvResultNoFCStep ==
  ASSUME SimInv, NEW c \in Clients, RecvResultNoFC(c)
  PROVE  SimInv'
<1>1. SimTypeOK /\ RingInv /\ WakeInv /\ ServersAreConserved /\ PacersInv
  BY DEF SimInv
<1>2. /\ UNCHANGED <<fcSimVars, token_s, net, queueVars, dispVars, at_server, results,
                     put_twice>>
      /\ ~HasFlowControl(c) /\ result_s[c] > 0 /\ num_req_recved[c] < NumReqToRecv
      /\ result_s' = [result_s EXCEPT ![c] = @ - 1]
      /\ num_req_recved' = [num_req_recved EXCEPT ![c] = @ + 1]
  BY DEF RecvResultNoFC, TakeResult
<1>3. /\ num_req_recved \in [Clients -> 0..NumReqToRecv] /\ NumReqToRecv \in Nat
      /\ result_s \in [Clients -> Nat]
  BY <1>1, NumbersAssumption DEF SimTypeOK
<1>4. SimTypeOK'
  <2>1. result_s' \in [Clients -> Nat]
    BY <1>2, <1>3
  <2>2. num_req_recved' \in [Clients -> 0..NumReqToRecv]
    <3>1. num_req_recved[c] + 1 \in 0..NumReqToRecv
      BY <1>2, <1>3
    <3> QED BY <1>2, <1>3, <3>1
  <2> QED BY <1>1, <1>2, <2>1, <2>2 DEF SimTypeOK, fcSimVars, queueVars, dispVars
<1>5. RingInv' /\ WakeInv' /\ ServersAreConserved'
  BY <1>1, <1>2, RingStable, WakeStable, ServersStable DEF dispVars
<1>6. ASSUME NEW d \in Clients PROVE Pacer(d)'
  <2>1. CASE d = c
    BY <1>2, <2>1 DEF Pacer, HasFlowControl, fcSimVars
  <2>2. CASE d # c
    <3>1. result_s'[d] = result_s[d] /\ num_req_recved'[d] = num_req_recved[d]
      BY <1>2, <1>3, <2>2
    <3>2. Permits(d)' = Permits(d)
      BY <1>1, <1>2, <1>4, <3>1, PermitsSame DEF fcSimVars
    <3> QED BY <1>1, <1>2, <3>1, <3>2, PacerStable DEF PacersInv, fcSimVars
  <2> QED BY <2>1, <2>2
<1> QED BY <1>4, <1>5, <1>6 DEF SimInv, PacersInv

-----------------------------------------------------------------------------
(* The steps of the network and of the cluster.  A request or a result     *)
(* moves from one place to the next, so that the permits stay as many.     *)

LEMMA PermitsMove ==
  ASSUME SimTypeOK, SimTypeOK', NEW c \in Clients, syncer' = syncer, token_s' = token_s,
         Sent(c)' + Returned(c)' + Queued(c)' + Served(c)' + Back(c)' + result_s'[c]
           = Sent(c) + Returned(c) + Queued(c) + Served(c) + Back(c) + result_s[c]
  PROVE  Permits(c)' = Permits(c)
<1>1. Permits(c) = syncer[c] + token_s[c]
                     + (Sent(c) + Returned(c) + Queued(c) + Served(c) + Back(c) + result_s[c])
  BY PermitsParts
<1>2. Permits(c)' = syncer'[c] + token_s'[c]
                      + (Sent(c)' + Returned(c)' + Queued(c)' + Served(c)' + Back(c)' + result_s'[c])
  BY PermitsPartsNext
<1> QED BY <1>1, <1>2

LEMMA PacersStable ==
  ASSUME PacersInv, UNCHANGED fcSimVars, num_req_recved' = num_req_recved,
         \A c \in Clients : Permits(c)' = Permits(c)
  PROVE  PacersInv'
<1> SUFFICES ASSUME NEW c \in Clients PROVE Pacer(c)'
  BY DEF PacersInv
<1>1. Pacer(c) /\ Permits(c)' = Permits(c)
  BY DEF PacersInv
<1> QED BY <1>1, PacerStable DEF fcSimVars

\* A request that comes wakes the dispatcher, if it waits.
LEMMA ArriveWakes ==
  ASSUME SimTypeOK, WakeInv, NEW c \in Clients, Arrive(c), Busy' # {},
         dispatcher' = dispatcher, waiting_for_req' = waiting_for_req
  PROVE  WakeInv' /\ syncer_s' \in Nat /\ put_twice' \in BOOLEAN
<1>1. /\ put_twice' = (put_twice \/ (waiting_for_req /\ syncer_s > 0))
      /\ syncer_s' = IF waiting_for_req THEN syncer_s + 1 ELSE syncer_s
  BY DEF Arrive, Queue
<1>2. syncer_s \in Nat /\ waiting_for_req \in BOOLEAN /\ put_twice \in BOOLEAN
  BY DEF SimTypeOK
<1>3. syncer_s' \in Nat /\ put_twice' \in BOOLEAN
  BY <1>1, <1>2
<1>4. ASSUME ~put_twice', dispatcher # "asserted", syncer_s' > 0
      PROVE  syncer_s' = 1 /\ dispatcher = "sync"
  <2>1. ~put_twice /\ ~(waiting_for_req /\ syncer_s > 0)
    BY <1>1, <1>4
  <2>2. syncer_s > 0 => dispatcher = "sync"
    BY <1>4, <2>1 DEF WakeInv
  <2>3. dispatcher = "sync" <=> waiting_for_req
    BY DEF WakeInv
  <2>4. CASE waiting_for_req
    BY <1>1, <1>2, <2>1, <2>3, <2>4
  <2>5. CASE ~waiting_for_req
    BY <1>1, <1>2, <1>4, <2>2, <2>3, <2>5
  <2> QED BY <2>4, <2>5
<1>5. dispatcher = "asserted" => put_twice'
  BY <1>1 DEF WakeInv
<1>6. dispatcher = "sync" <=> waiting_for_req
  BY DEF WakeInv
<1> QED BY <1>3, <1>4, <1>5, <1>6 DEF WakeInv

LEMMA DeliverStep ==
  ASSUME SimInv, Deliver
  PROVE  SimInv'
<1>1. SimTypeOK /\ RingInv /\ WakeInv /\ ServersAreConserved /\ PacersInv
  BY DEF SimInv
<1>2. /\ UNCHANGED <<fcSimVars, token_s, num_req_recved, sid_s, dispatcher, sid,
                     waiting_for_req, at_server, results>>
      /\ net # <<>> /\ net' = Tail(net)
  BY DEF Deliver
<1>3. /\ net' \in Seq(Kinds \X Clients)
      /\ \E k \in Kinds, c \in Clients :
           /\ Head(net) = <<k, c>>
           /\ \A d : Sent(d) = Sent(d)' + (IF k = "request" /\ d = c THEN 1 ELSE 0)
           /\ \A d : Returned(d) = Returned(d)' + (IF k = "result" /\ d = c THEN 1 ELSE 0)
  BY <1>1, <1>2, NetTail
<1>4. PICK k \in Kinds, c \in Clients :
        /\ Head(net) = <<k, c>>
        /\ \A d : Sent(d) = Sent(d)' + (IF k = "request" /\ d = c THEN 1 ELSE 0)
        /\ \A d : Returned(d) = Returned(d)' + (IF k = "result" /\ d = c THEN 1 ELSE 0)
  BY <1>3
<1>5. Head(net)[1] = k /\ Head(net)[2] = c
  BY <1>4
<1>6. ServersAreConserved'
  BY <1>1, <1>2, ServersStable
<1>7. \A d : Served(d)' = Served(d) /\ Back(d)' = Back(d)
  BY <1>2, ServedStable, BackStable
<1>8. syncer' = syncer /\ token_s' = token_s
  BY <1>2 DEF fcSimVars
<1>9. CASE k = "request"
  <2>1. Arrive(c) /\ result_s' = result_s
    BY <1>5, <1>9 DEF Deliver
  <2>2. Queue(c)
    BY <2>1 DEF Arrive
  <2>3. /\ DOMAIN cid_q_m' \subseteq Clients /\ cid_q_m' \in [DOMAIN cid_q_m' -> Nat]
        /\ next_cid_to_pop_q' \in Seq(Clients)
        /\ RingInv' /\ Busy' # {}
        /\ \A d : Queued(d)' = Queued(d) + (IF d = c THEN 1 ELSE 0)
    BY <1>1, <2>2, RingQueues
  <2>4. WakeInv' /\ syncer_s' \in Nat /\ put_twice' \in BOOLEAN
    BY <1>1, <1>2, <2>1, <2>3, ArriveWakes
  <2>5. SimTypeOK'
    BY <1>1, <1>2, <1>3, <2>1, <2>3, <2>4 DEF SimTypeOK, fcSimVars
  <2>6. ASSUME NEW d \in Clients PROVE Permits(d)' = Permits(d)
    <3>1. /\ Sent(d)' \in Nat /\ Returned(d)' \in Nat /\ Queued(d)' \in Nat
          /\ Queued(d) \in Nat /\ Served(d) \in Nat /\ Back(d) \in Nat /\ result_s[d] \in Nat
      BY <1>1, <2>5, CountsAreNat, CountsAreNatNext
    <3>2. Returned(d) = Returned(d)'
      BY <1>4, <1>9, <3>1
    <3>3. Sent(d) + Queued(d) = Sent(d)' + Queued(d)'
      BY <1>4, <1>9, <2>3, <3>1
    <3>4. Sent(d)' + Returned(d)' + Queued(d)' + Served(d)' + Back(d)' + result_s'[d]
            = Sent(d) + Returned(d) + Queued(d) + Served(d) + Back(d) + result_s[d]
      <4>1. Sent(d) \in Nat
        BY <1>1, CountsAreNat
      <4>2. Served(d)' = Served(d) /\ Back(d)' = Back(d) /\ result_s'[d] = result_s[d]
        BY <1>7, <2>1
      <4> QED BY <3>1, <3>2, <3>3, <4>1, <4>2
    <3> QED BY <1>1, <1>8, <2>5, <3>4, PermitsMove
  <2> QED BY <1>1, <1>2, <1>6, <2>3, <2>4, <2>5, <2>6, PacersStable DEF SimInv
<1>10. CASE k = "result"
  <2>1. /\ result_s' = [result_s EXCEPT ![c] = @ + 1]
        /\ UNCHANGED <<queueVars, syncer_s, put_twice>>
    BY <1>5, <1>10 DEF Deliver
  <2>2. result_s' \in [Clients -> Nat]
    BY <1>1, <2>1 DEF SimTypeOK
  <2>3. SimTypeOK'
    BY <1>1, <1>2, <1>3, <2>1, <2>2 DEF SimTypeOK, fcSimVars, queueVars
  <2>4. RingInv' /\ WakeInv' /\ \A d : Queued(d)' = Queued(d)
    BY <1>1, <1>2, <2>1, RingStable, WakeStable DEF dispVars
  <2>5. ASSUME NEW d \in Clients PROVE Permits(d)' = Permits(d)
    <3>1. /\ Sent(d)' \in Nat /\ Returned(d)' \in Nat /\ Queued(d) \in Nat
          /\ Served(d) \in Nat /\ Back(d) \in Nat /\ result_s[d] \in Nat
      BY <1>1, <2>3, CountsAreNat, CountsAreNatNext
    <3>2. Sent(d) = Sent(d)'
      BY <1>4, <1>10, <3>1
    <3>3. result_s'[d] = result_s[d] + (IF d = c THEN 1 ELSE 0)
      <4>1. result_s \in [Clients -> Nat]
        BY <1>1 DEF SimTypeOK
      <4>2. CASE d = c
        BY <2>1, <4>1, <4>2
      <4>3. CASE d # c
        BY <2>1, <3>1, <4>1, <4>3
      <4> QED BY <4>2, <4>3
    <3>4. Returned(d) = Returned(d)' + (IF d = c THEN 1 ELSE 0)
      BY <1>4, <1>10
    <3>5. Served(d)' = Served(d) /\ Back(d)' = Back(d) /\ Queued(d)' = Queued(d)
      BY <1>7, <2>4
    <3>6. Sent(d)' + Returned(d)' + Queued(d)' + Served(d)' + Back(d)' + result_s'[d]
            = Sent(d) + Returned(d) + Queued(d) + Served(d) + Back(d) + result_s[d]
      <4>1. CASE d = c
        BY <3>1, <3>2, <3>3, <3>4, <3>5, <4>1
      <4>2. CASE d # c
        BY <3>1, <3>2, <3>3, <3>4, <3>5, <4>2
      <4> QED BY <4>1, <4>2
    <3> QED BY <1>1, <1>8, <2>3, <3>6, PermitsMove
  <2> QED BY <1>1, <1>2, <1>6, <2>3, <2>4, <2>5, PacersStable DEF SimInv
<1> QED BY <1>9, <1>10 DEF Kinds

\* A free server takes the first request that waits.
LEMMA DispatchMoves ==
  ASSUME SimTypeOK, RingInv, NEW s \in ServerIds, at_server[s] = <<>>, Dispatch(s)
  PROVE  /\ DOMAIN cid_q_m' \subseteq Clients /\ cid_q_m' \in [DOMAIN cid_q_m' -> Nat]
         /\ next_cid_to_pop_q' \in Seq(Clients)
         /\ at_server' \in [ServerIds -> Seq(Clients)]
         /\ RingInv' /\ dispatcher' = "sid"
         /\ Len(at_server'[s]) = 1
         /\ \A r \in ServerIds : r # s => at_server'[r] = at_server[r]
         /\ \A d \in Clients : Queued(d)' + Served(d)' = Queued(d) + Served(d)
<1>1. PICK t \in Busy : Serve(s, t)
  BY DEF Dispatch
<1> DEFINE c == next_cid_to_pop_q[t]
<1>2. /\ c \in Clients
      /\ DOMAIN cid_q_m' = DOMAIN cid_q_m /\ cid_q_m' \in [DOMAIN cid_q_m' -> Nat]
      /\ next_cid_to_pop_q' \in Seq(Clients)
      /\ RingInv'
      /\ \A d : Queued(d) = Queued(d)' + (IF d = c THEN 1 ELSE 0)
      /\ at_server' = [at_server EXCEPT ![s] = Append(@, c)]
      /\ dispatcher' = "sid"
  BY <1>1, RingServes
<1> HIDE DEF c
<1>3. /\ at_server' \in [ServerIds -> Seq(Clients)]
      /\ Len(at_server'[s]) = 1
      /\ \A r \in ServerIds : r # s => at_server'[r] = at_server[r]
      /\ \A d \in Clients : Served(d)' = Served(d) + (IF d = c THEN 1 ELSE 0)
  BY <1>2, ServerTakes
<1>4. DOMAIN cid_q_m' \subseteq Clients
  BY <1>2 DEF SimTypeOK
<1>5. ASSUME NEW d \in Clients PROVE Queued(d)' + Served(d)' = Queued(d) + Served(d)
  <2>1. Served(d) \in Nat
    BY CountsAreNat
  <2>2. Queued(d)' \in Nat
    BY <1>2 DEF Queued
  <2> QED BY <1>2, <1>3, <2>1, <2>2
<1> QED BY <1>2, <1>3, <1>4, <1>5

\* The dispatcher has moved a request, or nothing.
LEMMA MovedPermits ==
  ASSUME SimTypeOK, SimTypeOK', PacersInv, UNCHANGED <<fcSimVars, clientSimVars, net, results>>,
         \A d \in Clients : Queued(d)' + Served(d)' = Queued(d) + Served(d)
  PROVE  PacersInv'
<1>1. ASSUME NEW d \in Clients PROVE Permits(d)' = Permits(d)
  <2>1. Sent(d)' = Sent(d) /\ Returned(d)' = Returned(d) /\ Back(d)' = Back(d)
    BY NetStable, BackStable
  <2>2. syncer' = syncer /\ token_s' = token_s /\ result_s' = result_s
    BY DEF fcSimVars, clientSimVars
  <2>3. /\ Sent(d) \in Nat /\ Returned(d) \in Nat /\ Queued(d) \in Nat
        /\ Served(d) \in Nat /\ Back(d) \in Nat /\ result_s[d] \in Nat
    BY CountsAreNat
  <2>4. Queued(d)' \in Nat /\ Served(d)' \in Nat
    BY CountsAreNatNext
  <2>5. Queued(d)' + Served(d)' = Queued(d) + Served(d)
    OBVIOUS
  <2>6. Sent(d)' + Returned(d)' + Queued(d)' + Served(d)' + Back(d)' + result_s'[d]
          = Sent(d) + Returned(d) + Queued(d) + Served(d) + Back(d) + result_s[d]
    BY <2>1, <2>2, <2>3, <2>4, <2>5
  <2> QED BY <2>2, <2>6, PermitsMove
<1> QED BY <1>1, PacersStable DEF clientSimVars

LEMMA EmptyServer ==
  ASSUME SimTypeOK, NEW s \in ServerIds, Len(at_server[s]) = 0
  PROVE  at_server[s] = <<>>
<1>1. at_server[s] \in Seq(Clients)
  BY DEF SimTypeOK
<1> QED BY <1>1, EmptySeq

LEMMA ServerCounts ==
  ASSUME SimTypeOK, NEW s \in ServerIds
  PROVE  Occurrences(s, sid_s) \in Nat /\ Len(at_server[s]) \in Nat
<1>1. sid_s \in Seq(ServerIds) /\ at_server[s] \in Seq(Clients)
  BY DEF SimTypeOK
<1>2. Len(at_server[s]) \in Nat
  BY <1>1, LenProperties
<1> QED BY <1>1, <1>2, OccurrencesType

LEMMA TakeServerStep ==
  ASSUME SimInv, TakeServer
  PROVE  SimInv'
<1>1. SimTypeOK /\ RingInv /\ WakeInv /\ ServersAreConserved /\ PacersInv
  BY DEF SimInv
<1> DEFINE h == Head(sid_s)
<1>2. /\ dispatcher = "sid" /\ sid_s # <<>> /\ sid' = h /\ sid_s' = Tail(sid_s)
      /\ UNCHANGED <<fcSimVars, clientSimVars, net, syncer_s, results, put_twice>>
      /\ \/ Dispatch(h) /\ UNCHANGED waiting_for_req
         \/ /\ Busy = {} /\ waiting_for_req' = TRUE /\ dispatcher' = "sync"
            /\ UNCHANGED <<queueVars, at_server>>
  BY DEF TakeServer
<1>3. sid_s \in Seq(ServerIds)
  BY <1>1 DEF SimTypeOK
<1>4. h \in ServerIds /\ sid_s' \in Seq(ServerIds)
  BY <1>2, <1>3, HeadTailProperties
<1>5. \A s : Occurrences(s, sid_s) = Occurrences(s, sid_s') + (IF h = s THEN 1 ELSE 0)
  BY <1>2, <1>3, OccurrencesTail
<1>6. \A s : Occurrences(s, sid_s') \in Nat
  BY <1>4, OccurrencesType
<1> HIDE DEF h
<1>7. \A s \in ServerIds : Occurrences(s, sid_s) + Len(at_server[s]) = 1
  <2>1. ASSUME NEW s \in ServerIds PROVE Occurrences(s, sid_s) + Len(at_server[s]) = 1
    <3>1. Occurrences(s, sid_s) \in Nat /\ Len(at_server[s]) \in Nat
      BY <1>1, ServerCounts
    <3>2. Occurrences(s, sid_s) + Len(at_server[s])
            + (IF dispatcher # "sid" /\ sid = s THEN 1 ELSE 0) = 1
      BY <1>1 DEF ServersAreConserved
    <3> QED BY <1>2, <3>1, <3>2
  <2> QED BY <2>1
<1>8. Occurrences(h, sid_s') = 0 /\ Len(at_server[h]) = 0
  <2>1. Len(at_server[h]) \in Nat
    BY <1>1, <1>4, ServerCounts
  <2> QED BY <1>4, <1>5, <1>6, <1>7, <2>1
<1>9. at_server[h] = <<>>
  BY <1>1, <1>4, <1>8, EmptyServer
<1>10. ~put_twice => syncer_s = 0
  <2>1. syncer_s \in Nat
    BY <1>1 DEF SimTypeOK
  <2> QED BY <1>1, <1>2, <2>1 DEF WakeInv
<1>11. CASE Dispatch(h) /\ UNCHANGED waiting_for_req
  <2>1. /\ DOMAIN cid_q_m' \subseteq Clients /\ cid_q_m' \in [DOMAIN cid_q_m' -> Nat]
        /\ next_cid_to_pop_q' \in Seq(Clients)
        /\ at_server' \in [ServerIds -> Seq(Clients)]
        /\ RingInv' /\ dispatcher' = "sid"
        /\ Len(at_server'[h]) = 1
        /\ \A r \in ServerIds : r # h => at_server'[r] = at_server[r]
        /\ \A d \in Clients : Queued(d)' + Served(d)' = Queued(d) + Served(d)
    BY <1>1, <1>4, <1>9, <1>11, DispatchMoves
  <2>2. SimTypeOK'
    BY <1>1, <1>2, <1>4, <1>11, <2>1 DEF SimTypeOK, fcSimVars, clientSimVars
  <2>3. WakeInv'
    <3>1. ~waiting_for_req
      BY <1>1, <1>2 DEF WakeInv
    <3>2. syncer_s' = syncer_s /\ put_twice' = put_twice /\ ~waiting_for_req'
      BY <1>2, <1>11, <3>1
    <3> QED BY <1>10, <2>1, <3>2 DEF WakeInv
  <2>4. ServersAreConserved'
    <3>1. ASSUME NEW s \in ServerIds PROVE Occurrences(s, sid_s') + Len(at_server'[s]) = 1
      <4>1. CASE s = h
        BY <1>8, <2>1, <4>1
      <4>2. CASE s # h
        BY <1>5, <1>6, <1>7, <2>1, <4>2
      <4> QED BY <4>1, <4>2
    <3>2. ASSUME NEW s \in ServerIds
          PROVE  Occurrences(s, sid_s') + Len(at_server'[s])
                   + (IF dispatcher' # "sid" /\ sid' = s THEN 1 ELSE 0) = 1
      BY <2>1, <3>1
    <3> QED BY <3>2 DEF ServersAreConserved
  <2>5. PacersInv'
    BY <1>1, <1>2, <2>1, <2>2, MovedPermits
  <2> QED BY <2>1, <2>2, <2>3, <2>4, <2>5 DEF SimInv
<1>12. CASE /\ Busy = {} /\ waiting_for_req' = TRUE /\ dispatcher' = "sync"
            /\ UNCHANGED <<queueVars, at_server>>
  <2>1. SimTypeOK'
    BY <1>1, <1>2, <1>4, <1>12 DEF SimTypeOK, fcSimVars, clientSimVars, queueVars
  <2>2. RingInv' /\ \A d : Queued(d)' = Queued(d) /\ Served(d)' = Served(d)
    BY <1>1, <1>12, RingStable, ServedStable
  <2>3. WakeInv'
    BY <1>2, <1>10, <1>12 DEF WakeInv
  <2>4. ServersAreConserved'
    <3>1. ASSUME NEW s \in ServerIds
          PROVE  Occurrences(s, sid_s') + Len(at_server'[s])
                   + (IF dispatcher' # "sid" /\ sid' = s THEN 1 ELSE 0) = 1
      <4>1. CASE s = h
        BY <1>2, <1>8, <1>12, <4>1
      <4>2. CASE s # h
        <5>1. Len(at_server[s]) \in Nat /\ Occurrences(s, sid_s) = Occurrences(s, sid_s')
          BY <1>1, <1>5, <1>6, <4>2, ServerCounts
        <5> QED BY <1>2, <1>6, <1>7, <1>12, <4>2, <5>1
      <4> QED BY <4>1, <4>2
    <3> QED BY <3>1 DEF ServersAreConserved
  <2>5. PacersInv'
    BY <1>1, <1>2, <2>1, <2>2, MovedPermits
  <2> QED BY <2>1, <2>2, <2>3, <2>4, <2>5 DEF SimInv
<1> QED BY <1>2, <1>11, <1>12

LEMMA WakeStep ==
  ASSUME SimInv, Wake
  PROVE  SimInv'
<1>1. SimTypeOK /\ RingInv /\ WakeInv /\ ServersAreConserved /\ PacersInv
  BY DEF SimInv
<1>2. /\ dispatcher = "sync" /\ syncer_s > 0 /\ syncer_s' = syncer_s - 1
      /\ waiting_for_req' = FALSE
      /\ UNCHANGED <<fcSimVars, clientSimVars, net, sid_s, sid, results, put_twice>>
      /\ \/ Dispatch(sid)
         \/ Busy = {} /\ dispatcher' = "asserted" /\ UNCHANGED <<queueVars, at_server>>
  BY DEF Wake, Woken
<1>3. syncer_s \in Nat /\ sid \in ServerIds /\ syncer_s' \in Nat
  <2>1. syncer_s \in Nat /\ sid \in ServerIds
    BY <1>1 DEF SimTypeOK
  <2> QED BY <1>2, <2>1
<1>4. ~put_twice => syncer_s' = 0 /\ Busy # {}
  <2>1. ~put_twice => syncer_s = 1 /\ Busy # {}
    BY <1>1, <1>2 DEF WakeInv
  <2> QED BY <1>2, <2>1
<1>5. \A s \in ServerIds : Occurrences(s, sid_s) + Len(at_server[s])
                             + (IF sid = s THEN 1 ELSE 0) = 1
  BY <1>1, <1>2 DEF ServersAreConserved
<1>6. Occurrences(sid, sid_s) = 0 /\ Len(at_server[sid]) = 0
  <2>1. Occurrences(sid, sid_s) \in Nat /\ Len(at_server[sid]) \in Nat
    BY <1>1, <1>3, ServerCounts
  <2> QED BY <1>3, <1>5, <2>1
<1>7. at_server[sid] = <<>>
  BY <1>1, <1>3, <1>6, EmptyServer
<1>8. CASE Dispatch(sid)
  <2>1. /\ DOMAIN cid_q_m' \subseteq Clients /\ cid_q_m' \in [DOMAIN cid_q_m' -> Nat]
        /\ next_cid_to_pop_q' \in Seq(Clients)
        /\ at_server' \in [ServerIds -> Seq(Clients)]
        /\ RingInv' /\ dispatcher' = "sid"
        /\ Len(at_server'[sid]) = 1
        /\ \A r \in ServerIds : r # sid => at_server'[r] = at_server[r]
        /\ \A d \in Clients : Queued(d)' + Served(d)' = Queued(d) + Served(d)
    BY <1>1, <1>3, <1>7, <1>8, DispatchMoves
  <2>2. SimTypeOK'
    BY <1>1, <1>2, <1>3, <2>1 DEF SimTypeOK, fcSimVars, clientSimVars
  <2>3. WakeInv'
    BY <1>2, <1>4, <2>1 DEF WakeInv
  <2>4. ServersAreConserved'
    <3>1. ASSUME NEW s \in ServerIds PROVE Occurrences(s, sid_s) + Len(at_server'[s]) = 1
      <4>1. CASE s = sid
        BY <1>6, <2>1, <4>1
      <4>2. CASE s # sid
        <5>1. Occurrences(s, sid_s) \in Nat /\ Len(at_server[s]) \in Nat
          BY <1>1, ServerCounts
        <5> QED BY <1>5, <2>1, <4>2, <5>1
      <4> QED BY <4>1, <4>2
    <3>2. ASSUME NEW s \in ServerIds
          PROVE  Occurrences(s, sid_s') + Len(at_server'[s])
                   + (IF dispatcher' # "sid" /\ sid' = s THEN 1 ELSE 0) = 1
      BY <1>2, <2>1, <3>1
    <3> QED BY <3>2 DEF ServersAreConserved
  <2>5. PacersInv'
    BY <1>1, <1>2, <2>1, <2>2, MovedPermits
  <2> QED BY <2>1, <2>2, <2>3, <2>4, <2>5 DEF SimInv
<1>9. CASE Busy = {} /\ dispatcher' = "asserted" /\ UNCHANGED <<queueVars, at_server>>
  <2>1. SimTypeOK'
    BY <1>1, <1>2, <1>3, <1>9 DEF SimTypeOK, fcSimVars, clientSimVars, queueVars
  <2>2. RingInv' /\ \A d : Queued(d)' = Queued(d) /\ Served(d)' = Served(d)
    BY <1>1, <1>9, RingStable, ServedStable
  <2>3. WakeInv'
    BY <1>2, <1>4, <1>9 DEF WakeInv
  <2>4. ServersAreConserved'
    BY <1>2, <1>5, <1>9 DEF ServersAreConserved
  <2>5. PacersInv'
    BY <1>1, <1>2, <2>1, <2>2, MovedPermits
  <2> QED BY <2>1, <2>2, <2>3, <2>4, <2>5 DEF SimInv
<1> QED BY <1>2, <1>8, <1>9

LEMMA SendBackStep ==
  ASSUME SimInv, SendBack
  PROVE  SimInv'
<1>1. SimTypeOK /\ RingInv /\ WakeInv /\ ServersAreConserved /\ PacersInv
  BY DEF SimInv
<1> DEFINE c == Head(results)
<1>2. /\ results # <<>> /\ results' = Tail(results) /\ net' = Append(net, <<"result", c>>)
      /\ UNCHANGED <<fcSimVars, clientSimVars, queueVars, dispVars, at_server, put_twice>>
  BY DEF SendBack
<1>3. results \in Seq(Clients)
  BY <1>1 DEF SimTypeOK
<1>4. c \in Clients /\ results' \in Seq(Clients)
  BY <1>2, <1>3, HeadTailProperties
<1>5. \A d : Back(d) = Back(d)' + (IF c = d THEN 1 ELSE 0)
  BY <1>2, <1>3, OccurrencesTail DEF Back
<1> HIDE DEF c
<1>6. "result" \in Kinds
  BY DEF Kinds
<1>7. /\ net' \in Seq(Kinds \X Clients)
      /\ \A d : Sent(d)' = Sent(d) + (IF "result" = "request" /\ d = c THEN 1 ELSE 0)
      /\ \A d : Returned(d)' = Returned(d) + (IF "result" = "result" /\ d = c THEN 1 ELSE 0)
  BY <1>1, <1>2, <1>4, <1>6, NetAppend
<1>8. SimTypeOK'
  BY <1>1, <1>2, <1>4, <1>7 DEF SimTypeOK, fcSimVars, clientSimVars, queueVars, dispVars
<1>9. RingInv' /\ WakeInv' /\ ServersAreConserved'
  BY <1>1, <1>2, RingStable, WakeStable, ServersStable DEF dispVars
<1>10. ASSUME NEW d \in Clients PROVE Permits(d)' = Permits(d)
  <2>1. /\ Sent(d) \in Nat /\ Returned(d) \in Nat /\ Queued(d) \in Nat
        /\ Served(d) \in Nat /\ Back(d)' \in Nat /\ result_s[d] \in Nat
    BY <1>1, <1>8, CountsAreNat, CountsAreNatNext
  <2>2. Queued(d)' = Queued(d) /\ Served(d)' = Served(d) /\ result_s' = result_s
    BY <1>2, ServedStable DEF Queued, queueVars, clientSimVars
  <2>3. Sent(d)' = Sent(d) /\ Returned(d)' = Returned(d) + (IF d = c THEN 1 ELSE 0)
    BY <1>7, <2>1
  <2>4. Back(d) = Back(d)' + (IF d = c THEN 1 ELSE 0)
    BY <1>5
  <2>5. Sent(d)' + Returned(d)' + Queued(d)' + Served(d)' + Back(d)' + result_s'[d]
          = Sent(d) + Returned(d) + Queued(d) + Served(d) + Back(d) + result_s[d]
    <3>1. CASE d = c
      BY <2>1, <2>2, <2>3, <2>4, <3>1
    <3>2. CASE d # c
      BY <2>1, <2>2, <2>3, <2>4, <3>2
    <3> QED BY <3>1, <3>2
  <2>6. syncer' = syncer /\ token_s' = token_s
    BY <1>2 DEF fcSimVars, clientSimVars
  <2> QED BY <1>1, <1>8, <2>5, <2>6, PermitsMove
<1>11. PacersInv'
  BY <1>1, <1>2, <1>10, PacersStable DEF clientSimVars
<1> QED BY <1>8, <1>9, <1>11 DEF SimInv

LEMMA FinishStep ==
  ASSUME SimInv, NEW s \in ServerIds, Finish(s)
  PROVE  SimInv'
<1>1. SimTypeOK /\ RingInv /\ WakeInv /\ ServersAreConserved /\ PacersInv
  BY DEF SimInv
<1> DEFINE c == Head(at_server[s])
<1>2. /\ at_server[s] # <<>> /\ at_server' = [at_server EXCEPT ![s] = Tail(@)]
      /\ sid_s' = sid_s \o <<s>> /\ results' = Append(results, c)
      /\ UNCHANGED <<fcSimVars, clientSimVars, net, queueVars, dispatcher, sid,
                     waiting_for_req, syncer_s, put_twice>>
  BY DEF Finish, PutResult
<1>3. \A r \in ServerIds : Occurrences(r, sid_s) \in Nat /\ Len(at_server[r]) \in Nat
  BY <1>1, ServerCounts
<1>4. \A r \in ServerIds : Occurrences(r, sid_s) + Len(at_server[r])
                             + (IF dispatcher # "sid" /\ sid = r THEN 1 ELSE 0) = 1
  BY <1>1 DEF ServersAreConserved
<1>5. Len(at_server[s]) = 1
  <2>1. Len(at_server[s]) # 0
    BY <1>1, <1>2, EmptyServer
  <2>2. Occurrences(s, sid_s) \in Nat /\ Len(at_server[s]) \in Nat
    BY <1>3
  <2>3. Occurrences(s, sid_s) + Len(at_server[s])
          + (IF dispatcher # "sid" /\ sid = s THEN 1 ELSE 0) = 1
    BY <1>4
  <2> DEFINE o == Occurrences(s, sid_s)
             n == Len(at_server[s])
             e == IF dispatcher # "sid" /\ sid = s THEN 1 ELSE 0
  <2>4. e \in Nat
    OBVIOUS
  <2>5. o \in Nat /\ n \in Nat /\ n # 0 /\ (o + n) + e = 1
    BY <2>1, <2>2, <2>3
  <2> HIDE DEF o, n, e
  <2>6. n = 1
    BY <2>4, <2>5
  <2> QED BY <2>6 DEF n
<1>6. /\ at_server' \in [ServerIds -> Seq(Clients)]
      /\ at_server'[s] = <<>> /\ c \in Clients
      /\ \A r \in ServerIds : r # s => at_server'[r] = at_server[r]
      /\ \A d \in Clients : Served(d) = Served(d)' + (IF d = c THEN 1 ELSE 0)
  BY <1>1, <1>2, <1>5, ServerGives
<1> HIDE DEF c
<1>7. sid_s' = Append(sid_s, s) /\ sid_s' \in Seq(ServerIds)
  <2>1. sid_s \in Seq(ServerIds)
    BY <1>1 DEF SimTypeOK
  <2>2. Append(sid_s, s) = sid_s \o <<s>>
    BY <2>1, AppendIsConcat
  <2>3. Append(sid_s, s) \in Seq(ServerIds)
    BY <2>1, AppendProperties
  <2> QED BY <1>2, <2>2, <2>3
<1>8. \A r : Occurrences(r, sid_s') = Occurrences(r, sid_s) + (IF s = r THEN 1 ELSE 0)
  <2>1. sid_s \in Seq(ServerIds)
    BY <1>1 DEF SimTypeOK
  <2> QED BY <1>7, <2>1, OccurrencesAppend
<1>9. /\ results' \in Seq(Clients)
      /\ \A d : Back(d)' = Back(d) + (IF c = d THEN 1 ELSE 0)
  <2>1. results \in Seq(Clients)
    BY <1>1 DEF SimTypeOK
  <2>2. results' \in Seq(Clients)
    BY <1>2, <1>6, <2>1, AppendProperties
  <2> QED BY <1>2, <1>6, <2>1, <2>2, OccurrencesAppend DEF Back
<1>10. SimTypeOK'
  BY <1>1, <1>2, <1>6, <1>7, <1>9 DEF SimTypeOK, fcSimVars, clientSimVars, queueVars
<1>11. RingInv' /\ WakeInv'
  BY <1>1, <1>2, RingStable, WakeStable DEF WakeInv
<1>12. ServersAreConserved'
  <2>1. ASSUME NEW r \in ServerIds
        PROVE  Occurrences(r, sid_s') + Len(at_server'[r])
                 + (IF dispatcher' # "sid" /\ sid' = r THEN 1 ELSE 0) = 1
    <3>1. dispatcher' = dispatcher /\ sid' = sid
      BY <1>2
    <3>2. CASE r = s
      <4>1. Len(at_server'[s]) = 0
        BY <1>6
      <4>2. Occurrences(s, sid_s') = Occurrences(s, sid_s) + 1
        BY <1>8
      <4> DEFINE o == Occurrences(s, sid_s)
                 e == IF dispatcher # "sid" /\ sid = s THEN 1 ELSE 0
      <4>3. o \in Nat /\ e \in Nat /\ (o + 1) + e = 1
        <5>1. o \in Nat /\ (o + Len(at_server[s])) + e = 1
          BY <1>3, <1>4
        <5>2. e \in Nat
          OBVIOUS
        <5> HIDE DEF o, e
        <5> QED BY <1>5, <5>1, <5>2
      <4>4. Occurrences(s, sid_s') + Len(at_server'[s]) + e = (o + 1) + 0 + e
        BY <4>1, <4>2
      <4>5. e = IF dispatcher' # "sid" /\ sid' = s THEN 1 ELSE 0
        BY <3>1
      <4> HIDE DEF o, e
      <4>6. (o + 1) + 0 + e = 1
        BY <4>3
      <4>7. Occurrences(s, sid_s') + Len(at_server'[s])
              + (IF dispatcher' # "sid" /\ sid' = s THEN 1 ELSE 0) = 1
        BY <4>4, <4>5, <4>6, Zenon
      <4> QED BY <3>2, <4>7
    <3>3. CASE r # s
      <4>1. Occurrences(r, sid_s') = Occurrences(r, sid_s) /\ at_server'[r] = at_server[r]
        BY <1>3, <1>6, <1>8, <3>3
      <4>2. Occurrences(r, sid_s) + Len(at_server[r])
              + (IF dispatcher # "sid" /\ sid = r THEN 1 ELSE 0) = 1
        BY <1>4
      <4> QED BY <3>1, <4>1, <4>2, Zenon
    <3> QED BY <3>2, <3>3
  <2> QED BY <2>1 DEF ServersAreConserved
<1>13. ASSUME NEW d \in Clients PROVE Permits(d)' = Permits(d)
  <2>1. /\ Sent(d) \in Nat /\ Returned(d) \in Nat /\ Queued(d) \in Nat
        /\ Served(d)' \in Nat /\ Back(d) \in Nat /\ result_s[d] \in Nat
    BY <1>1, <1>10, CountsAreNat, CountsAreNatNext
  <2>2. /\ Sent(d)' = Sent(d) /\ Returned(d)' = Returned(d) /\ Queued(d)' = Queued(d)
        /\ result_s' = result_s
    BY <1>2, NetStable DEF Queued, queueVars, clientSimVars
  <2>3. Served(d) = Served(d)' + (IF d = c THEN 1 ELSE 0)
    BY <1>6
  <2>4. Back(d)' = Back(d) + (IF d = c THEN 1 ELSE 0)
    BY <1>9
  <2>5. Sent(d)' + Returned(d)' + Queued(d)' + Served(d)' + Back(d)' + result_s'[d]
          = Sent(d) + Returned(d) + Queued(d) + Served(d) + Back(d) + result_s[d]
    <3>1. CASE d = c
      BY <2>1, <2>2, <2>3, <2>4, <3>1
    <3>2. CASE d # c
      BY <2>1, <2>2, <2>3, <2>4, <3>2
    <3> QED BY <3>1, <3>2
  <2>6. syncer' = syncer /\ token_s' = token_s
    BY <1>2 DEF fcSimVars, clientSimVars
  <2> QED BY <1>1, <1>10, <2>5, <2>6, PermitsMove
<1>14. PacersInv'
  BY <1>1, <1>2, <1>13, PacersStable DEF clientSimVars
<1> QED BY <1>10, <1>11, <1>12, <1>14 DEF SimInv

-----------------------------------------------------------------------------
(* The invariant.                                                          *)

LEMMA InitSimInv == SimInit => SimInv
<1> SUFFICES ASSUME SimInit PROVE SimInv
  OBVIOUS
<1>1. /\ NumServer \in Nat /\ NumServer > 0 /\ NumReqToRecv \in Nat /\ NumReqToRecv > 0
      /\ MinResults \in Nat /\ MinResults > 0 /\ MaxTokens \in Nat /\ MaxTokens > 0
  BY NumbersAssumption
<1> DEFINE n == NumServer - 1
<1>2. n \in Nat /\ ServerIds = 0..n
  BY <1>1 DEF ServerIds
<1> HIDE DEF n
<1>3. sid_s = [i \in 1..n |-> i] /\ sid = 0 /\ at_server = [s \in ServerIds |-> <<>>]
  BY DEF SimInit, n
<1>4. sid_s \in Seq(ServerIds) /\ DOMAIN sid_s = 1..n
  BY <1>2, <1>3
<1>5. SimTypeOK
  <2>1. /\ syncer \in [Clients -> Nat] /\ num_results \in [Clients -> 0..MinResults]
        /\ result_s \in [Clients -> Nat] /\ num_req_recved \in [Clients -> 0..NumReqToRecv]
    BY <1>1 DEF SimInit
  <2>2. tokens \in [Clients -> 0..MaxTokens] /\ token_s \in [Clients -> Nat]
    BY <1>1 DEF SimInit
  <2>3. DOMAIN cid_q_m \subseteq Clients /\ cid_q_m \in [DOMAIN cid_q_m -> Nat]
    BY DEF SimInit
  <2>4. /\ net \in Seq(Kinds \X Clients) /\ next_cid_to_pop_q \in Seq(Clients)
        /\ results \in Seq(Clients)
    BY EmptySeq DEF SimInit
  <2>5. at_server \in [ServerIds -> Seq(Clients)]
    BY <1>3, EmptySeq
  <2>6. /\ pacing \in Pacings /\ fc_pc \in [Clients -> {"sync", "sleep"}]
        /\ inter_req_time \in [Clients -> BOOLEAN]
        /\ dispatcher \in {"sid", "sync", "asserted"} /\ waiting_for_req \in BOOLEAN
        /\ syncer_s \in Nat /\ put_twice \in BOOLEAN
    BY DEF SimInit
  <2>7. sid \in ServerIds
    BY <1>3, ServerIdsFacts
  <2> QED BY <1>4, <2>1, <2>2, <2>3, <2>4, <2>5, <2>6, <2>7 DEF SimTypeOK
<1>6. RingInv
  <2>1. DOMAIN cid_q_m = {} /\ DOMAIN next_cid_to_pop_q = {}
    BY DEF SimInit
  <2> QED BY <2>1 DEF RingInv, ToSet
<1>7. WakeInv
  BY DEF SimInit, WakeInv
<1>8. ServersAreConserved
  <2>1. ASSUME NEW s \in ServerIds
        PROVE  Occurrences(s, sid_s) + Len(at_server[s])
                 + (IF dispatcher # "sid" /\ sid = s THEN 1 ELSE 0) = 1
    <3>1. Len(at_server[s]) = 0
      BY <1>3
    <3>2. dispatcher = "sync"
      BY DEF SimInit
    <3> DEFINE S == {i \in DOMAIN sid_s : sid_s[i] = s}
    <3>3. Occurrences(s, sid_s) = Cardinality(S)
      BY DEF Occurrences
    <3>4. CASE s = 0
      <4>1. S = {}
        BY <1>2, <1>3, <1>4, <3>4
      <4>2. Occurrences(s, sid_s) = 0
        BY <3>3, <4>1, FS_EmptySet
      <4> QED BY <1>3, <3>1, <3>2, <3>4, <4>2
    <3>5. CASE s # 0
      <4>1. S = {s}
        BY <1>2, <1>3, <1>4, <3>5
      <4>2. Occurrences(s, sid_s) = 1
        BY <3>3, <4>1, FS_Singleton
      <4> QED BY <1>3, <3>1, <3>2, <3>5, <4>2
    <3> QED BY <3>4, <3>5
  <2> QED BY <2>1 DEF ServersAreConserved
<1>9. PacersInv
  <2>1. ASSUME NEW c \in Clients, HasFlowControl(c) PROVE Pacer(c)
    <3>1. Sent(c) = 0 /\ Returned(c) = 0 /\ Back(c) = 0
      BY OccurrencesEmpty DEF SimInit, Sent, Returned, Back
    <3>2. Queued(c) = 0 /\ result_s[c] = 0
      BY DEF SimInit, Queued
    <3>3. Served(c) = 0
      <4>1. \A s \in ServerIds : DOMAIN at_server[s] = {}
        BY <1>3
      <4>2. AtServers(c) = {}
        BY <4>1 DEF AtServers, ToSet
      <4> QED BY <4>2, FS_EmptySet DEF Served
    <3>4. syncer[c] = 0 /\ token_s[c] = 1
      BY <2>1 DEF SimInit
    <3>5. Permits(c) = 1
      BY <3>1, <3>2, <3>3, <3>4, PermitsParts
    <3>6. num_results[c] = 0 /\ ~inter_req_time[c] /\ fc_pc[c] = "sync"
      BY DEF SimInit
    <3> QED BY <3>4, <3>5, <3>6 DEF Pacer
  <2> QED BY <2>1 DEF PacersInv, Pacer
<1> QED BY <1>5, <1>6, <1>7, <1>8, <1>9 DEF SimInv

LEMMA NextSimInv == SimInv /\ [SimNext]_simVars => SimInv'
<1> SUFFICES ASSUME SimInv, [SimNext]_simVars PROVE SimInv'
  OBVIOUS
<1>1. SimTypeOK /\ RingInv /\ WakeInv /\ ServersAreConserved /\ PacersInv
  BY DEF SimInv
<1>2. ASSUME NEW c \in Clients, ClientStep(c) PROVE SimInv'
  BY <1>2, RunStep, SendReqStep, SendReqNoFCStep, RecvResultStep, RecvResultNoFCStep
     DEF ClientStep
<1>3. CASE Deliver
  BY <1>3, DeliverStep
<1>4. CASE TakeServer
  BY <1>4, TakeServerStep
<1>5. CASE Wake
  BY <1>5, WakeStep
<1>6. CASE SendBack
  BY <1>6, SendBackStep
<1>7. ASSUME NEW s \in ServerIds, Finish(s) PROVE SimInv'
  BY <1>7, FinishStep
<1>8. CASE UNCHANGED simVars
  <2>1. UNCHANGED <<pacing, fc_pc, inter_req_time, syncer, num_results, tokens, token_s,
                    result_s, num_req_recved, net, cid_q_m, next_cid_to_pop_q, sid_s,
                    dispatcher, sid, waiting_for_req, syncer_s, at_server, results, put_twice>>
    BY <1>8 DEF simVars, fcSimVars, clientSimVars, queueVars, dispVars
  <2>2. SimTypeOK'
    BY <1>1, <2>1 DEF SimTypeOK
  <2>3. RingInv' /\ WakeInv' /\ ServersAreConserved'
    BY <1>1, <2>1, RingStable, WakeStable, ServersStable DEF queueVars, dispVars
  <2>4. PacersInv'
    <3>1. \A d \in Clients : Queued(d)' = Queued(d) /\ Served(d)' = Served(d)
      BY <2>1, ServedStable DEF Queued
    <3>2. ASSUME NEW c \in Clients PROVE Permits(c)' = Permits(c)
      BY <1>1, <2>1, <2>2, PermitsSame DEF queueVars
    <3> QED BY <1>1, <2>1, <3>2, PacersStable DEF fcSimVars
  <2> QED BY <2>2, <2>3, <2>4 DEF SimInv
<1> QED BY <1>2, <1>3, <1>4, <1>5, <1>6, <1>7, <1>8 DEF SimNext

\* The inductive invariant holds in every state of the simulator.
THEOREM SimInvAlways == SimSpec => []SimInv
<1>1. SimInit => SimInv
  BY InitSimInv
<1>2. SimInv /\ [SimNext]_simVars => SimInv'
  BY NextSimInv
<1> QED BY <1>1, <1>2, PTL DEF SimSpec

\* Every variable of the simulator keeps its type.
THEOREM SimTypes == SimSpec => []SimTypeOK
<1>1. SimInv => SimTypeOK
  BY DEF SimInv
<1> QED BY <1>1, SimInvAlways, PTL

\* A client that has no gap yet has exactly one permit, and a flow control that
\* waits has one that will come back to it: FlowControl of sim/flow_control.py
\* cannot be left waiting for a result that nothing can bring.
THEOREM PermitsAreKept == SimSpec => []PermitIsKept
<1>1. SimInv => PermitIsKept
  BY DEF SimInv, PacersInv, Pacer, PermitIsKept
<1> QED BY <1>1, SimInvAlways, PTL

\* The cluster never puts a request to a server that has one, and never loses a
\* server: put_result() gives back exactly the server next_req() took.
THEOREM ServersConserved == SimSpec => []ServersAreConserved
<1>1. SimInv => ServersAreConserved
  BY DEF SimInv
<1> QED BY <1>1, SimInvAlways, PTL

\* The check "A req must have been recved" of the dispatcher can fail only after
\* two requests came to a dispatcher that had been woken and had not run.
THEOREM CheckHolds == SimSpec => []ReqHasComeUnlessPutTwice
<1>1. SimInv => ReqHasComeUnlessPutTwice
  BY DEF SimInv, WakeInv, ReqHasComeUnlessPutTwice
<1> QED BY <1>1, SimInvAlways, PTL
=============================================================================
