----------------------------- MODULE Simulation -----------------------------
(***************************************************************************)
(* The simulator: clients, a network with a constant delay and a cluster   *)
(* of servers (sim/objs.py).  A client's requests are paced by the flow    *)
(* control that meets a target response time, by the one that meets a      *)
(* target load (sim/flow_control.py), or by a clock of its own             *)
(* (Client_NoFC of sim/eval_rr_sching.py).                                 *)
(*                                                                         *)
(* The simulator has one thread.  A process runs from one yield to the     *)
(* next without interruption, and such a run is one step here.  Times are  *)
(* abstract: any process whose event may be due can run next.  A store is  *)
(* the sequence, or the number, of its items.                              *)
(*                                                                         *)
(* The first steps of all processes are taken at time 0, before any        *)
(* request can arrive: every client has its first token, and the cluster   *)
(* has found no request and waits.                                         *)
(***************************************************************************)
EXTENDS Naturals, Sequences, FiniteSets, SequencesExt, Counting

CONSTANTS Clients,       \* client ids
          NumServer,     \* servers of the cluster
          NumReqToRecv,  \* num_req_to_recv
          MinResults,    \* results before a gap is computed, 20 in the code
          MaxTokens,     \* bound: tokens a client's flow control puts
          Pacings        \* client -> "time", "load" or "none": what may pace it

ASSUME ClientsAssumption == IsFiniteSet(Clients)
ASSUME NumbersAssumption ==
  /\ NumServer \in Nat \ {0} /\ NumReqToRecv \in Nat \ {0}
  /\ MinResults \in Nat \ {0} /\ MaxTokens \in Nat \ {0}
ASSUME PacingsAssumption == Pacings \subseteq [Clients -> {"time", "load", "none"}]

ServerIds == 0..(NumServer - 1)
Kinds == {"request", "result"}

VARIABLES
  pacing,            \* client -> what paces its requests
  fc_pc,             \* client -> flow control: "sync" or "sleep"
  inter_req_time,    \* client -> is the gap a number, or None?
  syncer,            \* client -> items in the syncer of its flow control
  num_results,       \* client -> results in result_q, as far as they matter
  token_s,           \* client -> tokens its sender has not taken
  result_s,          \* client -> results its receiver has not taken
  num_req_recved,    \* client -> results taken; the receiver ends at the last
  net,               \* messages in the network: <<kind, client>>, in order
  cid_q_m,           \* client id -> number of its requests that wait
  next_cid_to_pop_q,
  sid_s,             \* free servers
  dispatcher,        \* "sid", "sync", or "asserted"
  sid,               \* server the dispatcher holds while it waits
  waiting_for_req,
  syncer_s,          \* items in the cluster's syncer
  at_server,         \* server -> clients of the requests put to it
  results,           \* clients whose results the cluster has not sent back
  put_twice,         \* history: did a request come while a token was waiting?
  tokens             \* history: client -> tokens its flow control has put, or
                     \* requests its clock has let go

fcSimVars == <<pacing, fc_pc, inter_req_time, syncer, num_results, tokens>>
clientSimVars == <<token_s, result_s, num_req_recved>>
queueVars == <<cid_q_m, next_cid_to_pop_q>>
dispVars == <<sid_s, dispatcher, sid, waiting_for_req, syncer_s>>
simVars == <<fcSimVars, clientSimVars, net, queueVars, dispVars, at_server, results,
             put_twice>>

HasFlowControl(c) == pacing[c] # "none"

SimInit ==
  /\ pacing \in Pacings
  /\ fc_pc = [c \in Clients |-> "sync"]
  /\ inter_req_time = [c \in Clients |-> FALSE]
  /\ syncer = [c \in Clients |-> 0]
  /\ num_results = [c \in Clients |-> 0]
  /\ tokens = [c \in Clients |-> IF HasFlowControl(c) THEN 1 ELSE 0]
  /\ token_s = tokens
  /\ result_s = [c \in Clients |-> 0]
  /\ num_req_recved = [c \in Clients |-> 0]
  /\ net = <<>>
  /\ cid_q_m = [c \in {} |-> 0]
  /\ next_cid_to_pop_q = <<>>
  /\ sid = 0
  /\ sid_s = [i \in 1..(NumServer - 1) |-> i]
  /\ dispatcher = "sync"
  /\ waiting_for_req = TRUE
  /\ syncer_s = 0
  /\ at_server = [s \in ServerIds |-> <<>>]
  /\ results = <<>>
  /\ put_twice = FALSE

-----------------------------------------------------------------------------
(* Client c: the process run() of its flow control, and update().          *)

PutTokens(c, n) ==
  /\ tokens[c] + n <= MaxTokens
  /\ tokens' = [tokens EXCEPT ![c] = @ + n]
  /\ token_s' = [token_s EXCEPT ![c] = @ + n]

\* The top of the loop: wait for a result, or sleep for the gap.
Loop(c) == fc_pc' = [fc_pc EXCEPT ![c] = IF inter_req_time[c] THEN "sleep" ELSE "sync"]

\* yield self.syncer.get() or yield self.env.timeout() is over.
Waited(c) ==
  /\ fc_pc[c] = "sync" => syncer[c] > 0
  /\ syncer' = [syncer EXCEPT ![c] = IF fc_pc[c] = "sync" THEN @ - 1 ELSE @]

\* Time target: a token is put and the loop starts again.
RunTime(c) ==
  /\ pacing[c] = "time"
  /\ Waited(c)
  /\ PutTokens(c, 1)
  /\ Loop(c)

\* Load target: as above, but the loop starts with a token of its own as long
\* as there is no gap.
RunLoad(c) ==
  /\ pacing[c] = "load"
  /\ Waited(c)
  /\ PutTokens(c, IF inter_req_time[c] THEN 1 ELSE 2)
  /\ Loop(c)

RunFlowControl(c) ==
  /\ RunTime(c) \/ RunLoad(c)
  /\ UNCHANGED <<pacing, inter_req_time, num_results, result_s, num_req_recved, net,
                 queueVars, dispVars, at_server, results, put_twice>>

\* A result is fed back and the gap becomes a number (known) or None.
FeedBack(c, known, sync) ==
  /\ num_results' = [num_results EXCEPT ![c] = IF @ < MinResults THEN @ + 1 ELSE @]
  /\ inter_req_time' = [inter_req_time EXCEPT ![c] = known]
  /\ syncer' = [syncer EXCEPT ![c] = IF sync THEN @ + 1 ELSE @]

\* Time target: with MinResults results the gap is a number or None, as the
\* moments of the service times and the target have it.
TimeKnown(c) == IF num_results[c] + 1 < MinResults THEN {FALSE} ELSE BOOLEAN

\* Variant: should_sync is computed from the new gap.
UpdateTimeSyncNew(c) == \E known \in TimeKnown(c) : FeedBack(c, known, ~known)

UpdateTime(c) ==
  \E known \in TimeKnown(c) : FeedBack(c, known, ~inter_req_time[c])

\* Load target: the gap is a number from the first result on.
UpdateLoad(c) == FeedBack(c, TRUE, ~inter_req_time[c])

-----------------------------------------------------------------------------
(* Client c: run_send and run_recv.                                        *)

\* A token is taken and the request leaves after a random delay; one process
\* does both, one token at a time.
SendReq(c) ==
  /\ token_s[c] > 0
  /\ token_s' = [token_s EXCEPT ![c] = @ - 1]
  /\ net' = Append(net, <<"request", c>>)
  /\ UNCHANGED <<fcSimVars, result_s, num_req_recved, queueVars, dispVars, at_server,
                 results, put_twice>>

\* Client_NoFC: the time to the next request is over.
SendReqNoFC(c) ==
  /\ ~HasFlowControl(c) /\ tokens[c] < MaxTokens
  /\ tokens' = [tokens EXCEPT ![c] = @ + 1]
  /\ net' = Append(net, <<"request", c>>)
  /\ UNCHANGED <<pacing, fc_pc, inter_req_time, syncer, num_results, clientSimVars,
                 queueVars, dispVars, at_server, results, put_twice>>

\* A result is taken, and the process ends with the last one.
TakeResult(c) ==
  /\ result_s[c] > 0 /\ num_req_recved[c] < NumReqToRecv
  /\ result_s' = [result_s EXCEPT ![c] = @ - 1]
  /\ num_req_recved' = [num_req_recved EXCEPT ![c] = @ + 1]

\* The flow control is told of every result but the last.
RecvResult(c) ==
  /\ HasFlowControl(c)
  /\ TakeResult(c)
  /\ IF num_req_recved[c] + 1 = NumReqToRecv
     THEN UNCHANGED <<inter_req_time, syncer, num_results>>
     ELSE IF pacing[c] = "time" THEN UpdateTime(c) ELSE UpdateLoad(c)
  /\ UNCHANGED <<pacing, fc_pc, tokens, token_s, net, queueVars, dispVars, at_server,
                 results, put_twice>>

RecvResultNoFC(c) ==
  /\ ~HasFlowControl(c)
  /\ TakeResult(c)
  /\ UNCHANGED <<fcSimVars, token_s, net, queueVars, dispVars, at_server, results,
                 put_twice>>

-----------------------------------------------------------------------------
(* Cluster: put(), next_req() and the two processes.                       *)

\* put(): register a new client and queue the request.
Queue(c) ==
  /\ cid_q_m' = [d \in DOMAIN cid_q_m \cup {c} |->
                   (IF d \in DOMAIN cid_q_m THEN cid_q_m[d] ELSE 0) + (IF d = c THEN 1 ELSE 0)]
  /\ next_cid_to_pop_q' = IF c \in DOMAIN cid_q_m THEN next_cid_to_pop_q
                          ELSE Append(next_cid_to_pop_q, c)
  /\ put_twice' = (put_twice \/ (waiting_for_req /\ syncer_s > 0))

\* Variant: put() adds a token whether or not the cluster waits.
ArriveAlwaysSync(c) == Queue(c) /\ syncer_s' = syncer_s + 1

\* put(): then wake the dispatcher if it waits, also if it has been woken
\* already.
Arrive(c) ==
  /\ Queue(c)
  /\ syncer_s' = IF waiting_for_req THEN syncer_s + 1 ELSE syncer_s

\* The network hands over its messages in order, as each is delayed alike.
Deliver ==
  /\ net # <<>>
  /\ net' = Tail(net)
  /\ LET c == Head(net)[2]
     IN IF Head(net)[1] = "request"
        THEN Arrive(c) /\ UNCHANGED result_s
        ELSE /\ result_s' = [result_s EXCEPT ![c] = @ + 1]
             /\ UNCHANGED <<queueVars, syncer_s, put_twice>>
  /\ UNCHANGED <<fcSimVars, token_s, num_req_recved, sid_s, dispatcher, sid,
                 waiting_for_req, at_server, results>>

Busy == {i \in DOMAIN next_cid_to_pop_q : cid_q_m[next_cid_to_pop_q[i]] > 0}

\* The request of the client that is t-th in the ring is put to server s, and
\* the dispatcher goes for the next free server.
Serve(s, t) ==
  LET c == next_cid_to_pop_q[t]
  IN /\ next_cid_to_pop_q' = SubSeq(next_cid_to_pop_q, t + 1, Len(next_cid_to_pop_q))
                               \o SubSeq(next_cid_to_pop_q, 1, t)
     /\ cid_q_m' = [cid_q_m EXCEPT ![c] = @ - 1]
     /\ at_server' = [at_server EXCEPT ![s] = Append(@, c)]
     /\ dispatcher' = "sid"

\* Variant: the request is taken without a look at the queue's length.
DispatchUntested(s) == Busy # {} /\ Serve(s, 1)

\* next_req(): the ring turns to the first client that has a request.
Dispatch(s) == \E t \in Busy : (\A k \in Busy : t <= k) /\ Serve(s, t)

\* After yield self.syncer_s.get(): the check that a request must have come
\* ends the simulation when there is none.
Woken ==
  /\ dispatcher = "sync" /\ syncer_s > 0
  /\ syncer_s' = syncer_s - 1
  /\ \/ Dispatch(sid)
     \/ Busy = {} /\ dispatcher' = "asserted" /\ UNCHANGED <<queueVars, at_server>>
  /\ UNCHANGED <<fcSimVars, clientSimVars, net, sid_s, sid, results, put_twice>>

\* Variant: the flag is not cleared when the dispatcher is woken.
WakeFlagStays == Woken /\ UNCHANGED waiting_for_req

Wake == Woken /\ waiting_for_req' = FALSE

\* A server is free: give it the next request, or wait for one.
TakeServer ==
  /\ dispatcher = "sid" /\ sid_s # <<>>
  /\ sid' = Head(sid_s)
  /\ sid_s' = Tail(sid_s)
  /\ \/ Dispatch(Head(sid_s)) /\ UNCHANGED waiting_for_req
     \/ /\ Busy = {}
        /\ waiting_for_req' = TRUE
        /\ dispatcher' = "sync"
        /\ UNCHANGED <<queueVars, at_server>>
  /\ UNCHANGED <<fcSimVars, clientSimVars, net, syncer_s, results, put_twice>>

\* put_result(): server s has served its request; the servers in freed are free.
PutResult(s, freed) ==
  /\ at_server[s] # <<>>
  /\ at_server' = [at_server EXCEPT ![s] = Tail(@)]
  /\ sid_s' = sid_s \o freed
  /\ results' = Append(results, Head(at_server[s]))
  /\ UNCHANGED <<fcSimVars, clientSimVars, net, queueVars, dispatcher, sid,
                 waiting_for_req, syncer_s, put_twice>>

\* Variant: the server is returned twice.
FinishTwice(s) == PutResult(s, <<s, s>>)

Finish(s) == PutResult(s, <<s>>)

\* run_handle_results(): back through the network.
SendBack ==
  /\ results # <<>>
  /\ results' = Tail(results)
  /\ net' = Append(net, <<"result", Head(results)>>)
  /\ UNCHANGED <<fcSimVars, clientSimVars, queueVars, dispVars, at_server, put_twice>>

-----------------------------------------------------------------------------
\* An AssertionError in a process ends the simulation.
Runs == dispatcher # "asserted"

ClientStep(c) == \/ RunFlowControl(c)
                 \/ SendReq(c) \/ SendReqNoFC(c)
                 \/ RecvResult(c) \/ RecvResultNoFC(c)

SimNext ==
  /\ Runs
  /\ \/ \E c \in Clients : ClientStep(c)
     \/ Deliver \/ TakeServer \/ Wake \/ SendBack
     \/ \E s \in ServerIds : Finish(s)

\* Every event in the queue of the simulator is processed.
SimSpec ==
  /\ SimInit /\ [][SimNext]_simVars
  /\ \A c \in Clients :
       /\ WF_simVars(Runs /\ RunFlowControl(c))
       /\ WF_simVars(Runs /\ (SendReq(c) \/ SendReqNoFC(c)))
       /\ WF_simVars(Runs /\ (RecvResult(c) \/ RecvResultNoFC(c)))
  /\ WF_simVars(Runs /\ Deliver)
  /\ WF_simVars(Runs /\ (TakeServer \/ Wake))
  /\ WF_simVars(Runs /\ SendBack)
  /\ \A s \in ServerIds : WF_simVars(Runs /\ Finish(s))

-----------------------------------------------------------------------------
SimTypeOK ==
  /\ pacing \in Pacings
  /\ fc_pc \in [Clients -> {"sync", "sleep"}]
  /\ inter_req_time \in [Clients -> BOOLEAN]
  /\ syncer \in [Clients -> Nat]
  /\ num_results \in [Clients -> 0..MinResults]
  /\ tokens \in [Clients -> 0..MaxTokens]
  /\ token_s \in [Clients -> Nat]
  /\ result_s \in [Clients -> Nat]
  /\ num_req_recved \in [Clients -> 0..NumReqToRecv]
  /\ net \in Seq(Kinds \X Clients)
  /\ DOMAIN cid_q_m \subseteq Clients /\ cid_q_m \in [DOMAIN cid_q_m -> Nat]
  /\ next_cid_to_pop_q \in Seq(Clients)
  /\ sid_s \in Seq(ServerIds)
  /\ dispatcher \in {"sid", "sync", "asserted"}
  /\ sid \in ServerIds
  /\ waiting_for_req \in BOOLEAN
  /\ syncer_s \in Nat
  /\ at_server \in [ServerIds -> Seq(Clients)]
  /\ results \in Seq(Clients)
  /\ put_twice \in BOOLEAN

\* Requests of client c on their way to the cluster, in it, or on their way back.
Outstanding(c) ==
  Occurrences(<<"request", c>>, net) + Occurrences(<<"result", c>>, net)
    + (IF c \in DOMAIN cid_q_m THEN cid_q_m[c] ELSE 0)
    + Cardinality({s \in ServerIds : c \in ToSet(at_server[s])})
    + Occurrences(c, results) + result_s[c]

ResultsForAGap(c) == IF pacing[c] = "time" THEN MinResults ELSE 1

Permits(c) == syncer[c] + token_s[c] + Outstanding(c)

\* Until enough results have come for a gap, a client has one request out at a
\* time: the syncer passes one permit round.  And a flow control that waits for
\* a result is never left without one to come: no switch of the gap between
\* None and a number loses the permit.
PermitIsKept ==
  \A c \in Clients :
    HasFlowControl(c) /\ num_req_recved[c] < NumReqToRecv =>
      /\ num_results[c] < ResultsForAGap(c) => Permits(c) = 1
      /\ fc_pc[c] = "sync" => Permits(c) >= 1

\* A server has one request at a time, and is free, held by the dispatcher or
\* busy, but never two of these.
ServersAreConserved ==
  \A s \in ServerIds :
    Occurrences(s, sid_s) + Len(at_server[s])
      + (IF dispatcher # "sid" /\ sid = s THEN 1 ELSE 0) = 1

\* objs.py checks that "A req must have been recved" after the wait.  That
\* fails only after two requests came while the dispatcher was being woken.
ReqHasComeUnlessPutTwice == dispatcher = "asserted" => put_twice

\* While nobody is woken twice, every client receives its last result, also
\* beside clients without flow control.
LastResultComes == \A c \in Clients : <>(num_req_recved[c] = NumReqToRecv \/ put_twice)
=============================================================================
