----------------------------- MODULE EdgeSystem -----------------------------
(***************************************************************************)
(* The whole system: clients (client.py) in a closed loop with several     *)
(* masters (server.py) and the workers (worker.py) the masters share or    *)
(* not.  A client sends a master one probe and goes on when an answer      *)
(* labelled with that master comes; a worker sends every result to the     *)
(* master it attached itself to; a master may stop for good, and processes *)
(* are reached while their constructors still run.                         *)
(*                                                                         *)
(* Where the other modules have threads this one has a step: the token     *)
(* queues and the close are in Client, the turns and orders of jobs in     *)
(* FlowControlServer and Server.  Of the races of a master's dispatcher    *)
(* only the outcomes are here (it sleeps on a job, or is gone).            *)
(***************************************************************************)
EXTENDS Naturals, FiniteSets

CONSTANTS Clients, Masters, Workers,
          Clusters,  \* the set-ups: who is told whose address, and the slots
          Target,    \* num_jobs_to_finish
          MaxJobs,   \* bound: jobs of a client for one master
          MaxGone,   \* bound: masters that stop
          None

ASSUME MastersAssumption == IsFiniteSet(Masters) /\ Masters \cap Workers = {}
ASSUME ClustersAssumption ==
  /\ Clusters \subseteq [sid_ip_m : [Clients -> SUBSET Masters],
                         wip_l : [Masters -> SUBSET Workers],
                         max_num_jobs_per_worker : Nat \ {0}]
  /\ None \notin Masters \cup Workers
ASSUME BoundsAssumption == Target \in Nat \ {0} /\ MaxJobs \in Nat /\ MaxGone \in Nat

VARIABLES
  cluster,      \* the set-up that runs
  place,        \* job -> where it is
  on, sending,  \* clients: the flag, and those whose generator thread lives
  answered,     \* <<client, master>> whose controller has a gap
  stage,        \* master, worker -> how far its constructor is
  run,          \* master -> its dispatcher: "awake", "asleep", "died"
  slots,        \* master -> worker -> how often the worker is in its wip_q
  deaf,         \* <<client, master>> whose listener thread at the master died
  sid, sip,     \* worker -> the master it is attached to, by name and address
  stopped,      \* workers whose serving thread died
  gone,         \* masters whose process has stopped
  raced,        \* history: masters whose dispatcher lost a race with a put()
  early         \* history: workers that were reached before they were set up

masterVars == <<stage, run, slots, deaf, raced>>
attachVars == <<sid, sip, stopped, early>>
clientVars == <<on, sending, answered>>
edgeVars == <<cluster, place, clientVars, masterVars, attachVars, gone>>

\* Those a client may send to its masters.
Jobs == DOMAIN place

SharersOf(w) == {m \in Masters : w \in cluster.wip_l[m]}

\* Variant: every master takes every worker.
InitialSlotsOfAll(m, w) == cluster.max_num_jobs_per_worker

InitialSlots(m, w) == IF w \in cluster.wip_l[m] THEN cluster.max_num_jobs_per_worker ELSE 0

EdgeInit ==
  /\ cluster \in Clusters
  /\ place = [j \in {k \in [cid : Clients, mid : Masters, id : 1..MaxJobs] :
                    k.mid \in cluster.sid_ip_m[k.cid]} |-> <<"unsent">>]
  /\ on = Clients /\ sending = Clients /\ answered = {}
  /\ stage = [p \in Masters \cup Workers |-> "commer"]
  /\ run = [m \in Masters |-> "awake"]
  /\ slots = [m \in Masters |-> [w \in Workers |-> InitialSlots(m, w)]]
  /\ sid = [w \in Workers |-> None] /\ sip = [w \in Workers |-> None]
  /\ deaf = {} /\ stopped = {} /\ gone = {} /\ raced = {} /\ early = {}

At(p) == {j \in Jobs : place[j] = p}

Move(j, p) == place' = [place EXCEPT ![j] = p]

Of(c, m) == {j \in Jobs : j.cid = c /\ j.mid = m}

-----------------------------------------------------------------------------
(* A client.                                                               *)

\* The controller of a master lets one job go, and the rest after an answer.
MaySend(c, m) == <<c, m>> \in answered \/ \A j \in Of(c, m) : place[j] = <<"unsent">>

\* The generator sends its next job.  To a master that is gone the send is lost
\* or raises, which ends the thread.
Send(j) ==
  /\ place[j] = <<"unsent">> /\ j.cid \in on \cap sending /\ MaySend(j.cid, j.mid)
  /\ \A k \in Of(j.cid, j.mid) : k.id < j.id => place[k] # <<"unsent">>
  /\ IF j.mid \in gone
     THEN Move(j, <<"lost", None>>) /\ sending' \in {sending, sending \ {j.cid}}
     ELSE Move(j, <<"way">>) /\ UNCHANGED sending
  /\ UNCHANGED <<cluster, on, answered, masterVars, attachVars, gone>>

FinishedOf(c) == {j \in Jobs : j.cid = c /\ place[j][1] = "finished"}

\* handle_msg(): the controller of the sender goes on; at the target, close().
Receive(j) ==
  /\ place[j][1] = "reply"
  /\ Move(j, <<"finished", place[j][2]>>)
  /\ answered' = answered \cup {<<j.cid, place[j][2]>>}
  /\ on' = IF Cardinality(FinishedOf(j.cid)) + 1 >= Target THEN on \ {j.cid} ELSE on
  /\ UNCHANGED <<cluster, sending, masterVars, attachVars, gone>>

-----------------------------------------------------------------------------
(* A master.                                                               *)

\* The constructor: first the sockets of commer are open, then there is a
\* fc_server, then the rest, and the dispatcher.
ConstructMaster(m) ==
  /\ m \notin gone /\ stage[m] # "up"
  /\ stage' = [stage EXCEPT ![m] = IF @ = "commer" THEN "fc_server" ELSE "up"]
  /\ UNCHANGED <<cluster, place, clientVars, run, slots, deaf, raced, attachVars, gone>>

Queued(m) == {j \in Jobs : j.mid = m /\ place[j] = <<"queue">>}

\* The listener reads a job while the constructor runs: without fc_server it
\* raises at once, without the flag after the push.
ListenEarly(j) ==
  /\ place[j] = <<"way">> /\ stage[j.mid] # "up" /\ <<j.cid, j.mid>> \notin deaf
  /\ Move(j, IF stage[j.mid] = "commer" THEN <<"lost", None>> ELSE <<"queue">>)
  /\ deaf' = deaf \cup {<<j.cid, j.mid>>}
  /\ UNCHANGED <<cluster, clientVars, stage, run, slots, raced, attachVars, gone>>

\* Variant: a put never wakes the dispatcher.
WokenNever(m) == run[m]

Woken(m) == IF run[m] = "asleep" THEN "awake" ELSE run[m]

\* handle_msg() and put(): the dispatcher is woken, or a race with it goes wrong.
Listen(j) ==
  /\ place[j] = <<"way">> /\ stage[j.mid] = "up" /\ <<j.cid, j.mid>> \notin deaf
  /\ Move(j, <<"queue">>)
  /\ \/ run' = [run EXCEPT ![j.mid] = Woken(j.mid)] /\ UNCHANGED raced
     \/ /\ Queued(j.mid) = {} /\ run[j.mid] # "died"
        /\ \E outcome \in {"asleep", "died"} : run' = [run EXCEPT ![j.mid] = outcome]
        /\ raced' = raced \cup {j.mid}
  /\ UNCHANGED <<cluster, clientVars, stage, slots, deaf, attachVars, gone>>

Sleep(m) ==
  /\ m \notin gone /\ stage[m] = "up" /\ run[m] = "awake" /\ Queued(m) = {}
  /\ run' = [run EXCEPT ![m] = "asleep"]
  /\ UNCHANGED <<cluster, place, clientVars, stage, slots, deaf, raced, attachVars, gone>>

\* Variant: the dispatcher does not wait for a slot.
MayTakeAny(n) == TRUE

MayTake(n) == n > 0

\* Variant: the slot is looked up and stays in the queue.
TakenNot(n) == n

Taken(n) == n - 1

\* run(): a queued job goes to a worker with a free slot.
Dispatch(j, w) ==
  /\ j \in Queued(j.mid) /\ stage[j.mid] = "up" /\ run[j.mid] = "awake"
  /\ MayTake(slots[j.mid][w])
  /\ slots' = [slots EXCEPT ![j.mid][w] = Taken(@)]
  /\ Move(j, <<"inbox", w>>)
  /\ UNCHANGED <<cluster, clientVars, stage, run, deaf, raced, attachVars, gone>>

\* ResultHandler: a result with another master's name is refused.  Otherwise the
\* slot goes to this master's queue, and the reply leaves under its name, unless
\* it has no connection to the client.
HandleResult(j) ==
  /\ place[j][1] = "result"
  /\ LET w == place[j][2]
         m == place[j][3]
     IN IF place[j][4] # m
        THEN Move(j, <<"lost", w>>) /\ UNCHANGED slots
        ELSE /\ slots' = [slots EXCEPT ![m][w] = @ + 1]
             /\ Move(j, IF m \in cluster.sid_ip_m[j.cid] THEN <<"reply", m>> ELSE <<"lost", None>>)
  /\ UNCHANGED <<cluster, clientVars, stage, run, deaf, raced, attachVars, gone>>

\* The process stops, with the jobs it has and the results sent to it.
Stop(m) ==
  /\ m \notin gone /\ Cardinality(gone) < MaxGone
  /\ gone' = gone \cup {m}
  /\ place' = [j \in Jobs |->
       IF j.mid = m /\ place[j] \in {<<"way">>, <<"queue">>} THEN <<"lost", None>>
       ELSE IF place[j][1] = "result" /\ place[j][3] = m THEN <<"lost", place[j][2]>>
       ELSE place[j]]
  /\ UNCHANGED <<cluster, clientVars, masterVars, attachVars>>

Master ==
  \/ \E m \in Masters : ConstructMaster(m) \/ Sleep(m)
  \/ \E j \in Jobs : \/ ListenEarly(j) \/ Listen(j) \/ HandleResult(j)
                     \/ \E w \in Workers : Dispatch(j, w)

-----------------------------------------------------------------------------
(* A worker: a handler thread per job, and the serving thread.             *)

\* The constructor: the socket is open, then sid is None, then sip is None.
ConstructWorker(w) ==
  /\ stage[w] # "up"
  /\ \/ stage[w] = "commer" /\ stage' = [stage EXCEPT ![w] = "sid"]
          /\ sid' = [sid EXCEPT ![w] = None] /\ UNCHANGED sip
     \/ stage[w] = "sid" /\ stage' = [stage EXCEPT ![w] = "up"]
          /\ sip' = [sip EXCEPT ![w] = None] /\ UNCHANGED sid
  /\ UNCHANGED <<cluster, place, clientVars, run, slots, deaf, raced, stopped, early, gone>>

workerFrame == <<cluster, clientVars, masterVars, stopped, gone>>

\* handle_job_req(): the test, which raises if there is no sid yet.
TestAttached(j, w) ==
  /\ place[j] = <<"inbox", w>>
  /\ Move(j, IF stage[w] = "commer" THEN <<"lost", w>>
             ELSE IF sid[w] = None THEN <<"sid", w>> ELSE <<"job_q", w>>)
  /\ early' = IF stage[w] = "up" THEN early ELSE early \cup {w}
  /\ UNCHANGED <<workerFrame, sid, sip>>

\* The two assignments, and the put.
AttachSid(j, w) ==
  /\ place[j] = <<"sid", w>>
  /\ sid' = [sid EXCEPT ![w] = j.mid]
  /\ Move(j, <<"sip", w>>)
  /\ UNCHANGED <<workerFrame, sip, early>>

\* Variant: only the name is kept.
SipForgotten(j, w) == sip

SipOf(j, w) == [sip EXCEPT ![w] = j.mid]

AttachSip(j, w) ==
  /\ place[j] = <<"sip", w>>
  /\ sip' = SipOf(j, w)
  /\ Move(j, <<"job_q", w>>)
  /\ UNCHANGED <<workerFrame, sid, early>>

Serve(j, w) ==
  /\ place[j] = <<"job_q", w>> /\ stage[w] = "up" /\ w \notin stopped
  /\ At(<<"serving", w>>) = {}
  /\ Move(j, <<"serving", w>>)
  /\ UNCHANGED <<workerFrame, sid, sip, early>>

\* send_result_to_server(): without an address, or with that of a master that is
\* gone, connect() raises and ends the serving thread.
SendResult(j, w) ==
  /\ place[j] = <<"serving", w>>
  /\ IF sip[w] \in gone \cup {None}
     THEN Move(j, <<"lost", w>>) /\ stopped' = stopped \cup {w}
     ELSE Move(j, <<"result", w, sip[w], sid[w]>>) /\ UNCHANGED stopped
  /\ UNCHANGED <<cluster, clientVars, masterVars, sid, sip, early, gone>>

Worker(w) ==
  \/ ConstructWorker(w)
  \/ \E j \in Jobs : \/ TestAttached(j, w) \/ AttachSid(j, w) \/ AttachSip(j, w)
                     \/ Serve(j, w) \/ SendResult(j, w)

-----------------------------------------------------------------------------
EdgeNext ==
  \/ \E j \in Jobs : Send(j) \/ Receive(j)
  \/ Master
  \/ \E m \in Masters : Stop(m)
  \/ \E w \in Workers : Worker(w)

\* Every step but a stop is one that a living thread will take.  Each moves a
\* job, a constructor or the dispatcher forward, so together they come to an end.
EdgeSpec == EdgeInit /\ [][EdgeNext]_edgeVars /\ WF_edgeVars(gone' = gone /\ EdgeNext)

-----------------------------------------------------------------------------
EdgeTypeOK ==
  /\ cluster \in Clusters
  /\ \A j \in Jobs : place[j][1] \in {"unsent", "way", "queue", "inbox", "sid", "sip", "job_q",
                                       "serving", "result", "reply", "finished", "lost"}
  /\ on \subseteq Clients /\ sending \subseteq Clients /\ answered \subseteq Clients \X Masters
  /\ stage \in [Masters \cup Workers -> {"commer", "fc_server", "sid", "up"}]
  /\ run \in [Masters -> {"awake", "asleep", "died"}]
  /\ slots \in [Masters -> [Workers -> Nat]]
  /\ deaf \subseteq Clients \X Masters
  /\ sid \in [Workers -> Masters \cup {None}] /\ sip \in [Workers -> Masters \cup {None}]
  /\ stopped \subseteq Workers /\ early \subseteq Workers
  /\ gone \subseteq Masters /\ raced \subseteq Masters

\* Jobs that hold a slot of w, or took it with them.
SlotsTaken(w) ==
  {j \in Jobs : place[j][1] \in {"inbox", "sid", "sip", "job_q", "serving", "result", "lost"}
                  /\ place[j][2] = w}

\* The slots of w in the queues of the masters, numbered in each of them.
SlotsFree(w) == UNION {{m} \X (1..slots[m][w]) : m \in Masters}

\* Slots of a worker move between the masters that share it, because a result
\* returns its slot where the worker is attached; their number is that of the
\* beginning, with those of jobs lost at the worker gone for good.
SlotsMoveBetweenSharers ==
  \A w \in Workers :
    Cardinality(SlotsFree(w)) + Cardinality(SlotsTaken(w))
      = Cardinality(SharersOf(w)) * cluster.max_num_jobs_per_worker

HasItsOwnWorkers(m) == \A w \in cluster.wip_l[m] : SharersOf(w) = {m}

\* Unless a worker serves two masters a result is addressed, by name and by
\* address, to the master that sent the job, and the client learns of it under
\* that name, which is what moves the controller of that master.
ResultsComeHome ==
  \A j \in Jobs : HasItsOwnWorkers(j.mid) =>
    /\ place[j][1] = "result" => place[j][3] = j.mid /\ place[j][4] = j.mid
    /\ place[j][1] \in {"reply", "finished"} => place[j][2] = j.mid

\* A worker with one slot of one master, set up before its first job, loses a
\* job only if the master is gone; a job is lost on the way only if its master is
\* gone or was not set up, or if a worker's other master answered.
LossesHaveACause ==
  \A j \in Jobs : place[j][1] = "lost" =>
    \/ j.mid \in gone
    \/ ~HasItsOwnWorkers(j.mid)
    \/ IF place[j][2] = None THEN <<j.cid, j.mid>> \in deaf
       ELSE place[j][2] \in early \/ cluster.max_num_jobs_per_worker > 1

\* Master m can be relied upon by client c.
IsSound(c, m) ==
  /\ m \notin gone \cup raced /\ <<c, m>> \notin deaf
  /\ cluster.wip_l[m] # {} /\ HasItsOwnWorkers(m)
  /\ \A w \in cluster.wip_l[m] : \A j \in SlotsTaken(w) : place[j][1] # "lost"

\* A client comes to its target if one of its masters is sound, whatever the
\* others do, as long as none of them takes the generator's thread with it.
EveryClientFinishes ==
  <>(\A c \in Clients :
       c \in on \cap sending => \A m \in cluster.sid_ip_m[c] : ~IsSound(c, m))
=============================================================================
