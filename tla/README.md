# A TLA+ model of edge-flow-control

`edge-flow-control` lets several clients share the workers of edge clusters. A
client sends jobs to the masters of the clusters, paces them from the results
that come back, and stops after a given number of results. A master keeps one
queue per client, serves the queues in turn and hands each job to a free worker
slot; the worker returns the result to the master, and the master to the client.

This directory models the program in TLA+, model-checks the models with TLC and
proves part of what they say with TLAPS. Line numbers below are those of the
files in `src/`.

Contents

1. Inventory of the system
2. Modules, and how they correspond to the code
3. Runs: what is checked, with which bounds
4. Fairness
5. Theorems: what is proved, and how
6. Where the code does not do what its texts say
7. What is not modelled
8. Plan

## 1. Inventory

### 1.1 Processes, threads and messages

    Client process                                 Master process
      controller thread per server (GGn)             listener thread per client
      forwarder thread (FlowControlClient.run)       dispatcher thread (Server.run)
      generator thread (Client.run)       job -->    result server: a thread per result
      listener thread per server        <-- result   connection-request server: a thread per request

                                                   Worker process
                                                     a thread per job connection
                                                     serving loop (Worker.run)

Client and master keep one TCP stream per client in each direction. Master and
worker open a new connection for every job and every result.

### 1.2 Components

**Request queue of the master** (`flow_control.py:10-32`, `FlowControlServer`).
State: `cid_q_m`, a deque of jobs per client, and `next_cid_to_pop_q`, the ring of
client ids. Operations: `reg` (two statements), `push`, `pop` (a loop over the
ring). Called by the listeners (`reg`, `push`) and the dispatcher (`pop`)
without a lock. Hard: all interleavings of the single accesses. Correct when
each queue is the backlog of its client, in order; every backlog is reachable
through the ring; the rotation is fair; a `None` misses no job that was there
before the call.

**Master** (`server.py`). State: `is_waiting_for_ajob`, a `Condition`, `wip_q` (free
worker slots), the request queue. Operations: `handle_msg`/`put` on listener
threads, `run` on the dispatcher, `handle_result` on a thread per result. Hard:
the flag is read outside the lock, the wakeup protocol is hand-made, results
of one client are handled concurrently, workers stop. Correct when slots are
conserved, no job is dropped or doubled, and a queued job is served while slots
are free.

**Worker** (`worker.py`, `commer.py:318-364`). State: `job_q`, and the one master it is
attached to, `sid` and `sip`. Operations: take a job off a connection, attach to its
sender if it is the first, serve it, send the result. Hard: jobs overtake each other
on their connections, also the attachment by another; the worker may stop with jobs
in it, or lose its serving thread and go on taking jobs; it may serve several masters.

**Client** (`client.py`). State: `on`, `num_jobs_finished`, `sid_q`. Operations:
`handle_msg` (listener per server), `run` (generator), `close` (called by
whichever listener sees the target). Hard: an unlocked `+=`, an unlocked test
of `on`, four kinds of threads to stop. Correct when the client does not stop
early, stops in the end, sends nothing after the close but a job that was
already leaving, and its threads end.

**Flow control of the client** (`flow_control.py:34-78`, `delay_control.py:97-150`).
State: `sid_q` of FlowControlClient, and per server `on`, `inter_req_time`,
`syncer`, the window `result_q` and its total `cum_serv_time`. Operations:
`update` on the listeners, `run` per controller, the forwarder's `run`, `close`.
Hard: the start-up handshake (probe, first result, syncer) across threads; the
running total of a sliding window. Correct when an unknown server is probed with
one job, the probe starts the pacing exactly once, and total and gap are those
of the window.

**Commer** (`commer.py`). State: sockets per peer, listening ports, the server a
worker is attached to. Operations: connection request and reply, `send_msg`,
`recv_msg`, the per-message connections to workers. Hard: handshakes on which
each side connects to a port the other is about to open, a port counter shared
by handler threads, chunked sends without a lock, the close header, end of
file. Correct when messages arrive whole and in order, and whoever is heard can
be answered.

**The whole system.** Clients, masters and workers in a closed loop: what a client
sends depends on the answers it gets, so a job that is lost anywhere can silence a
stream for good. Hard: processes that are reached while their constructors run,
masters that stop, workers shared by masters. Correct when results come home, every
lost job has a cause that is known, and a client with a sound master finishes.

**Other controllers** (`delay_control.py:5-95`, `control.py`). Two controllers that adapt
a limit on the jobs on the fly (AIMD), and an exponential average. Not used by the
client. Hard: limits that are halved, counts that are cut at 0, a thread that
starts before its object is complete. Correct when count and limit follow the
jobs on the fly and the average stays within what it averages.

**Simulator** (`sim/`). `sim/objs.py`: client, cluster with the same round robin,
worker, network, on simpy. `sim/flow_control.py`: three policies of the client.
`sim/eval_rr_sching.py`: a client without flow control beside them.
`sim/model.py`, `rvs.py`: real-valued formulas and random variables with a binary
search each. One thread; processes interleave only at `yield`. Hard: tokens left
in a syncer, `None` transitions of the gap, searches over functions that have no
value everywhere. Correct when a policy never waits for a result that cannot
come, servers are conserved, and a search ends on what it sought.

**Set-up, plots, logs, deployment** (`net*.py`, `plot_utils.py`, `debug_utils.py`,
scripts, YAML, `deprecated/`). No state of the program.

`PROJECT.json` lists every component with its status, and every hazard with its
line and the properties that cover it.

## 2. Modules

| module | models | uses |
|---|---|---|
| `FlowControlServer` | the request queue, one step per access | |
| `RoundRobin` | what `pop()` promises over several calls | `FlowControlServer` |
| `JobService` | abstract: what a cluster promises its clients | |
| `Server` | master, workers, connections per message | `FlowControlServer`; refines `JobService` |
| `Client` | client, forwarder, controllers, close | |
| `GGnWindow` | arithmetic of the G/G/n controller | |
| `AIMD`, `ExpAvg` | the controllers the client does not use, and the simulator's third policy | |
| `Search` | the binary searches of `sim/model.py` and `rvs.py` | |
| `Framing` | messages on a TCP stream: packets, split reads, close headers | |
| `ConnSetup` | how a client and a master connect | |
| `EdgeSystem` | clients, masters and workers together, with coarser steps | |
| `Simulation` | clients, network and cluster of the simulator | |
| `Counting` | how often a value stands in a sequence, for `Server`, `Client` and `Simulation` | |
| `*_proofs` | theorems about the module of that name; `FlowControlServer_proofs` also about `RoundRobin`, `Controllers_proofs` about `GGnWindow`, `AIMD`, `ExpAvg` and `Search`, `Commer_proofs` about `ConnSetup` and `Framing` | the modules, `TLAPS` |
| `MC*` | constants for TLC; `MCControllers` runs `GGnWindow`, `AIMD`, `ExpAvg` and `Search` side by side, and `MCCommer` runs `ConnSetup` and `Framing`, one of them in a behaviour | the module |

Operators introduced by a comment "Variant" stand for plausible slips in the
code (a test dropped, a statement moved, an off-by-one). No specification uses
them; substituting one for the definition after it makes a property fail, which
shows that the property depends on that piece of code.

### 2.1 FlowControlServer and RoundRobin

| code | model |
|---|---|
| `cid_q_m`, `next_cid_to_pop_q` | variables of the same name: a function from registered clients to sequences, and a sequence |
| `reg`: `cid_q_m[cid] = deque()` / `next_cid_to_pop_q.append(cid)` | `RegQueue(c)`, `RegRing(c)`: two steps |
| `push` | `Push(c)`; the job is `[cid, id]` with the id `Client.run` gives it |
| `pop`: `range(len(cid_q_m))`, an iteration, the `return`s | `PopEnter`; `PopMiss`, `PopHit`, `PopIndexError`; `PopNone` |

The interpreter may switch threads between any two accesses, so a step is an
access. One iteration of `pop` is a single step although it has three accesses:
the head of the ring is read and moved only by the dispatcher, a listener only
appends at the other end, and a listener's append to the queue the iteration
looks at either comes before its length test or after it; both orders are
there with the single step. In `handle_msg` a client's messages come on one
listener thread, so `reg` and `push` of one client never overlap; `push` needs
both registration steps done.

`RoundRobin` adds two history variables, how often a waiting client was overtaken
by each other client and the value of `pushed` at the entry of `pop`. They record
and never restrict.

### 2.2 Server and JobService

| code | model |
|---|---|
| thread positions | `listener_pc`, `run_pc` |
| `is_waiting_for_ajob` | the same; read by `CheckFlag` without the lock |
| `with condition: notifyAll()` | `Notify`: moves the dispatcher out of the wait set if it is there |
| `condition.wait()` | `Wait` (enter the wait set) and, once notified, `ClearFlag` |
| `wip_q` | sequence of worker ids, each `max_num_jobs_per_worker` times |
| `run`: both `pop()` calls, the flag, the check at line 71 | `RunPop`, `SetFlag`, `Wait`, `ClearFlag` |
| `wip_q.get`, `send_job_to_worker` | `GetWip`, `SendJob`, `SendJobFails` |
| job and result connections | the sets `inbox[w]` and `results`: no order between messages |
| `JobReqHandler`, `handle_job_req`: the test of `sid`, the assignments of `sid` and `sip`, the put | `HandleJobReq` (attached already), or `FindUnattached`, `AttachSid`, `AttachSip`; a thread per job between them is an element of `attaching` |
| `Worker.run` | `Serve`, `SendResult`, or `SendResultFails` while `sip` is `None`: the thread ends, and the worker is `mute` |
| `handle_result` | `ReturnSlot`, `SetShare`, `Reply`, a thread per element of `handling` |
| a worker that stops | `Crash`: everything in it is lost, later connections fail |

`sid` and `sip` are the sets of workers that have them, since there is one master.

A critical section of the condition is one step: inside it only the wait set and
the flag are touched, and the wait set is reached only under the lock. A
connection to a stopped worker raises in `connect`; its handler (`commer.py:46`)
names `errno`, which is not imported, so the exception that leaves is a
`NameError` and the dispatcher thread ends (`connect_failed`). The process stays,
as the main thread waits for input (`config.py`, `server.py` test mode).

`JobService` has no threads, queues or flags: jobs of a client start in order and
once, no more run than there are slots, a job is answered at most once and only
after it ran, a crash takes jobs with their slots. `Server` implements it under
the mapping `received <- pushed`, `started <- popped` minus the job held without a
slot, `running <-` the jobs between `wip_q.get` and `wip_q.put`.

### 2.3 Client

| code | model |
|---|---|
| controller thread per server | `ctl_pc`: `Top`, `PutFirst`, `PutSecond` (blocks on `syncer`), `PutNext` (after the sleep) |
| `inter_req_time is None` | `inter_req_time[s] = FALSE`; its value is the business of `GGnWindow` |
| forwarder | `Forward`: get and put in one step, as it alone takes from the queue |
| generator | `CheckOn`, `GetClose`, `SendJob` |
| listener: `handle_msg` | `RecvResult` (with `update`), `ReadCount`, `WriteCount`, `TestTarget` |
| `close` | `CloseOff`, `CloseQueue`, `CloseHeaders`, `CloseFlowControl`, `CloseControllers` |
| `t.join()`, the end of the program | `Exit`, at any time after the generator has ended; no thread has a step after it |
| network and servers | `in_flight[s]`: answered at any later time, in any order |
| a server's process stops | `Stop`: what it holds is lost, its listener thread gets no more |
| a send to a server that is gone | `SendJobRaises` ends the generator, `CloseHeadersRaise` ends the closing listener before `fc_client.close()`; or the kernel takes the bytes and the job is lost (`SendJob`) |

`num_jobs_finished += 1` is a read and a write. The test of `on` at the top of
`close` is in `TestTarget` and the assignment in `CloseOff`, so two listeners may
both close. The loops over servers in `close` are single steps: each controller
flag is read by one thread only, and at most one job still leaves, before or
after the header on its connection. `closers` remembers whose listeners close.

### 2.4 GGnWindow, AIMD, ExpAvg and Search

`GGnWindow`: `Update` is `update`: subtract the head if the deque is full, add, append with
`maxlen`, and set the gap. The gap is kept as a fraction, so nothing is rounded;
the code's floats do round. Service times are differences of `time.time()` and
may be negative when the clock steps back.

| code | model |
|---|---|
| `InterJobGenTimeController_ExpAvg_AIMD` | `AIMD` with `aimd = "push"`: `put` is `LetGo`, `ReadForPut`, `WriteForPut`, `KeepMax`, on the constructor's thread and on the result handler's; `update_w_result` is `TakeResult`, `WriteForResult`, `AdaptLimit` (`PushLimit`), `TestNext` |
| `AIMDController` of `control.py` | `aimd = "pull"`: `put` is `TestPut`, `ReadForPut`, `WriteForPut`, `KeepMax` on the sending thread; `update` is `TakeResult`, `WriteForResult`, `AdaptLimit` (`PullLimit`) on the handler's |
| `InterJobGenTimeController_ExpAvg` | `ExpAvg` with `averager = "avg"`: `Made`, `AvgCheck`, `AvgSleep`, `AvgUpdate` |
| `FlowControl_ExpAvg_MD` of `sim/flow_control.py` | `averager = "md"`: `MDProbe`, `MDSynced`, `MDSleep`, `MDSlept`, `AvgUpdate` |
| `binary_search` of `sim/model.py` | `Search` with `search = "rate"` |
| `binary_search` of `rvs.py` | `search = "bound"` |

Limits are integers in units of `1/Unit` and times integers; where the code divides,
the models round down (`AIMD`, `Search`) or either way (`ExpAvg`). The average delay of
`AIMD` decides one thing, whether it is too long, and is a choice. `q_len += 1` and
`q_len = max(0, q_len - 1)` are each a read and a write of two threads without a lock;
`missed` is history, the updates that were overwritten or cut off at 0. A pull client
counts a job before it sends it, a push controller after it has put its token, so a
result may be handled in between. Classes and handlers are modelled as if they were
called: no program of the repository does, and `put_sid` and `send_probe` are not methods
of the present `FlowControlClient`.

`Search` knows of the monotone function two positions only: the least one whose value
reaches the target (`enough`), and the least one without a value (`limit`, where the load
reaches 1 and the code returns `None`). There may be no such position: `enough = limit`
is a target no rate reaches, `limit = 0` a variance that rounding made negative, with no
value at any rate, and `reachable = FALSE` a mean no upper end of the distribution has.
The third search of `sim/model.py`, for a G/G/c queue, has no caller and is left out.

### 2.5 Framing

| code | model |
|---|---|
| `send_msg`: header, text, payload cut into packets | `Packets(Data(m))`; `SendMsg` writes the first packet, `SendPacket` each further one |
| `send_msg(None)` | `SendClose`: a close header, from any listener of the client, between any two packets |
| `recv_msg`, `recv_size` | `RecvHeader`, `RecvText`, `RecvPayload`; the payload is read in pieces of any size |
| `int()` or the decoding raises, the thread ends | `rcv = "error"` |
| the peer ends | `PeerEnds`; the loops of `recv_size` then turn without effect |

A header and a text are one unit of the stream each, a payload any number. Header
and text are read by one step each, since `recv_size` returns only when it has all of
them. The two directions are one variable, `stream`: jobs come from one generator
thread; results come from several handler threads, and fit into one packet.

### 2.6 ConnSetup

| code | model |
|---|---|
| `connect_to_server` | `SpawnClientListener`, `Request`, `RecvReply` or `RecvNothing`, `Connect` |
| listener threads, `bind_get_sock` | `ClientListen`; `ServerListen` (bind fails if the port is in use), `Accept` (one connection, then the socket is closed) |
| `handle_conn_req`, a thread per request | `SpawnServerListener`, `Dial` or `DialFails`, `ReadReplyPort`, `ReadPort`, `WritePort`, `SendReply` |
| `cid_sock_m`, `cid_addr_m` assigned after the request server serves | `Construct`, in two steps; `assigned` has those that are there |

`overlapped` and `dialed_early` are history: two handlers were active at once; the
clients for which a port was called before its thread listened, or before the master
was constructed. These are the races of the protocol, and the properties say that
there are no others, and that an early call harms only the client it is for.

### 2.7 EdgeSystem

| code | model |
|---|---|
| probe, first answer, pacing | `MaySend`, `answered` |
| `Client.run`; `handle_msg`, `close` | `Send`; `Receive` |
| `Server.__init__`, with open sockets from the first line | `ConstructMaster` in three stages; `ListenEarly` is a job that is read meanwhile |
| `handle_msg`, `put`, `run` | `Listen`, `Sleep`, `Dispatch` |
| `ResultHandler`, `handle_result` | `HandleResult`: refused if it names another master; a reply only to a client this master knows |
| `CommerOnWorker.__init__` | `ConstructWorker`, two assignments after the socket is open |
| `JobReqHandler`, `handle_job_req` | `TestAttached`, `AttachSid`, `AttachSip`: a thread per job between them |
| `Worker.run`, `send_result_to_server` | `Serve`, `SendResult` |
| a master's process stops | `Stop` |

A job is at one `place`, and almost every step moves it on. What other modules have
in detail is coarse here: token queues and the steps of the close (`Client`), turns
and order of jobs (`FlowControlServer`), the dispatcher and its flag (`Server`). Of the
races of the dispatcher the outcomes are here: `Listen` may leave it asleep
on a job, or dead, and `raced` remembers that. A worker that crashes is in `Server` only.
`slots` counts what `wip_q` holds of each worker. `Clusters` are the set-ups: who is told
whose address (`sid_ip_m`, `wip_l`). A master without workers is constructed like any other.

### 2.8 Simulation

| code | model |
|---|---|
| `yield` of a process | a step is what runs from one `yield` to the next |
| `FlowControl_GGn_AvgRespTimeTarget.run` / `update` | `RunTime` / `UpdateTime` |
| `FlowControl_GGn.run` / `update` | `RunLoad` / `UpdateLoad` |
| `Client.run_send`, `run_recv` | `SendReq`, `RecvResult` |
| `Client_NoFC` of `eval_rr_sching.py` | `SendReqNoFC`, `RecvResultNoFC` |
| `Net_wConstantDelay`, `Cluster.put` | `Deliver` with `Arrive` |
| `Cluster.run_handle_reqs`, `next_req` | `TakeServer`, `Wake`, with `Dispatch` |
| `Worker.run`, `put_result`; `run_handle_results` | `Finish` with `PutResult`; `SendBack` |

simpy is not modelled: a process whose event may be due can run next. That
admits every order of events at one instant. The value of the gap is dropped,
only whether it is a number matters to who waits for whom; for the response time the
formula may give either once there are enough results, for the load it is a number
from the first result on. `pacing` says what paces each client.

## 3. Runs

| run | bounds | shows |
|---|---|---|
| `round_robin` | 3 clients, 2 jobs each | backlog, fairness of the turns, worth of a `None`, every job leaves its queue |
| `server` | 1 client, 3 jobs, 2 workers, 1 slot each, 1 crash | slot conservation, one place per job, refinement of `JobService`, notify wakes |
| `attach` | 1 client, 3 jobs, 1 worker with 2 slots, 1 crash | a second job may overtake the attachment by the first: a serving thread that dies costs one slot; unless one dies or the worker crashes popped jobs are answered |
| `client` | 2 servers with 1 and 2 tokens, the first may stop, target 2 | slow start, no early stop, at most one late job, the probe is not lost; the client stops unless counts were lost, a send raised or all servers are gone; its threads end unless all listeners that close raise |
| `controllers` | window of 3 with 6 results and 4 times; limits in sixths, 3 jobs on the fly, 3 misses; 4 times, 6 tokens; positions up to 20, precision 2 | the total is the window's, counts are off by lost updates only, a push stream is one job and ends only if raced, averages stay in range, one token before the first result, searches keep a bracket and end |
| `edge_system` | 3 set-ups of 2 clients, 2 masters, 2 workers; 2 jobs per client and master, target 2, 1 master may stop | slots are conserved over the sharers, results come home, every loss has a cause, a client with a sound master finishes |
| `commer` | 2 clients; payloads of 0, 1, 2 and 5 units, packets of 3, 3 messages, 2 handlers, 2 closing listeners | who is heard can be answered; ports match unless a named race happened; every request is heard unless requests overlap or its own port was called early; messages arrive in order, and whole, only a close header garbles a stream, a close ends the reader, unless the client ends in the middle of a job |
| `simulation` | 2 clients, one paced for a time, one for a load or not at all, 2 servers, 3 tokens and 3 results each, 2 results before a gap | the permit of a client is single until it knows a gap and never lost, servers conserved, the check fails only after a double put, the last result comes |
| `index_error` | 2 clients, 1 job | violation: see section 6 |
| `lost_wakeup`, `late_notify` | 2 clients, 2 jobs, 1 worker | violations |
| `shared_port` | 2 clients | violation |

Every module has one type invariant. The runs check those of `EdgeSystem` and
`Simulation`; all of them are conjuncts of the inductive invariants of section 5 and
hold by proof.

Why the bounds are enough. A turn is skipped or doubled when a third client joins or
pushes while `pop` is between two others, hence three clients; two jobs let a client
be popped again while another waits. Three jobs for two slots make the dispatcher
wait for a slot and make jobs overtake each other; one crash leaves a live worker to
compare with. One client is enough for the slots, which the dispatcher alone takes,
and for a notify that races with the wait. Two servers are the two listeners that
race in the client; target 2 with 3 tokens lets both pass the test, lose a count and
still get a result; the one that may stop has one token, so the other can reach the
target alone. A second slot lets a second job come while the first attaches the
worker, which one slot cannot; a third one follows the loss. Six results slide a
window of three past every entry it started with. Payloads of 0, 1, 2 and 5 units
with packets of 3 end in the first, second and third packet, at its end or before;
two closing listeners put two headers into one job. Two clients race for one port.
In `EdgeSystem` a client reaches its target with one master while the other loses
its jobs, two jobs are a probe and one after it, and the set-ups are the smallest in
which two jobs of two clients meet in a worker, a client has two masters, and two
masters share a worker. Two threads of a controller lose updates one by one; three
jobs and three misses let the count be too high and too low. Of the searches every
pair of a target and a limit up to ten times the precision is tried, with the cases
that have no answer. Two clients of the simulator with two servers make two requests
meet one wakeup, and three results with a threshold of two switch the gap and take
it back.

Every bound is a constant: `MaxJobs` (jobs a client sends; in `EdgeSystem` to each
master), `MaxCrashes` (workers), `MaxGone` (masters), `Stopping` (servers that may
stop), `MaxTokens` (in `Client` the tokens for each server, which hold back only a
controller that is still on; in `Simulation` those of each client; in `ExpAvg` those
of the controller), `MaxResults`, `MaxMsgs`, `MaxOnFly` and `MaxMissed` (jobs and
misses of a pull client), `MaxPos` (positions of a search), `MaxUpper` (how far an
upper end is followed that no search with an answer reaches). Deadlock checking is
off where the program does stop: all bounded jobs sent and answered, the dispatcher
dead or asleep, the client closed, a search done.

## 4. Fairness

The interpreter schedules every thread that can run, so a thread's steps are weakly
fair: the dispatcher, the listeners between push and notify, the handlers of job
connections and results, the worker's loop (a service ends), forwarder, generator,
controllers (a sleep ends) and the client's listeners. A client's decision to send
(`HandlePush`, the first step of `reg`) is not fair in `Server`. That a server
answers is assumed in `Client` only (through the fairness of the listener): without
it a client legitimately waits for ever. That a server stops is never fair, nor that
the client's process ends. In `Framing` a message that was begun is written to its
end unless the process ends, and the reader reads; nobody has to send. In
`ConnSetup` all threads run. In `EdgeSystem` one condition says it for all: as long
as a living thread has a step to take, one is taken; each step moves a job, a
constructor or a dispatcher forward, so in the end all were. A search is one thread
that goes on. In `Simulation` every event simpy has queued is processed.
`PutWakesDispatcher` is about a dispatcher that is already waiting; that a put
before the wait is lost is `lost_wakeup`.

## 5. Theorems

| theorem | property | for |
|---|---|---|
| `RequestQueueIsCorrect` (`FlowControlServer_proofs`) | types, `QueuesAreTheBacklog`, `RingIsComplete` | any finite set of clients, any number of jobs |
| `RoundRobinIsFair`, `NoneIsWorthIt` (the same) | `OvertakenAtMostOnce`, `NoneMissesNoOlderJob` | the same |
| `ServerTypes`, `SlotsAreConserved`, `JobsAreAccountedFor` (`Server_proofs`) | `ServerTypeOK`, `SlotConservation`, `JobAccounting` | any finite sets of clients and workers, any number of jobs, slots, crashes |
| `ServerImplementsJobService` (the same) | `ImplementsJobService` | the same |
| `FewJobsAfterOff`, `StartsSlowly`, `ProbeIsNotLost`, `ClosesNotEarly`, `ClientTypes` (`Client_proofs`) | `AtMostOneJobAfterOff`, `SlowStart`, `ProbeIsUnderWay`, `ClosesOnlyAtTarget`, types | any finite set of servers, any target, any number of tokens |
| `EdgeTypes`, `SharedSlots`, `ResultsReturn`, `LossesExplained` (`EdgeSystem_proofs`) | `EdgeTypeOK`, `SlotsMoveBetweenSharers`, `ResultsComeHome`, `LossesHaveACause` | any clients and workers, any finite set of masters, any set-ups |
| `FramingTypes`, `InOrder`, `GarbledExplained` (`Commer_proofs`) | `FramingTypeOK`, `DeliveredInOrder`, `GarbledOnlyByClose` | any threads, payloads, packet size from two units on |
| `HeardClientsAreConnected`, `PortsMatch` (the same) | `HeardClientIsConnected`, `PortsMatchUnlessRaced` | any finite set of clients, any first port |
| `SimTypes`, `PermitsAreKept`, `ServersConserved`, `CheckHolds` (`Simulation_proofs`) | `SimTypeOK`, `PermitIsKept`, `ServersAreConserved`, `ReqHasComeUnlessPutTwice` | any finite set of clients, any number of servers, results, tokens |
| `WindowIsExact` (`Controllers_proofs`) | `TotalIsTheWindow` with types and window | any window length, service times, shares, number of results |
| `CountIsOffByMisses`, `StreamEndsOnlyRaced` (the same) | `AIMDWindow`, `PushStream` with types | any unit and bound |
| `AverageIsBounded`, `OneTokenFirst` (the same) | `AverageStaysInRange` with types, `OneTokenBeforeFirstResult` | any positive times |
| `SearchIsSound` (the same) | `SearchBrackets` with types | any precision, positions, first upper end |

All are theorems about specifications TLC runs (`RequestQueueIsCorrect` about
`Spec`, of which `RRSpec` and the dispatcher of `Server` take the steps; those about
controllers, searches and `commer.py` each about its own module's specification,
which `MCControllers` and `MCCommer` run one at a time); fairness is not used. The
assumptions are those of the modules' `ASSUME`s: finite sets where something is
counted over them, `None` is not a job, a worker or a master, masters are not
workers, a client connects to masters and a master to workers of the set-up,
positive window length, shares, times, unit, precision, slots and targets, a packet
holds more than a header, the first port a natural number. The larger inductive
invariants (`SInv`, `EInv`, `SimInv`, `CountsInv`, `FInv`) hold as invariants of
their module's run as well (for `SInv`, over the job ids of the instance).

**Request queue.** `FCInv` is the conjunction of the three invariants.
`QueuesAreTheBacklog` is inductive only together with the types and with the fact
that a client that is not registered has pushed nothing; `RingIsComplete` needs
that `RegRing` adds only a client that is not in the ring. The rotation is treated
once, in lemmas on what `Rotate` does to length, membership and positions.

**Round robin.** Neither property is inductive, and both become so as a
statement about positions in the ring. `TurnInv`: who has overtaken a waiting
client stands behind it, so it cannot come to the head before that client does. A
hit puts the popped client behind all who wait; a miss rotates a client that does
not wait, and that nobody has overtaken. `VisitInv`: an entry with a job from
before the call stands among the first `visits_left` entries. At the entry this
is the lemma `RingFits`, an injection of the ring into the registered clients; a
client that joins during the loop comes to the end, without old jobs.

**Server.** `SInv` speaks of each job for itself: a job that left its queue is held
by the dispatcher, at one worker (in its inbox, queue, hands or on the way from it,
and there once), finished or lost (`OnePlace`). That is inductive with what the
threads have in their local variables: the dispatcher the last job popped
(`DispatcherInv`), the result handlers each a job of its own that is finished and
not settled (`HandlerInv`), and a worker whose serving thread died none
(`WorkersInv`), which is why it has lost one slot and not more. Slots are counted
twice, per worker (`SlotConservation`) and over all (`CapacityInv`): the
dispatcher's `get` is possible in `JobService` because what runs and what is lost is
less than the capacity. The request queue needs no new proof: a step of the server
is one of `FlowControlServer` or leaves its variables alone, so `FCInv` carries
over.

The refinement goes step by step: a push receives, `GetWip` starts a job, `ReturnSlot`
finishes it, `Reply` settles it, `Crash` and `SendJobFails` lose what the worker had; every
other step, the pops, the notifications, the tests of the flag and the moves between
queues among them, changes nothing `JobService` sees. `JobService` has no fairness, so
its safety is all of it.

**Window.** `WindowInv` holds the length of the history, the length of the window,
and each entry as a difference of two totals; the total then telescopes without
a sum over the window.

**Controllers.** In `AIMD` (`AIMDInv`) the count differs from the exact one by no
more than `missed` (`CountInv`): a write brings the error the count had when it was
copied, and `missed` grows by what has changed since. For a push controller, what is
under way, a job or a result whose handling has not come to the test, is one until
an update was missed, and never more (`StreamInv`): a handler that finds nothing
else under way finds an exact count, which is 0, and lets the next job go. The limit
grows only below twice the longest queue, by one at most, and halving cannot exceed
it. For `ExpAvg` the gap lies between the extreme times, or below twice the longest
one, since it is doubled only when it is shorter than a time that is now counted
among them. Its tokens (`TokenInv`): nothing is answered that was not put, the
constructor and the thread put one each, and the thread puts its own only when there
is a gap. For `Search` the bracket is inductive only with the order of the two
positions and with what is known of `l` in each phase; it never compares `None`
because the middle stays below an upper end with a value.

**Client.** `ClientInv` adds to the types, for each server, the state of its probe
(`Probe`): while the gap is unknown there is no token, queued or sent, until the
controller has put one and waits for its syncer, and then there is exactly one;
and, while the client is on, what was sent is either in flight or handled, unless the
server is gone.
Tokens in the two queues are counted with `Occurrences`; the lemmas of
`Counting_proofs` say what an append and a get do to the count. `SlowStart` and
`ProbeIsUnderWay` are two readings of `Probe`. `AtMostOneJobAfterOff` needs only
that `on` never becomes `TRUE` again: it counts the generator that is past its test.
`ClosingIsOff` relates the steps of `close` to `on`: no header is sent before.
`ClosesOnlyAtTarget` needs `CountsInv`, about the unlocked `num_jobs_finished += 1`: the
count, and what a listener has read of it, plus the listeners that have taken a
result and not counted it is never more than the results taken. Lost updates only
lower the left side. The sum over the servers is the size of a union, which is what the
prover can add to.

**Framing.** `FInv` says what is on the wire and what is still to be written.
Headers on the wire are those of the messages that were begun and not opened, in
order (`HeadersInv`). After each stands its text, and then as many units as the
message has, of its payload or close headers; without a close header exactly so
many, so the next header is where the reader will look for it (`Follow`,
`MessagesInv`). The reader waits for the unit in front or for the rest of the
payload (`AtHeader`, `AtText`, `AtPayload`). A close header between packets adds
units to a payload and spoils the count, which `Follow` allows; the header or the
text in front is never touched, since both are in the first packet. That is why
messages stay in order even when a close garbles the stream. Three lemmas for each
part, on a wire that gets longer, takes a new message, or loses its front, are
stated without the variables and used by all steps. That packets put together are
the message is `PacketFacts`.

**Connection set-up.** `ConnectedBack` follows the evidence that the master has dialled
a client along one path: its handler is past the dial, the client has the reply, the
client's own connection waits at a port, it is read. `PortsInv` says, while no
handlers overlap and no dial was early, that one handler is active at most, that
the counter is the port of a handler that has not incremented it, and that all
ports given out before are below (`PortsOf`, `OneHandler`, `PortsDiffer`).

**Whole system.** `EInv` bounds where a job can be by the set-up: at a worker of its
master, or with a result that names masters of that worker (`PlaceOK`), because a
worker is attached only to a master whose job it has (`AttachInv`). With one master
per worker the name and the address can then only be that master's, which is
`ResultsComeHome`; and with more the slots can go to its masters only, which is what
`SlotsMoveBetweenSharers` needs to add up. A job is lost for want of an address only
if one job overtakes the attachment by another: a worker with one slot that was set
up in time has an address when it serves (`OnTimeInv`).

**Simulation.** A permit is a token, a request on its way or in service, or a
result; every step that takes one puts one somewhere else, counted with
`Occurrences` and sizes of sets of clients. `PermitIsKept` is inductive with what
the flow control knows (`Pacer`): before a gap is known it waits with one permit,
and when it waits although the gap is known, its permit is in the syncer already.
For the check of the dispatcher, `WakeInv`: it says that it waits exactly while it
does, and unless a put came twice it is woken once, for a request in a queue that
the ring knows (`RingInv`).

Only model-checked, since the prover has no rules for it: everything under fairness, the
properties with `~>` and `<>` (section 4 has the fairness of each), and `ENABLED`. That
includes the wakeup of the dispatcher, the end of the client's threads and of the
searches, and the results that must come. What the floats of the code do is in no module,
so it is not proved either.

## 6. Where the code does not do what its texts say

* **`index_error`.** `reg` creates the queue (`flow_control.py:17`) before it adds the
  client to the ring (line 18). A `pop` in between, for the first client, sees one
  queue and an empty ring; line 28 raises `IndexError` and the dispatcher is gone.
* **`lost_wakeup`.** `run` sets the flag after `pop` has returned `None`, and `put`
  reads it without the lock (`server.py:54`, `63`). A put in between notifies nobody,
  and the dispatcher sleeps on a busy queue with a free slot until another job
  comes. The notes (`sim/meeting_w_prasad:10`) say a busy queue is served when a
  worker is idle.
* **`late_notify`.** The job is pushed before the flag is read. The dispatcher can
  pop it, find nothing more, sleep, and be woken by the notify for the job it has
  already had: `pop` returns `None` and the check at `server.py:71` ends the thread.
* **`shared_port`.** A handler of a connection request reads the port counter for the
  thread that will listen (`commer.py:209`), again for the reply (line 217), and
  increments it (line 218), with other handlers in between. Two overlapping
  requests get one port; the second bind fails, both clients connect to one
  socket, one is accepted and the other dropped. The notes (line 8) promise each
  client a persistent connection.

Without a run of its own: the notes (`sim/meeting_w_prasad:21`) say the master tells the
client the average number of workers allocated for it; `server.py:80` sends the
number of clients that have ever registered, and the client divides by it
(`SetShare`).

Seen in the client model, and allowed by its properties: `num_jobs_finished` can
decrease, when a listener stalls between the read and the write of `+=`. A client
that gets no result after that stays below its target. The generator may end by the
test of `on` while the closing listener is still in `close`; the main thread waits
for the generator only, so the program can be over before the close headers are
sent, and the server then reads at an end of file for ever (`Exit`, `ThreadsEnd`).

Seen in `Server`: a worker with several slots can get a job whose handler finds
`sid` assigned while `sip` is still `None`; if that job is served before the
assignment, the connection to `None` raises, the serving thread is gone, and its job
and slot with it (`SendResultFails`). The worker takes jobs until its slots are used
up, and answers none.

Seen in `Framing`: a close header that lands inside a job is counted as payload, the
last bytes of the job are then read as a header, and `int()` ends the listener by a
`ValueError` instead of the close signal (`GarbledOnlyByClose`,
`CloseEndsListener`). Seen in `Simulation`: `Cluster.put` leaves a token per request
(`sim/objs.py:168`), and the check "A req must have been recved" fails after two
requests came during one wakeup (`ReqHasComeUnlessPutTwice`). That needs two
arrivals at one instant, which the random sending delays make unlikely.

Seen in `AIMD`: a push controller lets one job go per result, and one at its start,
so it never has more than one on the fly and its limit lets nothing more go
(`PushStream`). Its constructor puts the token before it counts it: if the first
result is handled in between, the count stays one too high, and when the limit is
then halved the stream ends: by the test, or, if halving has brought the limit to 0,
in a branch that uses `sid`, which is not defined there. The count of a pull
controller loses updates to the other thread and drifts (`AIMDWindow`).

Seen in `ExpAvg`: before the first result the gap is `None` and `time.sleep` raises,
so a thread that comes to it ends and the stream with it, after one token
(`OneTokenBeforeFirstResult`).

Seen in `Search`: for a target no rate can reach (`enough = limit`), and when a
negative variance leaves no rate a value (`limit = 0`), the bracket shrinks for
ever; for a mean that is not reachable it grows for ever. No wrong answer is given
(`SearchBrackets`). The test before the call that would exclude constant service
times (`sim/flow_control.py:134`) compares `ES` with `ES2` where the variance is
`ES2 - ES^2`.

Seen in `EdgeSystem`: a worker sends every result to the master whose job it saw
first. If two masters share it, the other one's slots move there, its client is
never told, or told by the wrong master (`SlotsMoveBetweenSharers`,
`ResultsComeHome`); and a master that stops ends the serving thread of the workers
attached to it.

Seen while reading: `server.py:29` walks the parameter `wip_l`, not the `self.wip_l`
that replaces it when it is `None`, so the path without addresses raises
`TypeError`.

## 7. What is not modelled

Contents of messages, their encoding, and logging. UDP (`config.py` sets TCP). A
`send()` that writes less than it is given: the code ignores the count, and a
blocking socket writes less only when a signal interrupts it. Rounding of floats,
real-valued sampling and queueing formulas. Parsing of arguments and the look-up of
addresses. Clocks: the gap is as positive as the service times, which come from
`time.time()`; nothing guards against a clock that steps back by more than a
window's worth, and `time.sleep` would raise. `close()` of master and worker and
`update_w_probe()`, which nobody calls. The experiments, plots and set-up scripts,
which keep no state the program depends on. `deprecated/`, which nothing imports.

Modelled in one place only: a worker that crashes is in `Server`, not in
`EdgeSystem`; a worker that is reached before its constructor has ended, or has
several masters, is in `EdgeSystem`, not in `Server`; a client's threads after its
target are in `Client`, not in `EdgeSystem`, where it is off in one step.

## 8. Plan

Done: every module of section 2; every invariant the runs check, and the
refinement of `JobService`, by proof for all values of the constants (section 5).

Left:

1. The safety part of what the liveness properties rest on, as invariants that can be
   proved: that a dispatcher asleep on a busy queue has been notified or was raced
   (`PutWakesDispatcher`, `LastResultComes`), and that a reader of a stream without a
   close header always has the next unit before it or in the hands of a sender
   (`WrittenIsDelivered`).
2. An abstract stream of messages that `Framing` implements as long as nothing is closed, with
   the refinement proved from `FInv`.
