------------------------------- MODULE Client -------------------------------
(***************************************************************************)
(* The client process (client.py) with its flow control: class             *)
(* FlowControlClient of flow_control.py and one                            *)
(* InterJobGenTimeController_GGn of delay_control.py per server.           *)
(*                                                                         *)
(* A controller paces the jobs for its server by putting the server's id,  *)
(* a token, on the queue of FlowControlClient.  The forwarder thread moves *)
(* tokens to the queue of Client, whose generator thread sends one job per *)
(* token.  One listener thread per server handles the results, feeds them  *)
(* back to the controller and closes the client when enough of them have   *)
(* come.  Nothing but the queues is locked.                                *)
(*                                                                         *)
(* The servers and the network are the environment: a job is answered at   *)
(* any later time, or never, and jobs overtake each other.  A server stops *)
(* reading at the close header, or its process stops: what is then sent to *)
(* it is lost, or the send raises and takes the thread with it.            *)
(*                                                                         *)
(* The main thread waits for the generator alone.  When that has ended the *)
(* program goes to its end, at any time after, and all other threads with  *)
(* it, wherever they are: they are daemons.                                *)
(***************************************************************************)
EXTENDS Naturals, Sequences, FiniteSets, Counting

CONSTANTS Servers,          \* server ids (sid)
          NumJobsToFinish,  \* num_jobs_to_finish
          MaxTokens,        \* bound: server -> tokens for it while its controller is on
          Stopping,         \* bound: servers that may stop
          CloseSignal       \* the -1 that close() puts on the queues

ASSUME ServersAssumption == IsFiniteSet(Servers) /\ CloseSignal \notin Servers
ASSUME BoundsAssumption ==
  NumJobsToFinish \in Nat \ {0} /\ MaxTokens \in [Servers -> Nat] /\ Stopping \subseteq Servers

VARIABLES
  ctl_pc,             \* server -> its controller: "top", "first", "sync",
                      \*           "sleep" or "done"
  ctl_on,             \* server -> the controller's flag on
  inter_req_time,     \* server -> is the controller's gap known?
  syncer,             \* server -> items in the controller's syncer queue
  fc_sid_q,           \* queue of FlowControlClient
  fwd_done,           \* has the forwarder ended?
  sid_q,              \* queue of Client
  gen,                \* generator: "check", "get", "done" or "raised"
  exited,             \* has the process ended?
  on,                 \* the client's flag on
  num_jobs_finished,
  listener_pc,        \* server -> thread of its listener
  count_read,         \* server -> num_jobs_finished as the listener read it
  in_flight,          \* server -> jobs and results between client and server
  header_sent,        \* servers that were sent the close header
  gone,               \* servers whose process has stopped
  sent,               \* history: server -> jobs sent to it
  handled,            \* history: server -> results its listener has taken
  closers,            \* history: servers whose listener closes the client
  sent_after_off      \* history: jobs sent since on became FALSE

ctlVars == <<ctl_pc, ctl_on, inter_req_time, syncer>>
queueVars == <<fc_sid_q, fwd_done, sid_q, gen, exited>>
listenVars == <<on, num_jobs_finished, listener_pc, count_read>>
netVars == <<in_flight, header_sent, gone, sent, handled, closers, sent_after_off>>
clientVars == <<ctlVars, queueVars, listenVars, netVars>>

CInit ==
  /\ ctl_pc = [s \in Servers |-> "top"]
  /\ ctl_on = [s \in Servers |-> TRUE]
  /\ inter_req_time = [s \in Servers |-> FALSE]
  /\ syncer = [s \in Servers |-> 0]
  /\ fc_sid_q = <<>> /\ fwd_done = FALSE /\ sid_q = <<>> /\ gen = "check"
  /\ exited = FALSE
  /\ on = TRUE
  /\ num_jobs_finished = 0
  /\ listener_pc = [s \in Servers |-> "recv"]
  /\ count_read = [s \in Servers |-> 0]
  /\ in_flight = [s \in Servers |-> 0]
  /\ header_sent = {} /\ gone = {}
  /\ sent = [s \in Servers |-> 0]
  /\ handled = [s \in Servers |-> 0]
  /\ closers = {}
  /\ sent_after_off = 0

-----------------------------------------------------------------------------
(* Controller thread of server s: InterJobGenTimeController_GGn.run.       *)

CtlStep(s, from, to) ==
  /\ ~exited /\ ctl_pc[s] = from
  /\ ctl_pc' = [ctl_pc EXCEPT ![s] = to]
  /\ UNCHANGED <<fwd_done, sid_q, gen, exited, listenVars, netVars>>

\* The bound MaxTokens holds back only a controller that is still on.
PutToken(s) ==
  /\ ctl_on[s] => sent[s] + Occurrences(s, fc_sid_q) + Occurrences(s, sid_q) < MaxTokens[s]
  /\ fc_sid_q' = Append(fc_sid_q, s)

\* The loop test, and the test whether a result has come yet.
Top(s) ==
  /\ CtlStep(s, "top", IF ~ctl_on[s] THEN "done"
                       ELSE IF inter_req_time[s] THEN "sleep" ELSE "first")
  /\ UNCHANGED <<ctl_on, inter_req_time, syncer, fc_sid_q>>

\* The first token, before any result has come.
PutFirst(s) ==
  /\ CtlStep(s, "first", "sync")
  /\ PutToken(s)
  /\ UNCHANGED <<ctl_on, inter_req_time, syncer>>

\* Variant: the controller does not block on its syncer.
PutSecondNoBlock(s) ==
  /\ CtlStep(s, "sync", "top")
  /\ syncer' = [syncer EXCEPT ![s] = IF @ > 0 THEN @ - 1 ELSE @]
  /\ PutToken(s)
  /\ UNCHANGED <<ctl_on, inter_req_time>>

\* The second one, when the first result has come: syncer.get(block=True).
PutSecond(s) ==
  /\ CtlStep(s, "sync", "top")
  /\ syncer[s] > 0
  /\ syncer' = [syncer EXCEPT ![s] = @ - 1]
  /\ PutToken(s)
  /\ UNCHANGED <<ctl_on, inter_req_time>>

\* time.sleep(self.inter_req_time) is over: the next one.
PutNext(s) ==
  /\ CtlStep(s, "sleep", "top")
  /\ PutToken(s)
  /\ UNCHANGED <<ctl_on, inter_req_time, syncer>>

Controller(s) == Top(s) \/ PutFirst(s) \/ PutSecond(s) \/ PutNext(s)

-----------------------------------------------------------------------------
(* Forwarder thread: FlowControlClient.run.                                *)

\* Take a sid from one queue and put it on the other.  Nobody else takes from
\* the first queue, so the time the sid spends in between is not seen.
Forward ==
  /\ ~exited /\ fc_sid_q # <<>> /\ ~fwd_done
  /\ fc_sid_q' = Tail(fc_sid_q)
  /\ sid_q' = Append(sid_q, Head(fc_sid_q))
  /\ fwd_done' = (Head(fc_sid_q) = CloseSignal)
  /\ UNCHANGED <<ctlVars, gen, exited, listenVars, netVars>>

-----------------------------------------------------------------------------
(* Generator thread: Client.run.                                           *)

\* Variant: the loop of the generator does not test the flag.
CheckNothing ==
  /\ gen = "check"
  /\ gen' = "get"
  /\ UNCHANGED <<ctlVars, fc_sid_q, fwd_done, sid_q, exited, listenVars, netVars>>

CheckOn ==
  /\ gen = "check"
  /\ gen' = IF on THEN "get" ELSE "done"
  /\ UNCHANGED <<ctlVars, fc_sid_q, fwd_done, sid_q, exited, listenVars, netVars>>

\* The sid is the close signal: the thread ends.
GetClose ==
  /\ gen = "get"
  /\ sid_q # <<>> /\ Head(sid_q) = CloseSignal
  /\ sid_q' = Tail(sid_q)
  /\ gen' = "done"
  /\ UNCHANGED <<ctlVars, fc_sid_q, fwd_done, exited, listenVars, netVars>>

\* It is a server: send it a job.  Nobody else takes from the queue, so the
\* get and the send are one step.  A job that follows the close header on its
\* connection is never read, nor is the first one to a server that is gone.
SendJob ==
  /\ gen = "get"
  /\ sid_q # <<>> /\ Head(sid_q) \in Servers
  /\ LET s == Head(sid_q)
     IN /\ sent' = [sent EXCEPT ![s] = @ + 1]
        /\ in_flight' = IF s \in header_sent \cup gone THEN in_flight
                        ELSE [in_flight EXCEPT ![s] = @ + 1]
  /\ sid_q' = Tail(sid_q)
  /\ sent_after_off' = IF on THEN 0 ELSE sent_after_off + 1
  /\ gen' = "check"
  /\ UNCHANGED <<ctlVars, fc_sid_q, fwd_done, exited, listenVars, header_sent, gone, handled,
                 closers>>

\* The connection is known to be closed: send() raises and ends the thread.
SendJobRaises ==
  /\ gen = "get"
  /\ sid_q # <<>> /\ Head(sid_q) \in gone
  /\ sid_q' = Tail(sid_q)
  /\ gen' = "raised"
  /\ UNCHANGED <<ctlVars, fc_sid_q, fwd_done, exited, listenVars, netVars>>

-----------------------------------------------------------------------------
(* Listener thread of server s: handle_msg and close.                      *)

ListenStep(s, from, to) ==
  /\ ~exited /\ listener_pc[s] = from
  /\ listener_pc' = [listener_pc EXCEPT ![s] = to]
  /\ UNCHANGED <<fwd_done, gen, exited>>

\* Variant: should_sync is computed after inter_req_time was assigned.
RecvResultNoSync(s) ==
  /\ ListenStep(s, "recv", "count")
  /\ in_flight[s] > 0
  /\ in_flight' = [in_flight EXCEPT ![s] = @ - 1]
  /\ handled' = [handled EXCEPT ![s] = @ + 1]
  /\ inter_req_time' = [inter_req_time EXCEPT ![s] = TRUE]
  /\ UNCHANGED <<ctl_pc, ctl_on, syncer, fc_sid_q, sid_q, on, num_jobs_finished,
                 count_read, header_sent, gone, sent, closers, sent_after_off>>

\* A result comes; fc_client.update() tells the controller, and starts it if
\* the result is its first.
RecvResult(s) ==
  /\ ListenStep(s, "recv", "count")
  /\ in_flight[s] > 0
  /\ in_flight' = [in_flight EXCEPT ![s] = @ - 1]
  /\ handled' = [handled EXCEPT ![s] = @ + 1]
  /\ inter_req_time' = [inter_req_time EXCEPT ![s] = TRUE]
  /\ syncer' = IF inter_req_time[s] THEN syncer ELSE [syncer EXCEPT ![s] = @ + 1]
  /\ UNCHANGED <<ctl_pc, ctl_on, fc_sid_q, sid_q, on, num_jobs_finished, count_read,
                 header_sent, gone, sent, closers, sent_after_off>>

\* self.num_jobs_finished += 1 is a read and a write, without a lock.
ReadCount(s) ==
  /\ ListenStep(s, "count", "count_write")
  /\ count_read' = [count_read EXCEPT ![s] = num_jobs_finished]
  /\ UNCHANGED <<ctlVars, fc_sid_q, sid_q, on, num_jobs_finished, netVars>>

WriteCount(s) ==
  /\ ListenStep(s, "count_write", "test")
  /\ num_jobs_finished' = count_read[s] + 1
  /\ count_read' = [count_read EXCEPT ![s] = 0]
  /\ UNCHANGED <<ctlVars, fc_sid_q, sid_q, on, netVars>>

\* Variant: the client closes one result early.
TestTargetEarly(s) ==
  /\ ListenStep(s, "test",
       IF num_jobs_finished >= NumJobsToFinish - 1 /\ on THEN "close_off" ELSE "recv")
  /\ UNCHANGED <<ctlVars, fc_sid_q, sid_q, on, num_jobs_finished, count_read,
                 netVars>>

\* Variant: the target must be met exactly.
TestTargetExact(s) ==
  /\ ListenStep(s, "test",
       IF num_jobs_finished = NumJobsToFinish /\ on THEN "close_off" ELSE "recv")
  /\ UNCHANGED <<ctlVars, fc_sid_q, sid_q, on, num_jobs_finished, count_read,
                 netVars>>

\* Enough results: close(), which returns at once if the client is off.
TestTarget(s) ==
  /\ ListenStep(s, "test",
       IF num_jobs_finished >= NumJobsToFinish /\ on THEN "close_off" ELSE "recv")
  /\ UNCHANGED <<ctlVars, fc_sid_q, sid_q, on, num_jobs_finished, count_read,
                 netVars>>

CloseOff(s) ==
  /\ ListenStep(s, "close_off", "close_q")
  /\ on' = FALSE
  /\ closers' = closers \cup {s}
  /\ UNCHANGED <<ctlVars, fc_sid_q, sid_q, num_jobs_finished, count_read,
                 in_flight, header_sent, gone, sent, handled, sent_after_off>>

CloseQueue(s) ==
  /\ ListenStep(s, "close_q", "close_commer")
  /\ sid_q' = Append(sid_q, CloseSignal)
  /\ UNCHANGED <<ctlVars, fc_sid_q, on, num_jobs_finished, count_read, netVars>>

\* commer.close() sends every server a close header.  The loop is one step: at
\* most one job is still sent, and it precedes or follows the header on the
\* connection it takes.
CloseHeaders(s) ==
  /\ ListenStep(s, "close_commer", "close_fc")
  /\ header_sent' = Servers
  /\ UNCHANGED <<ctlVars, fc_sid_q, sid_q, on, num_jobs_finished, count_read,
                 in_flight, gone, sent, handled, closers, sent_after_off>>

\* A header cannot be sent: the listener thread ends inside close(), after some
\* headers and before fc_client.close().
CloseHeadersRaise(s) ==
  /\ ListenStep(s, "close_commer", "raised")
  /\ \E t \in gone : \E told \in SUBSET (Servers \ {t}) : header_sent' = header_sent \cup told
  /\ UNCHANGED <<ctlVars, fc_sid_q, sid_q, on, num_jobs_finished, count_read,
                 in_flight, gone, sent, handled, closers, sent_after_off>>

\* Variant: the forwarder is not told.
CloseFlowControlSilent(s) ==
  /\ ListenStep(s, "close_fc", "close_ctl")
  /\ UNCHANGED <<ctlVars, fc_sid_q, sid_q, on, num_jobs_finished, count_read, netVars>>

\* fc_client.close(): the close signal, then each controller's flag.
CloseFlowControl(s) ==
  /\ ListenStep(s, "close_fc", "close_ctl")
  /\ fc_sid_q' = Append(fc_sid_q, CloseSignal)
  /\ UNCHANGED <<ctlVars, sid_q, on, num_jobs_finished, count_read, netVars>>

\* The loop is one step: each flag is read by one thread, its controller.
CloseControllers(s) ==
  /\ ListenStep(s, "close_ctl", "recv")
  /\ ctl_on' = [t \in Servers |-> FALSE]
  /\ UNCHANGED <<ctl_pc, inter_req_time, syncer, fc_sid_q, sid_q, on,
                 num_jobs_finished, count_read, netVars>>

Close(s) == \/ CloseOff(s) \/ CloseQueue(s) \/ CloseHeaders(s) \/ CloseHeadersRaise(s)
            \/ CloseFlowControl(s) \/ CloseControllers(s)

Listener(s) == RecvResult(s) \/ ReadCount(s) \/ WriteCount(s) \/ TestTarget(s) \/ Close(s)

-----------------------------------------------------------------------------
\* t.join() has returned, and the program ends.  What it does before, printing
\* or plotting, may take any time.
Exit ==
  /\ ~exited /\ gen \in {"done", "raised"}
  /\ exited' = TRUE
  /\ UNCHANGED <<ctlVars, fc_sid_q, fwd_done, sid_q, gen, listenVars, netVars>>

\* The process of server s stops; results that have reached the client stay.
Stop(s) ==
  /\ s \in Stopping \ gone
  /\ gone' = gone \cup {s}
  /\ \E n \in 0..in_flight[s] : in_flight' = [in_flight EXCEPT ![s] = n]
  /\ UNCHANGED <<ctlVars, queueVars, listenVars, header_sent, sent, handled, closers,
                 sent_after_off>>

CNext ==
  \/ \E s \in Servers : Controller(s) \/ Listener(s) \/ Stop(s)
  \/ Forward
  \/ CheckOn \/ GetClose \/ SendJob \/ SendJobRaises
  \/ Exit

\* The threads run, every gap between two jobs ends, and a server answers the
\* jobs it reads.
Fairness ==
  /\ WF_clientVars(Forward)
  /\ WF_clientVars(CheckOn \/ GetClose \/ SendJob \/ SendJobRaises)
  /\ \A s \in Servers : /\ WF_clientVars(Controller(s))
                        /\ WF_clientVars(Listener(s))

CSpec == CInit /\ [][CNext]_clientVars /\ Fairness
-----------------------------------------------------------------------------
ClientTypeOK ==
  /\ ctl_pc \in [Servers -> {"top", "first", "sync", "sleep", "done"}]
  /\ ctl_on \in [Servers -> BOOLEAN]
  /\ inter_req_time \in [Servers -> BOOLEAN]
  /\ syncer \in [Servers -> Nat]
  /\ fc_sid_q \in Seq(Servers \cup {CloseSignal})
  /\ fwd_done \in BOOLEAN
  /\ sid_q \in Seq(Servers \cup {CloseSignal})
  /\ gen \in {"check", "get", "done", "raised"}
  /\ exited \in BOOLEAN /\ closers \subseteq Servers
  /\ on \in BOOLEAN
  /\ num_jobs_finished \in Nat
  /\ listener_pc \in [Servers -> {"recv", "count", "count_write", "test", "close_off",
                        "close_q", "close_commer", "close_fc", "close_ctl", "raised"}]
  /\ count_read \in [Servers -> Nat]
  /\ in_flight \in [Servers -> Nat]
  /\ header_sent \subseteq Servers /\ gone \subseteq Servers
  /\ sent \in [Servers -> Nat]
  /\ handled \in [Servers -> Nat]
  /\ sent_after_off \in Nat

\* Tokens of server s that wait in a queue.
Waiting(s) == Occurrences(s, fc_sid_q) + Occurrences(s, sid_q)

\* Jobs, or results, over all servers: f counts those of each.
SumOver(f) == Cardinality(UNION {{s} \X (1..f[s]) : s \in DOMAIN f})

\* Until the first result of a server has been handled, the client has at most
\* one job or token for it: an unknown server is probed with a single job.
SlowStart ==
  \A s \in Servers : handled[s] = 0 => sent[s] + Waiting(s) <= 1

\* The client stops only when it has really handled as many results as asked:
\* a count lost between two listeners may delay the end and never hastens it.
ClosesOnlyAtTarget ==
  ~on => SumOver(handled) >= NumJobsToFinish

\* At most one job leaves after the client is switched off, whichever listener
\* closes, even if two close at once: the one the generator was about to send.
\* It has left, or the generator is past its test and may still send it.
AtMostOneJobAfterOff ==
  sent_after_off + (IF ~on /\ gen = "get" THEN 1 ELSE 0) <= 1

\* A controller that waits for the first result has its job, token or result
\* under way, unless the client is closing or that server is gone: the start of
\* the pacing cannot be lost inside the client.
ProbeIsUnderWay ==
  \A s \in Servers \ gone :
    (ctl_pc[s] = "sync" /\ on) => Waiting(s) + in_flight[s] + syncer[s] >= 1

\* While one of its servers runs, and no send to another raises, the client
\* closes, or its count stays behind the results it has handled: two increments
\* at a time may lose one, and a slow one may even take the count back, but no
\* result that was counted is ignored, and jobs that a stopped server swallows
\* do not stop those of the others.
ClosesUnlessCountsAreLost ==
  \/ <>(~on)
  \/ <>[](num_jobs_finished < SumOver(handled))
  \/ <>(gen = "raised" \/ gone = Servers)

\* Did every listener that closes the client die of a close header to a server
\* that is gone?
ClosersRaised == closers # {} /\ \A s \in closers : listener_pc[s] = "raised"

\* Once the client is off its process ends, or its generator does, so that the
\* process may; and until then its other threads end too, unless every listener
\* that closes has died before fc_client.close().  Only the controller of a
\* server that never answered stays, blocked on its syncer.
ThreadsEnd ==
  ~on ~> [](\/ exited
            \/ /\ gen \in {"done", "raised"}
               /\ \/ ClosersRaised
                  \/ /\ fwd_done
                     /\ \A s \in Servers :
                          ctl_pc[s] = "done" \/ (ctl_pc[s] = "sync" /\ handled[s] = 0))
=============================================================================
