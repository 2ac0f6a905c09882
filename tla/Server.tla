------------------------------- MODULE Server -------------------------------
(***************************************************************************)
(* The master of an edge cluster (server.py) with the workers behind it    *)
(* (worker.py) and the parts of commer.py that carry jobs and results.     *)
(*                                                                         *)
(* Threads: one listener per client (handle_msg, put), the dispatcher      *)
(* (run), one handler thread per result (handle_result); on a worker one   *)
(* handler thread per job connection and the serving loop.  Jobs and       *)
(* results travel on a connection of their own, so they may overtake each  *)
(* other: inbox and results are sets.                                      *)
(*                                                                         *)
(* A critical section of the Condition is one step: its only outside       *)
(* effects are entering the wait set, leaving it, and the assignment to    *)
(* the flag.  The flag is also read without the lock, in put().            *)
(***************************************************************************)
EXTENDS FlowControlServer, FiniteSetsExt, SequencesExt, Counting

CONSTANTS Workers,         \* worker ids (the code uses their ip, wip)
          SlotsPerWorker,  \* max_num_jobs_per_worker
          MaxCrashes       \* bound: workers that may crash

ASSUME WorkersAssumption == IsFiniteSet(Workers) /\ None \notin Workers
ASSUME SlotsAssumption == SlotsPerWorker \in Nat \ {0} /\ MaxCrashes \in Nat

VARIABLES
  listener_pc,             \* client -> "handle", "check" or "notify"
  run_pc,                  \* the dispatcher
  is_waiting_for_ajob,
  wip_q,                   \* free worker slots
  wip,                     \* the slot the dispatcher took last
  inbox,                   \* worker -> jobs on their way to it
  job_q,                   \* worker -> its queue
  serving,                 \* worker -> the job it serves, or None
  sid, sip,                \* workers that know the master's name, and address
  attaching,               \* <<worker, job, next>>: handler threads that found
                           \* sid None, and which assignment is next
  mute,                    \* workers whose serving thread died
  crashed,                 \* workers that are down
  results,                 \* <<worker, job>>, results on their way back
  handling,                \* results whose slot was returned, with the share
                           \* written into them so far, or None
  finished,                \* history: jobs whose slot was returned
  settled,                 \* history: jobs whose reply was sent or not sendable
  lost                     \* history: jobs lost at or with a worker

attachVars == <<sid, sip, attaching, mute>>
workerVars == <<inbox, job_q, serving, attachVars>>
resultVars == <<handling, finished, settled>>
srvVars == <<listener_pc, run_pc, is_waiting_for_ajob, wip_q, wip, workerVars,
             crashed, results, resultVars, lost>>

serverVars == <<fcVars, srvVars>>

-----------------------------------------------------------------------------
\* Every worker is queued max_num_jobs_per_worker times in a row.
InitialSlots ==
  LET order == SetToSeq(Workers)
  IN [i \in 1..(Len(order) * SlotsPerWorker) |-> order[((i - 1) \div SlotsPerWorker) + 1]]

SInit ==
  /\ Init
  /\ listener_pc = [c \in Clients |-> "handle"]
  /\ run_pc = "pop"
  /\ is_waiting_for_ajob = FALSE
  /\ wip_q = InitialSlots
  /\ wip = None
  /\ inbox = [w \in Workers |-> {}]
  /\ job_q = [w \in Workers |-> <<>>]
  /\ serving = [w \in Workers |-> None]
  /\ sid = {} /\ sip = {} /\ attaching = {} /\ mute = {}
  /\ crashed = {} /\ results = {} /\ handling = {}
  /\ finished = {} /\ settled = {} /\ lost = {}

-----------------------------------------------------------------------------
(* Listener thread of client c.                                            *)

\* handle_msg(): register a client that is new.
HandleReg(c) ==
  /\ listener_pc[c] = "handle"
  /\ RegQueue(c) \/ RegRing(c)
  /\ UNCHANGED srvVars

\* handle_msg() and put(): push the job.
HandlePush(c) ==
  /\ listener_pc[c] = "handle"
  /\ Push(c)
  /\ listener_pc' = [listener_pc EXCEPT ![c] = "check"]
  /\ UNCHANGED <<run_pc, is_waiting_for_ajob, wip_q, wip, workerVars, crashed,
                 results, resultVars, lost>>

\* put(): read the flag, without the lock.
CheckFlag(c) ==
  /\ listener_pc[c] = "check"
  /\ listener_pc' = [listener_pc EXCEPT ![c] =
                       IF is_waiting_for_ajob THEN "notify" ELSE "handle"]
  /\ UNCHANGED <<fcVars, run_pc, is_waiting_for_ajob, wip_q, wip, workerVars,
                 crashed, results, resultVars, lost>>

\* put(): notifyAll() wakes the dispatcher if it is in the wait set now.
Notify(c) ==
  /\ listener_pc[c] = "notify"
  /\ listener_pc' = [listener_pc EXCEPT ![c] = "handle"]
  /\ run_pc' = IF run_pc = "blocked" THEN "notified" ELSE run_pc
  /\ UNCHANGED <<fcVars, is_waiting_for_ajob, wip_q, wip, workerVars, crashed,
                 results, resultVars, lost>>

Listener(c) == HandleReg(c) \/ HandlePush(c) \/ CheckFlag(c) \/ Notify(c)

-----------------------------------------------------------------------------
(* Dispatcher thread.                                                      *)

\* Both calls of pop(); the second one is followed by the check that a job
\* has arrived, and the thread dies when it fails or when pop() raises.
RunPop ==
  /\ run_pc \in {"pop", "repop"}
  /\ \/ (PopEnter \/ PopMiss) /\ UNCHANGED run_pc
     \/ PopHit /\ run_pc' = "get_wip"
     \/ PopIndexError /\ run_pc' = "index_error"
     \/ PopNone /\ run_pc' = IF run_pc = "pop" THEN "set_flag" ELSE "asserted"
  /\ UNCHANGED <<listener_pc, is_waiting_for_ajob, wip_q, wip, workerVars,
                 crashed, results, resultVars, lost>>

\* Variant: the flag is set only after the wait.
SetFlagLate ==
  /\ run_pc = "set_flag"
  /\ run_pc' = "wait"
  /\ UNCHANGED <<fcVars, listener_pc, is_waiting_for_ajob, wip_q, wip, workerVars,
                 crashed, results, resultVars, lost>>

SetFlag ==
  /\ run_pc = "set_flag"
  /\ is_waiting_for_ajob' = TRUE
  /\ run_pc' = "wait"
  /\ UNCHANGED <<fcVars, listener_pc, wip_q, wip, workerVars, crashed, results,
                 resultVars, lost>>

\* Acquire the lock, enter the wait set, release the lock.
Wait ==
  /\ run_pc = "wait"
  /\ run_pc' = "blocked"
  /\ UNCHANGED <<fcVars, listener_pc, is_waiting_for_ajob, wip_q, wip, workerVars,
                 crashed, results, resultVars, lost>>

\* wait() has the lock again: clear the flag and release the lock.
ClearFlag ==
  /\ run_pc = "notified"
  /\ is_waiting_for_ajob' = FALSE
  /\ run_pc' = "repop"
  /\ UNCHANGED <<fcVars, listener_pc, wip_q, wip, workerVars, crashed, results,
                 resultVars, lost>>

\* Variant: the slot is looked up and stays in the queue.
GetWipPeek ==
  /\ run_pc = "get_wip"
  /\ wip_q # <<>>
  /\ wip' = Head(wip_q)
  /\ run_pc' = "send"
  /\ UNCHANGED <<fcVars, listener_pc, is_waiting_for_ajob, wip_q, workerVars, crashed,
                 results, resultVars, lost>>

\* wip_q.get(block=True)
GetWip ==
  /\ run_pc = "get_wip"
  /\ wip_q # <<>>
  /\ wip' = Head(wip_q)
  /\ wip_q' = Tail(wip_q)
  /\ run_pc' = "send"
  /\ UNCHANGED <<fcVars, listener_pc, is_waiting_for_ajob, workerVars, crashed,
                 results, resultVars, lost>>

\* send_job_to_worker(): a new connection to the worker carries the job.
SendJob ==
  /\ run_pc = "send"
  /\ wip \notin crashed
  /\ inbox' = [inbox EXCEPT ![wip] = @ \cup {job}]
  /\ run_pc' = "pop"
  /\ UNCHANGED <<fcVars, listener_pc, is_waiting_for_ajob, wip_q, wip, job_q,
                 serving, attachVars, crashed, results, resultVars, lost>>

\* connect() fails; its error handler names errno, which commer.py does not
\* import, so the dispatcher thread dies of a NameError with the job in hand.
SendJobFails ==
  /\ run_pc = "send"
  /\ wip \in crashed
  /\ lost' = lost \cup {job}
  /\ run_pc' = "connect_failed"
  /\ UNCHANGED <<fcVars, listener_pc, is_waiting_for_ajob, wip_q, wip, workerVars,
                 crashed, results, resultVars>>

Run == RunPop \/ SetFlag \/ Wait \/ ClearFlag \/ GetWip \/ SendJob \/ SendJobFails

-----------------------------------------------------------------------------
(* Worker w: JobReqHandler threads and Worker.run.                         *)

workerFrame == <<fcVars, listener_pc, run_pc, is_waiting_for_ajob, wip_q, wip,
                 resultVars>>

Attaching(w, j) == \E next \in {"sid", "sip"} : <<w, j, next>> \in attaching

\* Variant: the handler that attached the worker puts its job once more.
PutJobTwice(w, j) ==
  /\ inbox' = [inbox EXCEPT ![w] = @ \ {j}]
  /\ job_q' = [job_q EXCEPT ![w] = Append(@, j) \o (IF Attaching(w, j) THEN <<j>> ELSE <<>>)]
  /\ UNCHANGED <<workerFrame, serving, mute, crashed, results, lost>>

PutJob(w, j) ==
  /\ inbox' = [inbox EXCEPT ![w] = @ \ {j}]
  /\ job_q' = [job_q EXCEPT ![w] = Append(@, j)]
  /\ UNCHANGED <<workerFrame, serving, mute, crashed, results, lost>>

\* Variant: only the handler that attaches the worker puts its job.
HandleJobReqDrop(w, j) ==
  /\ j \in inbox[w] /\ w \in sid /\ ~Attaching(w, j)
  /\ inbox' = [inbox EXCEPT ![w] = @ \ {j}]
  /\ UNCHANGED <<workerFrame, job_q, serving, attachVars, crashed, results, lost>>

\* handle_job_req(): a handler that finds the worker attached puts its job.
HandleJobReq(w, j) ==
  /\ j \in inbox[w] /\ w \in sid /\ ~Attaching(w, j)
  /\ PutJob(w, j)
  /\ UNCHANGED <<sid, sip, attaching>>

\* A handler that does not assigns sid, then sip, and puts its job.  Another
\* may be between the same steps, or find sid before there is sip.
FindUnattached(w, j) ==
  /\ j \in inbox[w] /\ w \notin sid /\ ~Attaching(w, j)
  /\ attaching' = attaching \cup {<<w, j, "sid">>}
  /\ UNCHANGED <<workerFrame, inbox, job_q, serving, sid, sip, mute, crashed, results, lost>>

AttachSid(w, j) ==
  /\ <<w, j, "sid">> \in attaching
  /\ sid' = sid \cup {w}
  /\ attaching' = (attaching \ {<<w, j, "sid">>}) \cup {<<w, j, "sip">>}
  /\ UNCHANGED <<workerFrame, inbox, job_q, serving, sip, mute, crashed, results, lost>>

AttachSip(w, j) ==
  /\ j \in inbox[w] /\ <<w, j, "sip">> \in attaching
  /\ sip' = sip \cup {w}
  /\ attaching' = attaching \ {<<w, j, "sip">>}
  /\ PutJob(w, j)
  /\ UNCHANGED sid

JobReqHandler(w) ==
  \E j \in inbox[w] :
    HandleJobReq(w, j) \/ FindUnattached(w, j) \/ AttachSid(w, j) \/ AttachSip(w, j)

\* Variant: the job is served and stays in the queue.
ServePeek(w) ==
  /\ serving[w] = None /\ w \notin mute
  /\ job_q[w] # <<>>
  /\ serving' = [serving EXCEPT ![w] = Head(job_q[w])]
  /\ UNCHANGED <<workerFrame, inbox, job_q, attachVars, crashed, results, lost>>

Serve(w) ==
  /\ serving[w] = None /\ w \notin mute
  /\ job_q[w] # <<>>
  /\ serving' = [serving EXCEPT ![w] = Head(job_q[w])]
  /\ job_q' = [job_q EXCEPT ![w] = Tail(@)]
  /\ UNCHANGED <<workerFrame, inbox, attachVars, crashed, results, lost>>

\* The job's service time has passed: send_result_to_server().
SendResult(w) ==
  /\ serving[w] # None /\ w \in sip
  /\ results' = results \cup {<<w, serving[w]>>}
  /\ serving' = [serving EXCEPT ![w] = None]
  /\ UNCHANGED <<workerFrame, inbox, job_q, attachVars, crashed, lost>>

\* A handler has set sid and not yet sip: connect() to the address None raises,
\* and the serving thread dies with its job.  The process goes on taking jobs.
SendResultFails(w) ==
  /\ serving[w] # None /\ w \notin sip
  /\ serving' = [serving EXCEPT ![w] = None]
  /\ lost' = lost \cup {serving[w]}
  /\ mute' = mute \cup {w}
  /\ UNCHANGED <<workerFrame, inbox, job_q, sid, sip, attaching, crashed, results>>

JobsAt(w) == inbox[w] \cup ToSet(job_q[w]) \cup ({serving[w]} \ {None})

\* The worker process stops; nobody restarts it at its address.
Crash(w) ==
  /\ w \notin crashed
  /\ Cardinality(crashed) < MaxCrashes
  /\ crashed' = crashed \cup {w}
  /\ lost' = lost \cup JobsAt(w)
  /\ inbox' = [inbox EXCEPT ![w] = {}]
  /\ job_q' = [job_q EXCEPT ![w] = <<>>]
  /\ serving' = [serving EXCEPT ![w] = None]
  /\ attaching' = {a \in attaching : a[1] # w}
  /\ UNCHANGED <<workerFrame, sid, sip, mute, results>>

Worker(w) == JobReqHandler(w) \/ Serve(w) \/ SendResult(w) \/ SendResultFails(w)

-----------------------------------------------------------------------------
(* A handler thread of the result server: handle_result().                 *)

handlerFrame == <<fcVars, listener_pc, run_pc, is_waiting_for_ajob, wip,
                  workerVars, crashed, lost>>

\* Variant: the slot the dispatcher took last goes back.
ReturnLastSlot(w, j) ==
  /\ <<w, j>> \in results
  /\ results' = results \ {<<w, j>>}
  /\ wip_q' = Append(wip_q, wip)
  /\ handling' = handling \cup {[job |-> j, share |-> None]}
  /\ finished' = finished \cup {j}
  /\ UNCHANGED <<handlerFrame, settled>>

\* The slot goes back first.
ReturnSlot(w, j) ==
  /\ <<w, j>> \in results
  /\ results' = results \ {<<w, j>>}
  /\ wip_q' = Append(wip_q, w)
  /\ handling' = handling \cup {[job |-> j, share |-> None]}
  /\ finished' = finished \cup {j}
  /\ UNCHANGED <<handlerFrame, settled>>

\* result.num_server_fair_share = len(self.fc_server.cid_q_m)
SetShare(h) ==
  /\ h.share = None
  /\ handling' = (handling \ {h}) \cup {[h EXCEPT !.share = Cardinality(Registered)]}
  /\ UNCHANGED <<handlerFrame, results, wip_q, finished, settled>>

\* The reply is sent, or the send raises because the client has left: the
\* handler thread ends either way.
Reply(h) ==
  /\ h.share # None
  /\ handling' = handling \ {h}
  /\ settled' = settled \cup {h.job}
  /\ UNCHANGED <<handlerFrame, results, wip_q, finished>>

HandleResult ==
  \/ \E r \in results : ReturnSlot(r[1], r[2])
  \/ \E h \in handling : SetShare(h) \/ Reply(h)

-----------------------------------------------------------------------------
SNext ==
  \/ \E c \in Clients : Listener(c)
  \/ Run
  \/ \E w \in Workers : Worker(w) \/ Crash(w)
  \/ HandleResult

\* The threads run.  When a client sends its next job is its own business:
\* HandlePush and the first step of reg() are not fair.
Fairness ==
  /\ WF_serverVars(Run)
  /\ \A c \in Clients : WF_serverVars(CheckFlag(c) \/ Notify(c))
  /\ \A w \in Workers : /\ WF_serverVars(JobReqHandler(w))
                        /\ WF_serverVars(Serve(w) \/ SendResult(w) \/ SendResultFails(w))
  /\ WF_serverVars(HandleResult)

SSpec == SInit /\ [][SNext]_serverVars /\ Fairness

-----------------------------------------------------------------------------
ServerTypeOK ==
  /\ listener_pc \in [Clients -> {"handle", "check", "notify"}]
  /\ run_pc \in {"pop", "set_flag", "wait", "blocked", "notified", "repop", "get_wip",
                 "send", "index_error", "asserted", "connect_failed"}
  /\ is_waiting_for_ajob \in BOOLEAN
  /\ wip_q \in Seq(Workers)
  /\ wip \in Workers \cup {None}
  /\ inbox \in [Workers -> SUBSET Jobs]
  /\ job_q \in [Workers -> Seq(Jobs)]
  /\ serving \in [Workers -> Jobs \cup {None}]
  /\ sid \subseteq Workers /\ sip \subseteq Workers
  /\ attaching \subseteq Workers \X Jobs \X {"sid", "sip"}
  /\ mute \subseteq Workers /\ crashed \subseteq Workers
  /\ results \subseteq Workers \X Jobs
  /\ handling \subseteq [job : Jobs, share : 1..Cardinality(Clients) \cup {None}]
  /\ finished \subseteq Jobs /\ settled \subseteq Jobs /\ lost \subseteq Jobs

FreeSlots(w) == Occurrences(w, wip_q)

Held == IF run_pc \in {"get_wip", "send"} THEN {job} ELSE {}

\* Jobs that occupy a slot of worker w.
Load(w) ==
  (IF run_pc = "send" /\ wip = w THEN 1 ELSE 0)
    + Cardinality(inbox[w]) + Len(job_q[w]) + Cardinality({serving[w]} \ {None})
    + Cardinality({r \in results : r[1] = w})

\* The slots of a worker are either in wip_q or taken by a job on its way
\* through the worker: handle_result() returns every slot, once, and the
\* dispatcher never sends a worker more than max_num_jobs_per_worker jobs.
\* Slots are lost with a worker that crashes, and one with a serving thread that
\* dies, the slot of the job it had; never gained.
SlotConservation ==
  \A w \in Workers :
    IF w \in crashed
    THEN FreeSlots(w) + Load(w) <= SlotsPerWorker
    ELSE FreeSlots(w) + Load(w) = SlotsPerWorker - (IF w \in mute THEN 1 ELSE 0)

Places == ({"dispatcher", "finished", "lost"} \X {None}) \cup ({"worker"} \X Workers)

ContentsOf(p) ==
  CASE p[1] = "dispatcher" -> Held
    [] p[1] = "finished" -> finished
    [] p[1] = "lost" -> lost
    [] p[1] = "worker" -> JobsAt(p[2]) \cup {r[2] : r \in {s \in results : s[1] = p[2]}}

\* A job that left its queue is in exactly one place: in the hands of the
\* dispatcher, at one worker or on the way from it, finished, or lost with a
\* worker or its serving thread.  No interleaving of the threads drops or doubles
\* a job.
JobAccounting ==
  \A c \in Clients : \A i \in 1..popped[c] :
    Cardinality({p \in Places : JobOf(c, i) \in ContentsOf(p)}) = 1

\* A put() always wakes a dispatcher that is in the wait set when the flag is
\* read: the wakeup is lost only if the job comes before the dispatcher waits.
PutWakesDispatcher ==
  \A c \in Clients :
    (run_pc = "blocked" /\ listener_pc[c] = "check") ~> (run_pc # "blocked")

\* Every job that leaves its queue is answered unless a worker crashes or its
\* serving thread dies: the dispatcher does not wait for a slot forever and no
\* result gets stuck.
PoppedJobIsAnswered ==
  \A c \in Clients : \A i \in 1..MaxJobs :
    (popped[c] >= i) ~> (JobOf(c, i) \in settled \/ crashed \cup mute # {})

-----------------------------------------------------------------------------
(* Refinement: the jobs between their slot being taken and returned are    *)
(* the running jobs of JobService.                                         *)

Running ==
  (IF run_pc = "send" THEN {job} ELSE {})
    \cup (UNION {JobsAt(w) : w \in Workers}) \cup {r[2] : r \in results}

\* A job the dispatcher holds without a slot has not started.
Started == [c \in Clients |->
              popped[c] - (IF run_pc = "get_wip" /\ job.cid = c THEN 1 ELSE 0)]

Promise == INSTANCE JobService
  WITH Capacity <- Cardinality(Workers) * SlotsPerWorker,
       received <- pushed, started <- Started, running <- Running

\* The threads of the master and its workers implement JobService: jobs of a
\* client start in order, at most once, never more than there are slots, and
\* are answered after they ran.
ImplementsJobService == Promise!Spec

-----------------------------------------------------------------------------
(* What comments, assertions and notes of the repository say.              *)

\* server.py: check(job is not None, "A job must have arrived").
AJobMustHaveArrived == run_pc # "asserted"

DispatcherDied == run_pc \in {"index_error", "asserted", "connect_failed"}

\* The notes: "Whenever a worker becomes idle, the next busy client queue is
\* served."  A queued job leaves its queue, or the dispatcher has died.
BusyQueueIsServed ==
  \A c \in Clients : \A i \in 1..MaxJobs :
    (pushed[c] >= i) ~> (popped[c] >= i \/ DispatcherDied)
=============================================================================
