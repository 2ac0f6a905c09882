------------------------------ MODULE ConnSetup ------------------------------
(***************************************************************************)
(* How a client and a master set up their two connections (commer.py).     *)
(*                                                                         *)
(* The client starts a thread that will listen on a port of its own, and   *)
(* sends that port to the master.  A handler thread of the master starts a *)
(* thread that will listen on the master's next port, connects to the      *)
(* client's port, and replies with the next port; the client connects to   *)
(* it.  Each side connects to a port that a thread of the other side is    *)
(* about to open, and handler threads share the counter of ports.          *)
(*                                                                         *)
(* A connect() that is refused raises; connect() names errno, which is not *)
(* imported, so its thread ends by a NameError.  A client whose handler    *)
(* ended reads end-of-file from recv() in a loop that never ends.          *)
(***************************************************************************)
EXTENDS Naturals, Sequences, FiniteSets

CONSTANTS Clients,    \* client ids
          FirstPort,  \* port_to_listen_next_client at the start, 5001
          None

ASSUME ClientsAssumption == IsFiniteSet(Clients) /\ None \notin Clients
ASSUME PortAssumption == FirstPort \in Nat /\ None \notin Nat

VARIABLES
  assigned,      \* of cid_sock_m and cid_addr_m, what the master's constructor has assigned
  cid_sock_m,    \* clients the master has a connection to
  port_to_listen_next_client,
  client_pc,     \* client: "start", "request", "await", "connect", "done",
                 \*         "refused" or "spin"
  client_lsn,    \* client's listener: "none", "spawned", "listening", "reading"
  handler_pc,    \* client's handler thread in the master: "none", "spawn", "dial",
                 \* "port", "incr", "incr_write", "reply", "done" or "failed"
  reply_port,    \* client -> port in the reply to it, or None
  port_read,     \* client -> port its handler read for the increment
  server_lsn,    \* client -> the thread that listens for it: "none", "spawned",
                 \*           "listening", "reading" or "bind_failed"
  lsn_port,      \* client -> port of that thread, or None
  backlog,       \* client -> connections that wait at that thread's socket
  reads,         \* client -> whose connection that thread reads, or None
  overlapped,    \* history: have two handlers been active at once?
  dialed_early   \* history: clients for which a port was called before its thread
                 \* listened, or before the constructor had ended

masterVars == <<assigned, cid_sock_m, port_to_listen_next_client>>
handlerVars == <<handler_pc, reply_port, port_read>>
listenerVars == <<server_lsn, lsn_port, backlog, reads>>
historyVars == <<overlapped, dialed_early>>
connVars == <<masterVars, client_pc, client_lsn, handlerVars, listenerVars, historyVars>>

ConnInit ==
  /\ assigned = {}
  /\ cid_sock_m = {}
  /\ port_to_listen_next_client = FirstPort
  /\ client_pc = [c \in Clients |-> "start"]
  /\ client_lsn = [c \in Clients |-> "none"]
  /\ handler_pc = [c \in Clients |-> "none"]
  /\ reply_port = [c \in Clients |-> None]
  /\ port_read = [c \in Clients |-> None]
  /\ server_lsn = [c \in Clients |-> "none"]
  /\ lsn_port = [c \in Clients |-> None]
  /\ backlog = [c \in Clients |-> <<>>]
  /\ reads = [c \in Clients |-> None]
  /\ overlapped = FALSE
  /\ dialed_early = {}

Active(c) == handler_pc[c] \notin {"none", "done", "failed"}

-----------------------------------------------------------------------------
(* The master's constructor, after its request server has begun to serve.  *)

Construct ==
  /\ \/ assigned = {} /\ assigned' = {"cid_sock_m"}
     \/ assigned = {"cid_sock_m"} /\ assigned' = {"cid_sock_m", "cid_addr_m"}
  /\ UNCHANGED <<cid_sock_m, port_to_listen_next_client, client_pc, client_lsn,
                 handlerVars, listenerVars, historyVars>>

-----------------------------------------------------------------------------
(* Client c: connect_to_server and its listener thread.                    *)

SpawnClientListener(c) ==
  /\ client_pc[c] = "start"
  /\ client_pc' = [client_pc EXCEPT ![c] = "request"]
  /\ client_lsn' = [client_lsn EXCEPT ![c] = "spawned"]
  /\ UNCHANGED <<masterVars, handlerVars, listenerVars, historyVars>>

\* bind_get_sock() up to listen(); the port is the client's own.
ClientListen(c) ==
  /\ client_lsn[c] = "spawned"
  /\ client_lsn' = [client_lsn EXCEPT ![c] = "listening"]
  /\ UNCHANGED <<masterVars, client_pc, handlerVars, listenerVars, historyVars>>

\* The connection request; the master's request server starts a handler thread.
Request(c) ==
  /\ client_pc[c] = "request"
  /\ client_pc' = [client_pc EXCEPT ![c] = "await"]
  /\ handler_pc' = [handler_pc EXCEPT ![c] = "spawn"]
  /\ overlapped' = (overlapped \/ \E d \in Clients : Active(d))
  /\ UNCHANGED <<masterVars, client_lsn, reply_port, port_read, listenerVars,
                 dialed_early>>

\* The reply has come.
RecvReply(c) ==
  /\ client_pc[c] = "await" /\ handler_pc[c] = "done"
  /\ client_pc' = [client_pc EXCEPT ![c] = "connect"]
  /\ UNCHANGED <<masterVars, client_lsn, handlerVars, listenerVars, historyVars>>

\* The handler has ended without a reply, and recv_size() spins.
RecvNothing(c) ==
  /\ client_pc[c] = "await" /\ handler_pc[c] = "failed"
  /\ client_pc' = [client_pc EXCEPT ![c] = "spin"]
  /\ UNCHANGED <<masterVars, client_lsn, handlerVars, listenerVars, historyVars>>

ListensOn(d, port) == server_lsn[d] = "listening" /\ lsn_port[d] = port

\* connect() to the port of the reply.
Connect(c) ==
  /\ client_pc[c] = "connect"
  /\ \/ \E d \in Clients :
          /\ ListensOn(d, reply_port[c])
          /\ backlog' = [backlog EXCEPT ![d] = Append(@, c)]
          /\ client_pc' = [client_pc EXCEPT ![c] = "done"]
          /\ UNCHANGED dialed_early
     \/ /\ \A d \in Clients : ~ListensOn(d, reply_port[c])
        /\ client_pc' = [client_pc EXCEPT ![c] = "refused"]
        /\ dialed_early' = IF server_lsn[c] = "spawned" THEN dialed_early \cup {c}
                           ELSE dialed_early
        /\ UNCHANGED backlog
  /\ UNCHANGED <<masterVars, client_lsn, handlerVars, server_lsn, lsn_port, reads,
                 overlapped>>

Client(c) == SpawnClientListener(c) \/ Request(c) \/ RecvReply(c) \/ RecvNothing(c) \/ Connect(c)

-----------------------------------------------------------------------------
(* Handler thread of the master for client c: handle_conn_req.             *)

HandlerStep(c, from, to) ==
  /\ handler_pc[c] = from
  /\ handler_pc' = [handler_pc EXCEPT ![c] = to]
  /\ UNCHANGED <<assigned, client_pc, overlapped>>

\* The port is read when the thread is created.
SpawnServerListener(c) ==
  /\ HandlerStep(c, "spawn", "dial")
  /\ server_lsn' = [server_lsn EXCEPT ![c] = "spawned"]
  /\ lsn_port' = [lsn_port EXCEPT ![c] = port_to_listen_next_client]
  /\ UNCHANGED <<cid_sock_m, port_to_listen_next_client, client_lsn, reply_port,
                 port_read, backlog, reads, dialed_early>>

\* Variant: the connection is not recorded.
DialUnrecorded(c) ==
  /\ HandlerStep(c, "dial", "port")
  /\ "cid_addr_m" \in assigned /\ client_lsn[c] = "listening"
  /\ client_lsn' = [client_lsn EXCEPT ![c] = "reading"]
  /\ UNCHANGED <<cid_sock_m, port_to_listen_next_client, reply_port, port_read,
                 listenerVars, dialed_early>>

\* connect() to the client's port; the client's listener accepts.
Dial(c) ==
  /\ HandlerStep(c, "dial", "port")
  /\ "cid_addr_m" \in assigned /\ client_lsn[c] = "listening"
  /\ client_lsn' = [client_lsn EXCEPT ![c] = "reading"]
  /\ cid_sock_m' = cid_sock_m \cup {c}
  /\ UNCHANGED <<port_to_listen_next_client, reply_port, port_read, listenerVars,
                 dialed_early>>

\* The connection is refused, or a map to put it in is not there; then the
\* client's listener has accepted a connection that is dropped, or that is kept
\* in cid_sock_m without an address.
DialFails(c) ==
  /\ HandlerStep(c, "dial", "failed")
  /\ "cid_addr_m" \notin assigned \/ client_lsn[c] = "spawned"
  /\ client_lsn' = IF client_lsn[c] = "listening"
                   THEN [client_lsn EXCEPT ![c] = "reading"] ELSE client_lsn
  /\ cid_sock_m' = IF client_lsn[c] = "listening" /\ "cid_sock_m" \in assigned
                   THEN cid_sock_m \cup {c} ELSE cid_sock_m
  /\ dialed_early' = dialed_early \cup {c}
  /\ UNCHANGED <<port_to_listen_next_client, reply_port, port_read, listenerVars>>

\* Variant: the counter has moved when the port of the reply is read.
ReadReplyPortNext(c) ==
  /\ HandlerStep(c, "port", "incr")
  /\ reply_port' = [reply_port EXCEPT ![c] = port_to_listen_next_client + 1]
  /\ UNCHANGED <<cid_sock_m, port_to_listen_next_client, client_lsn, port_read,
                 listenerVars, dialed_early>>

\* The port of the reply is read a second time.
ReadReplyPort(c) ==
  /\ HandlerStep(c, "port", "incr")
  /\ reply_port' = [reply_port EXCEPT ![c] = port_to_listen_next_client]
  /\ UNCHANGED <<cid_sock_m, port_to_listen_next_client, client_lsn, port_read,
                 listenerVars, dialed_early>>

\* port_to_listen_next_client += 1 is a read and a write.
ReadPort(c) ==
  /\ HandlerStep(c, "incr", "incr_write")
  /\ port_read' = [port_read EXCEPT ![c] = port_to_listen_next_client]
  /\ UNCHANGED <<cid_sock_m, port_to_listen_next_client, client_lsn, reply_port,
                 listenerVars, dialed_early>>

WritePort(c) ==
  /\ HandlerStep(c, "incr_write", "reply")
  /\ port_to_listen_next_client' = port_read[c] + 1
  /\ UNCHANGED <<cid_sock_m, client_lsn, reply_port, port_read, listenerVars,
                 dialed_early>>

SendReply(c) ==
  /\ HandlerStep(c, "reply", "done")
  /\ UNCHANGED <<cid_sock_m, port_to_listen_next_client, client_lsn, reply_port,
                 port_read, listenerVars, dialed_early>>

Handler(c) == \/ SpawnServerListener(c) \/ Dial(c) \/ DialFails(c) \/ ReadReplyPort(c)
              \/ ReadPort(c) \/ WritePort(c) \/ SendReply(c)

-----------------------------------------------------------------------------
(* The thread of the master that listens for client c.                     *)

InUse(port) ==
  \E d \in Clients : server_lsn[d] \in {"listening", "reading"} /\ lsn_port[d] = port

\* bind() fails while another thread's socket, or its connection, has the port.
ServerListen(c) ==
  /\ server_lsn[c] = "spawned"
  /\ server_lsn' = [server_lsn EXCEPT ![c] =
                      IF InUse(lsn_port[c]) THEN "bind_failed" ELSE "listening"]
  /\ UNCHANGED <<masterVars, client_pc, client_lsn, handlerVars, lsn_port, backlog,
                 reads, historyVars>>

\* accept() takes the first connection; bind_get_sock() returns and the
\* listening socket is closed, with the connections that still wait.
Accept(c) ==
  /\ server_lsn[c] = "listening" /\ backlog[c] # <<>>
  /\ server_lsn' = [server_lsn EXCEPT ![c] = "reading"]
  /\ reads' = [reads EXCEPT ![c] = Head(backlog[c])]
  /\ backlog' = [backlog EXCEPT ![c] = <<>>]
  /\ UNCHANGED <<masterVars, client_pc, client_lsn, handlerVars, lsn_port, historyVars>>

-----------------------------------------------------------------------------
ConnNext ==
  \/ Construct
  \/ \E c \in Clients : Client(c) \/ ClientListen(c) \/ Handler(c)
                          \/ ServerListen(c) \/ Accept(c)

\* The threads run.
ConnSpec ==
  /\ ConnInit /\ [][ConnNext]_connVars
  /\ WF_connVars(Construct)
  /\ \A c \in Clients : /\ WF_connVars(Client(c)) /\ WF_connVars(ClientListen(c))
                        /\ WF_connVars(Handler(c))
                        /\ WF_connVars(ServerListen(c)) /\ WF_connVars(Accept(c))

-----------------------------------------------------------------------------
ConnTypeOK ==
  /\ assigned \subseteq {"cid_sock_m", "cid_addr_m"}
  /\ cid_sock_m \subseteq Clients
  /\ port_to_listen_next_client \in Nat
  /\ client_pc \in [Clients -> {"start", "request", "await", "connect", "done",
                                "refused", "spin"}]
  /\ client_lsn \in [Clients -> {"none", "spawned", "listening", "reading"}]
  /\ handler_pc \in [Clients -> {"none", "spawn", "dial", "port", "incr", "incr_write",
                                 "reply", "done", "failed"}]
  /\ reply_port \in [Clients -> Nat \cup {None}]
  /\ port_read \in [Clients -> Nat \cup {None}]
  /\ server_lsn \in [Clients -> {"none", "spawned", "listening", "reading", "bind_failed"}]
  /\ lsn_port \in [Clients -> Nat \cup {None}]
  /\ backlog \in [Clients -> Seq(Clients)]
  /\ reads \in [Clients -> Clients \cup {None}]
  /\ overlapped \in BOOLEAN /\ dialed_early \subseteq Clients

\* server.py replies to a client whose messages it reads, and checks that
\* it "Should have been connected to client": the connection back exists
\* before any message of the client can be read, on whichever thread.
HeardClientIsConnected ==
  \A c, d \in Clients : reads[d] = c => c \in cid_sock_m

\* Requests that are handled one after the other, by handlers that do not fail,
\* get ports of their own, and each client is told the port of the thread that
\* listens for it.
PortsMatchUnlessRaced ==
  ~overlapped /\ dialed_early = {} =>
    \A c \in Clients :
      /\ reply_port[c] # None => reply_port[c] = lsn_port[c]
      /\ \A d \in Clients \ {c} : lsn_port[c] # None => lsn_port[c] # lsn_port[d]

Heard(c) == \E d \in Clients : reads[d] = c

\* The races named in this module are the only ones, and a port that is called
\* too early harms only the client it is called for, which is left refused or
\* spinning: unless requests overlap every other client that sends its request is
\* heard, even on the port that a failed handler has left behind.
RequestIsHeard ==
  \A c \in Clients :
    client_pc[c] = "await" ~>
      \/ Heard(c) \/ overlapped
      \/ c \in dialed_early /\ client_pc[c] \in {"refused", "spin"}

\* The notes: "Clients connect to the Master through a persistent TCP
\* connection."  The connection of a client that is done waits at a listening
\* socket or is read.
ConnectionIsPersistent ==
  \A c \in Clients : client_pc[c] = "done" =>
    \E d \in Clients : reads[d] = c \/ c \in {backlog[d][i] : i \in DOMAIN backlog[d]}
=============================================================================
