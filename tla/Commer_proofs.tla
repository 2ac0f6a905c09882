---------------------------- MODULE Commer_proofs ----------------------------
(***************************************************************************)
(* Proofs about the two parts of commer.py that are modelled on their own: *)
(* ConnSetup, for every set of clients and every first port, and Framing,  *)
(* for all threads, sizes of messages and of packets.                      *)
(***************************************************************************)
EXTENDS ConnSetup, Framing, FiniteSetTheorems, SequenceTheorems, TLAPS

-----------------------------------------------------------------------------
(* ConnSetup.                                                              *)

\* The types; a client has no handler before its request, and a handler that is
\* about to write the counter has read it.
ConnTypeInv ==
  /\ ConnTypeOK
  /\ \A c \in Clients : client_pc[c] \in {"start", "request"} => handler_pc[c] = "none"
  /\ \A c \in Clients : handler_pc[c] = "incr_write" => port_read[c] \in Nat

\* What is known about the connection back to a client grows along one path:
\* the handler is past its dial, the client has the reply, the client's own
\* connection waits, it is read.
ConnectedBack ==
  /\ \A c \in Clients :
       handler_pc[c] \in {"port", "incr", "incr_write", "reply", "done"} => c \in cid_sock_m
  /\ \A c \in Clients : client_pc[c] = "connect" => c \in cid_sock_m
  /\ \A c, d \in Clients : \A i \in DOMAIN backlog[d] : backlog[d][i] = c => c \in cid_sock_m

HeardInv == ConnTypeInv /\ ConnectedBack /\ HeardClientIsConnected

\* While no two handlers overlap, the counter is the port of the handler that
\* is before its increment, and above all ports given out before.
PortsOf(c) ==
  /\ handler_pc[c] \in {"none", "spawn"} => lsn_port[c] = None /\ reply_port[c] = None
  /\ handler_pc[c] \in {"dial", "port"} =>
       lsn_port[c] = port_to_listen_next_client /\ reply_port[c] = None
  /\ handler_pc[c] \in {"incr", "incr_write"} =>
       /\ lsn_port[c] = port_to_listen_next_client
       /\ reply_port[c] = port_to_listen_next_client
  /\ handler_pc[c] = "incr_write" => port_read[c] = port_to_listen_next_client
  /\ handler_pc[c] \in {"reply", "done"} =>
       /\ lsn_port[c] \in Nat /\ lsn_port[c] < port_to_listen_next_client
       /\ reply_port[c] = lsn_port[c]
  /\ handler_pc[c] # "failed"

OneHandler == \A c, d \in Clients : Active(c) /\ Active(d) => c = d

PortsDiffer ==
  \A c \in Clients : \A d \in Clients \ {c} :
    lsn_port[c] # None => lsn_port[c] # lsn_port[d]

PortsInv ==
  ~overlapped /\ dialed_early = {} =>
    OneHandler /\ PortsDiffer /\ \A c \in Clients : PortsOf(c)

-----------------------------------------------------------------------------
(* Types.                                                                  *)

LEMMA ConnInitType == ConnInit => ConnTypeInv
<1> SUFFICES ASSUME ConnInit PROVE ConnTypeInv
  OBVIOUS
<1>1. <<>> \in Seq(Clients)
  BY EmptySeq
<1>2. ConnTypeOK
  BY <1>1, PortAssumption DEF ConnInit, ConnTypeOK
<1> QED
  BY <1>2 DEF ConnInit, ConnTypeInv

LEMMA ConnectType ==
  ASSUME ConnTypeInv, NEW c \in Clients, Connect(c)
  PROVE  ConnTypeInv'
<1>1. /\ \E pc \in {"done", "refused"} : client_pc' = [client_pc EXCEPT ![c] = pc]
      /\ \/ UNCHANGED backlog
         \/ \E d \in Clients : backlog' = [backlog EXCEPT ![d] = Append(@, c)]
      /\ dialed_early \subseteq Clients => dialed_early' \subseteq Clients
      /\ UNCHANGED <<masterVars, handlerVars, client_lsn, server_lsn, lsn_port, reads,
                     overlapped>>
  BY DEF Connect
<1>2. backlog \in [Clients -> Seq(Clients)] /\ dialed_early \subseteq Clients
  BY DEF ConnTypeInv, ConnTypeOK
<1>3. \A d \in Clients : Append(backlog[d], c) \in Seq(Clients)
  BY <1>2, AppendProperties
<1>4. backlog' \in [Clients -> Seq(Clients)]
  <2>1. CASE UNCHANGED backlog
    BY <1>2, <2>1
  <2>2. ASSUME NEW d \in Clients, backlog' = [backlog EXCEPT ![d] = Append(@, c)]
        PROVE  backlog' \in [Clients -> Seq(Clients)]
    BY <1>2, <1>3, <2>2
  <2> QED BY <1>1, <2>1, <2>2
<1>5. dialed_early' \subseteq Clients
  BY <1>1, <1>2
<1>6. client_pc' \in [Clients -> {"start", "request", "await", "connect", "done",
                                     "refused", "spin"}]
  BY <1>1 DEF ConnTypeInv, ConnTypeOK
<1>7. \A d \in Clients : client_pc'[d] \in {"start", "request"} => handler_pc[d] = "none"
  BY <1>1 DEF ConnTypeInv, ConnTypeOK
<1> QED
  BY <1>1, <1>4, <1>5, <1>6, <1>7 DEF ConnTypeInv, ConnTypeOK, masterVars, handlerVars

LEMMA ConnTypeStep == ConnTypeInv /\ [ConnNext]_connVars => ConnTypeInv'
<1> SUFFICES ASSUME ConnTypeInv, [ConnNext]_connVars PROVE ConnTypeInv'
  OBVIOUS
<1> USE DEF ConnTypeInv, ConnTypeOK, masterVars, handlerVars, listenerVars, historyVars
<1>1. CASE Construct
  BY <1>1 DEF Construct
<1>2. ASSUME NEW c \in Clients, Client(c)
      PROVE  ConnTypeInv'
  <2>1. CASE SpawnClientListener(c) BY <2>1 DEF SpawnClientListener
  <2>2. CASE Request(c) BY <2>2 DEF Request, Active
  <2>3. CASE RecvReply(c) BY <2>3 DEF RecvReply
  <2>4. CASE RecvNothing(c) BY <2>4 DEF RecvNothing
  <2>5. CASE Connect(c) BY <2>5, ConnectType
  <2> QED BY <1>2, <2>1, <2>2, <2>3, <2>4, <2>5 DEF Client
<1>3. ASSUME NEW c \in Clients, ClientListen(c)
      PROVE  ConnTypeInv'
  BY <1>3 DEF ClientListen
<1>4. ASSUME NEW c \in Clients, Handler(c)
      PROVE  ConnTypeInv'
  <2> USE DEF HandlerStep
  <2>1. CASE SpawnServerListener(c) BY <2>1 DEF SpawnServerListener
  <2>2. CASE Dial(c) BY <2>2 DEF Dial
  <2>3. CASE DialFails(c) BY <2>3 DEF DialFails
  <2>4. CASE ReadReplyPort(c) BY <2>4 DEF ReadReplyPort
  <2>5. CASE ReadPort(c) BY <2>5 DEF ReadPort
  <2>6. CASE WritePort(c) BY <2>6 DEF WritePort
  <2>7. CASE SendReply(c) BY <2>7 DEF SendReply
  <2> QED BY <1>4, <2>1, <2>2, <2>3, <2>4, <2>5, <2>6, <2>7 DEF Handler
<1>5. ASSUME NEW c \in Clients, ServerListen(c)
      PROVE  ConnTypeInv'
  BY <1>5 DEF ServerListen
<1>6. ASSUME NEW c \in Clients, Accept(c)
      PROVE  ConnTypeInv'
  <2>1. Head(backlog[c]) \in Clients /\ <<>> \in Seq(Clients)
    BY <1>6, HeadTailProperties, EmptySeq DEF Accept
  <2> QED BY <1>6, <2>1 DEF Accept
<1>7. CASE UNCHANGED connVars
  BY <1>7 DEF connVars
<1> QED
  BY <1>1, <1>2, <1>3, <1>4, <1>5, <1>6, <1>7 DEF ConnNext

-----------------------------------------------------------------------------
(* The connection back.                                                    *)

LEMMA HeardStep ==
  HeardInv /\ [ConnNext]_connVars => ConnectedBack' /\ HeardClientIsConnected'
<1> SUFFICES ASSUME HeardInv, [ConnNext]_connVars
             PROVE  ConnectedBack' /\ HeardClientIsConnected'
  OBVIOUS
<1> USE DEF HeardInv, ConnTypeInv, ConnTypeOK, ConnectedBack, HeardClientIsConnected,
            masterVars, handlerVars, listenerVars, historyVars
<1>1. CASE Construct
  BY <1>1 DEF Construct
<1>2. ASSUME NEW c \in Clients, Client(c)
      PROVE  ConnectedBack' /\ HeardClientIsConnected'
  <2>1. CASE SpawnClientListener(c) BY <2>1 DEF SpawnClientListener
  <2>2. CASE Request(c) BY <2>2 DEF Request
  <2>3. CASE RecvReply(c) BY <2>3 DEF RecvReply
  <2>4. CASE RecvNothing(c) BY <2>4 DEF RecvNothing
  <2>5. CASE Connect(c)
    <3>1. c \in cid_sock_m /\ cid_sock_m' = cid_sock_m
          /\ handler_pc' = handler_pc /\ reads' = reads
      BY <2>5 DEF Connect
    <3>2. \A d \in Clients : client_pc'[d] = "connect" => client_pc[d] = "connect"
      BY <2>5 DEF Connect
    <3>3. ASSUME NEW d \in Clients, NEW i \in DOMAIN backlog'[d], backlog'[d][i] \in Clients
          PROVE  backlog'[d][i] \in cid_sock_m
      <4>1. CASE backlog' = backlog BY <3>3, <4>1
      <4>2. ASSUME NEW e \in Clients, backlog' = [backlog EXCEPT ![e] = Append(@, c)]
            PROVE  backlog'[d][i] \in cid_sock_m
        <5>1. CASE d = e
          <6> DEFINE q == backlog[d]
          <6>1. q \in Seq(Clients) /\ backlog'[d] = Append(q, c) BY <4>2, <5>1
          <6>2. /\ Len(Append(q, c)) = Len(q) + 1 /\ Len(q) \in Nat
                /\ \A k \in 1..Len(q) : Append(q, c)[k] = q[k]
                /\ Append(q, c)[Len(q) + 1] = c
                /\ DOMAIN Append(q, c) = 1..(Len(q) + 1) /\ DOMAIN q = 1..Len(q)
            BY <6>1, AppendProperties, LenProperties
          <6>3. \A k \in DOMAIN q : q[k] \in cid_sock_m
            BY <6>1, <6>2, ElementOfSeq
          <6> HIDE DEF q
          <6>4. i \in 1..Len(q) \/ i = Len(q) + 1 BY <3>3, <6>1, <6>2
          <6> QED BY <3>1, <6>1, <6>2, <6>3, <6>4
        <5>2. CASE d # e BY <3>3, <4>2, <5>2
        <5> QED BY <5>1, <5>2
      <4> QED BY <2>5, <4>1, <4>2 DEF Connect
    <3> QED BY <3>1, <3>2, <3>3
  <2> QED BY <1>2, <2>1, <2>2, <2>3, <2>4, <2>5 DEF Client
<1>3. ASSUME NEW c \in Clients, ClientListen(c)
      PROVE  ConnectedBack' /\ HeardClientIsConnected'
  BY <1>3 DEF ClientListen
<1>4. ASSUME NEW c \in Clients, Handler(c)
      PROVE  ConnectedBack' /\ HeardClientIsConnected'
  <2> USE DEF HandlerStep
  <2>1. CASE SpawnServerListener(c) BY <2>1 DEF SpawnServerListener
  <2>2. CASE Dial(c) BY <2>2 DEF Dial
  <2>3. CASE DialFails(c) BY <2>3 DEF DialFails
  <2>4. CASE ReadReplyPort(c) BY <2>4 DEF ReadReplyPort
  <2>5. CASE ReadPort(c) BY <2>5 DEF ReadPort
  <2>6. CASE WritePort(c) BY <2>6 DEF WritePort
  <2>7. CASE SendReply(c) BY <2>7 DEF SendReply
  <2> QED BY <1>4, <2>1, <2>2, <2>3, <2>4, <2>5, <2>6, <2>7 DEF Handler
<1>5. ASSUME NEW c \in Clients, ServerListen(c)
      PROVE  ConnectedBack' /\ HeardClientIsConnected'
  BY <1>5 DEF ServerListen
<1>6. ASSUME NEW c \in Clients, Accept(c)
      PROVE  ConnectedBack' /\ HeardClientIsConnected'
  <2>1. /\ Head(backlog[c]) \in Clients /\ 1 \in DOMAIN backlog[c]
        /\ Head(backlog[c]) = backlog[c][1]
    <3>1. backlog[c] \in Seq(Clients) /\ backlog[c] # <<>> BY <1>6 DEF Accept
    <3>2. Len(backlog[c]) # 0 /\ Len(backlog[c]) \in Nat
      BY <3>1, EmptySeq, LenProperties
    <3> QED BY <3>1, <3>2, HeadTailProperties, LenProperties
  <2>2. Head(backlog[c]) \in cid_sock_m
    BY <2>1
  <2>3. DOMAIN <<>> = {}
    OBVIOUS
  <2>4. /\ reads' = [reads EXCEPT ![c] = Head(backlog[c])]
        /\ backlog' = [backlog EXCEPT ![c] = <<>>]
        /\ UNCHANGED <<cid_sock_m, client_pc, handler_pc>>
    BY <1>6 DEF Accept
  <2>5. ConnectedBack'
    BY <2>3, <2>4
  <2>6. HeardClientIsConnected'
    BY <2>2, <2>4
  <2> QED BY <2>5, <2>6
<1>7. CASE UNCHANGED connVars
  BY <1>7 DEF connVars
<1> QED
  BY <1>1, <1>2, <1>3, <1>4, <1>5, <1>6, <1>7 DEF ConnNext

\* The master never reads a message of a client it cannot reply to: the check
\* of CommerOnServer.send_msg that it "Should have been connected to client"
\* holds for the client of every job, however the set-ups of the clients overlap.
THEOREM HeardClientsAreConnected == ConnSpec => []HeardClientIsConnected
<1>1. ConnInit => HeardInv
  BY ConnInitType, PortAssumption, ClientsAssumption
  DEF ConnInit, HeardInv, ConnectedBack, HeardClientIsConnected
<1>2. HeardInv /\ [ConnNext]_connVars => HeardInv'
  BY ConnTypeStep, HeardStep DEF HeardInv
<1> QED
  BY <1>1, <1>2, PTL DEF ConnSpec, HeardInv

-----------------------------------------------------------------------------
(* The ports.                                                              *)

LEMMA PortsStep == ConnTypeInv /\ PortsInv /\ [ConnNext]_connVars => PortsInv'
<1> SUFFICES ASSUME ConnTypeInv, PortsInv, [ConnNext]_connVars,
                    ~overlapped', dialed_early' = {}
             PROVE  OneHandler' /\ PortsDiffer' /\ \A c \in Clients : PortsOf(c)'
  BY DEF PortsInv
<1> USE DEF ConnTypeInv, ConnTypeOK, OneHandler, PortsDiffer, PortsOf, Active,
            masterVars, handlerVars, listenerVars, historyVars
<1>0. ASSUME UNCHANGED <<handler_pc, lsn_port, reply_port, port_read,
                         port_to_listen_next_client>>,
             ~overlapped /\ dialed_early = {}
      PROVE  OneHandler' /\ PortsDiffer' /\ \A c \in Clients : PortsOf(c)'
  BY <1>0 DEF PortsInv
<1>1. CASE Construct
  BY <1>0, <1>1 DEF Construct
<1>2. ASSUME NEW c \in Clients, Client(c)
      PROVE  OneHandler' /\ PortsDiffer' /\ \A d \in Clients : PortsOf(d)'
  <2>1. CASE SpawnClientListener(c) BY <1>0, <2>1 DEF SpawnClientListener
  <2>2. CASE Request(c)
    <3>1. /\ ~overlapped /\ dialed_early = {} /\ \A d \in Clients : ~Active(d)
          /\ handler_pc' = [handler_pc EXCEPT ![c] = "spawn"]
          /\ UNCHANGED <<lsn_port, reply_port, port_read, port_to_listen_next_client>>
      BY <2>2 DEF Request
    <3>2. handler_pc[c] = "none"
      BY <2>2 DEF Request
    <3>3. OneHandler /\ PortsDiffer /\ \A d \in Clients : PortsOf(d)
      BY <3>1 DEF PortsInv
    <3>4. OneHandler'
      BY <3>1
    <3>5. PortsDiffer'
      BY <3>1, <3>3
    <3>6. ASSUME NEW d \in Clients PROVE PortsOf(d)'
      BY <3>1, <3>2, <3>3
    <3> QED BY <3>4, <3>5, <3>6
  <2>3. CASE RecvReply(c) BY <1>0, <2>3 DEF RecvReply
  <2>4. CASE RecvNothing(c) BY <1>0, <2>4 DEF RecvNothing
  <2>5. CASE Connect(c) BY <1>0, <2>5 DEF Connect
  <2> QED BY <1>2, <2>1, <2>2, <2>3, <2>4, <2>5 DEF Client
<1>3. ASSUME NEW c \in Clients, ClientListen(c)
      PROVE  OneHandler' /\ PortsDiffer' /\ \A d \in Clients : PortsOf(d)'
  BY <1>0, <1>3 DEF ClientListen
<1>4. ASSUME NEW c \in Clients, Handler(c)
      PROVE  OneHandler' /\ PortsDiffer' /\ \A d \in Clients : PortsOf(d)'
  <2> USE PortAssumption DEF HandlerStep, PortsInv
  <2>1. CASE SpawnServerListener(c)
    <3>1. /\ ~overlapped /\ dialed_early = {} /\ handler_pc[c] = "spawn"
          /\ handler_pc' = [handler_pc EXCEPT ![c] = "dial"]
          /\ lsn_port' = [lsn_port EXCEPT ![c] = port_to_listen_next_client]
          /\ UNCHANGED <<reply_port, port_read, port_to_listen_next_client>>
      BY <2>1 DEF SpawnServerListener
    <3>2. ASSUME NEW d \in Clients \ {c}
          PROVE  lsn_port[d] # port_to_listen_next_client
      <4>1. handler_pc[d] \in {"none", "done"} BY <3>1
      <4>2. CASE handler_pc[d] = "none"
        <5>1. lsn_port[d] = None BY <3>1, <4>2
        <5> QED BY <5>1
      <4>3. CASE handler_pc[d] = "done"
        <5>1. lsn_port[d] \in Nat /\ lsn_port[d] < port_to_listen_next_client
          BY <3>1, <4>3
        <5> QED BY <5>1
      <4> QED BY <4>1, <4>2, <4>3
    <3>3. OneHandler'
      BY <3>1
    <3>4. PortsDiffer'
      BY <3>1, <3>2
    <3>5. ASSUME NEW d \in Clients PROVE PortsOf(d)'
      BY <3>1
    <3> QED BY <3>3, <3>4, <3>5
  <2>2. CASE Dial(c) BY <2>2 DEF Dial
  <2>3. CASE DialFails(c) BY <2>3 DEF DialFails
  <2>4. CASE ReadReplyPort(c) BY <2>4 DEF ReadReplyPort
  <2>5. CASE ReadPort(c) BY <2>5 DEF ReadPort
  <2>6. CASE WritePort(c)
    <3>1. /\ ~overlapped /\ dialed_early = {} /\ handler_pc[c] = "incr_write"
          /\ handler_pc' = [handler_pc EXCEPT ![c] = "reply"]
          /\ port_to_listen_next_client' = port_to_listen_next_client + 1
          /\ UNCHANGED <<reply_port, lsn_port, port_read>>
      BY <2>6 DEF WritePort
    <3>2. OneHandler' /\ PortsDiffer'
      BY <3>1
    <3>3. ASSUME NEW d \in Clients PROVE PortsOf(d)'
      <4>1. CASE d = c BY <3>1, <4>1
      <4>2. CASE d # c
        <5>0. Active(c) BY <3>1
        <5>1. ~Active(d) BY <3>1, <4>2, <5>0
        <5>2. handler_pc'[d] = handler_pc[d] BY <3>1, <4>2
        <5> QED BY <3>1, <5>1, <5>2
      <4> QED BY <4>1, <4>2
    <3> QED BY <3>2, <3>3
  <2>7. CASE SendReply(c) BY <2>7 DEF SendReply
  <2> QED BY <1>4, <2>1, <2>2, <2>3, <2>4, <2>5, <2>6, <2>7 DEF Handler
<1>5. ASSUME NEW c \in Clients, ServerListen(c)
      PROVE  OneHandler' /\ PortsDiffer' /\ \A d \in Clients : PortsOf(d)'
  BY <1>0, <1>5 DEF ServerListen
<1>6. ASSUME NEW c \in Clients, Accept(c)
      PROVE  OneHandler' /\ PortsDiffer' /\ \A d \in Clients : PortsOf(d)'
  BY <1>0, <1>6 DEF Accept
<1>7. CASE UNCHANGED connVars
  BY <1>0, <1>7 DEF connVars
<1> QED
  BY <1>1, <1>2, <1>3, <1>4, <1>5, <1>6, <1>7 DEF ConnNext

\* Connection requests that do not overlap get ports of their own, and every
\* client is told the port of the thread that listens for it, though the handler
\* reads the counter three times.
THEOREM PortsMatch == ConnSpec => []PortsMatchUnlessRaced
<1>1. ConnInit => ConnTypeInv /\ PortsInv
  BY ConnInitType
  DEF ConnInit, PortsInv, OneHandler, PortsDiffer, PortsOf, Active
<1>2. ConnTypeInv /\ PortsInv /\ [ConnNext]_connVars => ConnTypeInv' /\ PortsInv'
  BY ConnTypeStep, PortsStep
<1>3. ConnTypeInv /\ PortsInv => PortsMatchUnlessRaced
  <2> SUFFICES ASSUME ConnTypeInv, PortsInv, ~overlapped, dialed_early = {}, NEW c \in Clients
               PROVE  reply_port[c] # None => reply_port[c] = lsn_port[c]
    BY DEF PortsMatchUnlessRaced, PortsInv, PortsDiffer
  <2> QED BY DEF PortsInv, PortsOf, ConnTypeInv, ConnTypeOK
<1> QED
  BY <1>1, <1>2, <1>3, PTL DEF ConnSpec

-----------------------------------------------------------------------------
(* Framing.                                                                *)

Close == [part |-> "close"]
Header(m) == [part |-> "header", msg |-> m]
Text(m) == [part |-> "text", msg |-> m]
Payload(m) == [part |-> "payload", msg |-> m]

\* Units in packets that are not written yet: all but the last are full.
Left(packets) ==
  IF packets = <<>> THEN 0
  ELSE (Len(packets) - 1) * PacketSize + Len(packets[Len(packets)])

\* What is left of message m: packets with nothing but its payload.
PacketsOf(packets, m) ==
  \A i \in 1..Len(packets) :
    /\ Len(packets[i]) \in 1..PacketSize
    /\ i < Len(packets) => Len(packets[i]) = PacketSize
    /\ \A k \in 1..Len(packets[i]) : packets[i][k] = Payload(m)

Unwritten == Left(data[Generator])

\* Only a job can be half written, and only the last one.
WriterInv ==
  \A t \in Senders :
    data[t] # <<>> =>
      /\ stream = "to_server" /\ t = Generator
      /\ begun # <<>> /\ PacketsOf(data[t], begun[Len(begun)])

\* Messages are numbered, and delivered in that order.
OrderInv ==
  /\ \A k \in 1..Len(begun) : begun[k].id = k
  /\ Len(delivered) <= Len(begun)
  /\ \A k \in 1..Len(delivered) : delivered[k] = begun[k]

IsHeader(unit) == unit.part = "header"

\* Messages whose header has been read, after n were delivered.
Opened(n, reader) == n + (IF reader \in {"text", "payload"} THEN 1 ELSE 0)

\* W units on the wire, B messages begun, U units of the last one unwritten.
\* The headers on the wire are those of the messages after number o, in order.
HeadersInv(W, B, o) ==
  /\ \A j \in 1..Len(W) :
       IsHeader(W[j]) => W[j].msg.id \in (o + 1)..Len(B) /\ W[j].msg = B[W[j].msg.id]
  /\ \A k \in (o + 1)..Len(B) :
       \E j \in 1..Len(W) : IsHeader(W[j]) /\ W[j].msg.id = k
  /\ \A i, j \in 1..Len(W) :
       i < j /\ IsHeader(W[i]) /\ IsHeader(W[j]) => W[i].msg.id < W[j].msg.id

\* After position j come, or will come, n units that belong to message k or are
\* close headers; and exactly n as long as nothing is closed (c).
Follow(W, B, U, c, j, k, n) ==
  /\ \A i \in (j + 1)..(j + n) : i <= Len(W) => W[i] \in {Payload(B[k]), Close}
  /\ k < Len(B) => Len(W) >= j + n
  /\ k = Len(B) => Len(W) + U >= j + n
  /\ ~c => /\ k < Len(B) => Len(W) > j + n /\ IsHeader(W[j + n + 1])
           /\ k = Len(B) => Len(W) + U = j + n

\* A header stands before its text, and that before its payload.
MessagesInv(W, B, U, c) ==
  \A j \in 1..Len(W) :
    IsHeader(W[j]) =>
      /\ j < Len(W) /\ W[j + 1] = Text(W[j].msg)
      /\ Follow(W, B, U, c, j + 1, W[j].msg.id, W[j].msg.size)

\* What the reader of message k waits for is what comes.
AtHeader(W, B, U, c, k) ==
  ~c => /\ k <= Len(B) => Len(W) > 0 /\ IsHeader(W[1])
        /\ k > Len(B) => Len(W) + U = 0
AtText(W, B, U, c, k) ==
  /\ k <= Len(B) /\ Len(W) > 0 /\ W[1] = Text(B[k])
  /\ Follow(W, B, U, c, 1, k, B[k].size)
AtPayload(W, B, U, c, k, m, n) ==
  /\ k <= Len(B) /\ m = B[k] /\ n > 0
  /\ Follow(W, B, U, c, 0, k, n)

Closed == closing # {}
Current == Len(delivered) + 1

WireInv ==
  /\ HeadersInv(wire, begun, Opened(Len(delivered), rcv))
  /\ MessagesInv(wire, begun, Unwritten, Closed)
  /\ rcv = "header" => AtHeader(wire, begun, Unwritten, Closed, Current)
  /\ rcv = "text" => AtText(wire, begun, Unwritten, Closed, Current)
  /\ rcv = "payload" => AtPayload(wire, begun, Unwritten, Closed, Current, msg, rest)

FInv ==
  /\ FramingTypeOK /\ WriterInv /\ OrderInv
  /\ ~Ended => WireInv
  /\ Ended => Closed

-----------------------------------------------------------------------------
(* Packets.                                                                *)

LEMMA MinIs ==
  ASSUME NEW S \in SUBSET Nat, NEW m \in S, \A x \in S : m <= x
  PROVE  Min(S) = m
<1>1. \E x \in S : \A y \in S : x <= y
  OBVIOUS
<1>2. Min(S) \in S /\ \A y \in S : Min(S) <= y
  BY <1>1 DEF Min
<1> DEFINE x == Min(S)
<1>3. x \in Nat /\ m \in Nat /\ x <= m /\ m <= x
  BY <1>2
<1> HIDE DEF x
<1>4. x = m
  BY <1>3
<1> QED BY <1>4 DEF x

LEMMA DataFacts ==
  ASSUME NEW m \in Msgs
  PROVE  /\ Data(m) \in Seq(Units) /\ Len(Data(m)) = m.size + 2 /\ m.size \in Nat
         /\ Data(m)[1] = Header(m) /\ Data(m)[2] = Text(m)
         /\ \A i \in 3..(m.size + 2) : Data(m)[i] = Payload(m)
<1> DEFINE a == <<Header(m), Text(m)>>
           b == [i \in 1..m.size |-> Payload(m)]
<1>1. m.size \in Nat
  BY DEF Msgs
<1>2. Header(m) \in Units /\ Text(m) \in Units /\ Payload(m) \in Units
  BY DEF Units, Header, Text, Payload
<1>3. a \in Seq(Units) /\ Len(a) = 2 /\ a[1] = Header(m) /\ a[2] = Text(m)
  BY <1>2
<1>4. b \in Seq(Units) /\ Len(b) = m.size /\ \A i \in 1..m.size : b[i] = Payload(m)
  BY <1>1, <1>2
<1>5. Data(m) = a \o b
  BY DEF Data, Header, Text, Payload
<1> HIDE DEF a, b
<1>6. /\ a \o b \in Seq(Units) /\ Len(a \o b) = Len(a) + Len(b)
      /\ \A i \in 1..(Len(a) + Len(b)) : (a \o b)[i] = IF i <= Len(a) THEN a[i] ELSE b[i - Len(a)]
  BY <1>3, <1>4, ConcatProperties
<1>7. \A i \in 3..(m.size + 2) : i - 2 \in 1..m.size /\ ~(i <= 2)
  BY <1>1
<1> QED BY <1>1, <1>3, <1>4, <1>5, <1>6, <1>7

\* How many packets there are, and where they start.
LEMMA PacketCount ==
  ASSUME NEW n \in Nat, n >= 1
  PROVE  LET c == (n + PacketSize - 1) \div PacketSize
         IN  c \in Nat /\ c >= 1 /\ (c - 1) * PacketSize < n /\ n <= c * PacketSize
<1> DEFINE a == n + PacketSize - 1
           c == a \div PacketSize
           r == a % PacketSize
<1>1. PacketSize \in Nat /\ PacketSize >= 2
  BY PacketSizeAssumption
<1>2. a \in Nat /\ a >= PacketSize
  BY <1>1
<1>3. c \in Int /\ r \in 0..(PacketSize - 1) /\ a = PacketSize * c + r
  BY <1>1, <1>2, Z3
<1>4. c >= 1
  <2> SUFFICES ASSUME c <= 0 PROVE FALSE
    BY <1>3
  <2> HIDE DEF c, r, a
  <2>1. PacketSize * c <= 0
    BY <1>1, <1>3
  <2> QED BY <1>1, <1>2, <1>3, <2>1
<1>5. (c - 1) * PacketSize = PacketSize * c - PacketSize /\ c * PacketSize = PacketSize * c
  <2> HIDE DEF c
  <2> QED BY <1>1, <1>3
<1>6. PacketSize * c \in Int
  <2> HIDE DEF c
  <2> QED BY <1>1, <1>3
<1>7. (c - 1) * PacketSize < n /\ n <= c * PacketSize
  <2> DEFINE x == PacketSize * c
  <2>1. x \in Int /\ n + PacketSize - 1 = x + r /\ r \in 0..(PacketSize - 1)
    BY <1>3, <1>6
  <2> HIDE DEF x, r
  <2>2. x - PacketSize < n /\ n <= x
    BY <1>1, <2>1
  <2> QED BY <1>5, <2>2 DEF x
<1> QED BY <1>3, <1>4, <1>7

\* Each packet but the last is full, and together they are the data.
LEMMA PacketFacts ==
  ASSUME NEW d \in Seq(Units), Len(d) >= 1
  PROVE  LET c == (Len(d) + PacketSize - 1) \div PacketSize
             p == Packets(d)
         IN  /\ c \in Nat /\ c >= 1 /\ p \in Seq(Seq(Units)) /\ Len(p) = c
             /\ \A i \in 1..c : i < c => Len(p[i]) = PacketSize
             /\ Len(p[c]) \in 1..PacketSize /\ (c - 1) * PacketSize + Len(p[c]) = Len(d)
             /\ \A i \in 1..c : \A k \in 1..Len(p[i]) :
                  (i - 1) * PacketSize + k \in 1..Len(d) /\ p[i][k] = d[(i - 1) * PacketSize + k]
<1> DEFINE n == Len(d)
           c == (n + PacketSize - 1) \div PacketSize
           lo(i) == (i - 1) * PacketSize
           hi(i) == Min({i * PacketSize, n})
           p == Packets(d)
<1>1. PacketSize \in Nat /\ PacketSize >= 2 /\ n \in Nat /\ n >= 1
  BY PacketSizeAssumption
<1>2. c \in Nat /\ c >= 1 /\ (c - 1) * PacketSize < n /\ n <= c * PacketSize
  BY <1>1, PacketCount
<1>3. p = [i \in 1..c |-> SubSeq(d, lo(i) + 1, hi(i))]
  BY DEF Packets
<1> HIDE DEF n, c, p
<1>4. ASSUME NEW i \in 1..c
      PROVE  /\ lo(i) \in Nat /\ lo(i) < n /\ hi(i) \in Nat /\ hi(i) <= n
             /\ hi(i) - lo(i) \in 1..PacketSize
             /\ i < c => hi(i) - lo(i) = PacketSize
             /\ i = c => hi(i) = n
  <2>1. i * PacketSize = lo(i) + PacketSize /\ lo(i) \in Nat /\ i * PacketSize \in Nat
    <3>1. i \in Nat /\ i - 1 \in Nat
      BY <1>2
    <3> QED BY <1>1, <3>1
  <2>2. i < c => i * PacketSize <= (c - 1) * PacketSize
    <3> SUFFICES ASSUME i < c PROVE i * PacketSize <= (c - 1) * PacketSize
      OBVIOUS
    <3>1. PICK x \in Nat : c - 1 = i + x
      <4>1. (c - 1) - i \in Nat
        BY <1>2
      <4> QED BY <1>2, <4>1
    <3>2. (i + x) * PacketSize = i * PacketSize + x * PacketSize /\ x * PacketSize \in Nat
      BY <1>1, <1>2
    <3> QED BY <2>1, <3>1, <3>2
  <2>3. (c - 1) * PacketSize \in Nat /\ c * PacketSize \in Nat
    <3>1. c - 1 \in Nat
      BY <1>2
    <3> QED BY <1>1, <1>2, <3>1
  <2> DEFINE x == i * PacketSize
  <2>4. x \in Nat /\ {x, n} \in SUBSET Nat
    BY <1>1, <2>1
  <2>5. hi(i) = IF x <= n THEN x ELSE n
    <3> HIDE DEF x
    <3>1. CASE x <= n
      <4>1. \A y \in {x, n} : x <= y
        BY <2>4, <3>1
      <4>2. Min({x, n}) = x
        BY <2>4, <4>1, MinIs
      <4> QED BY <3>1, <4>2 DEF x
    <3>2. CASE ~(x <= n)
      <4>1. \A y \in {x, n} : n <= y
        BY <1>1, <2>4, <3>2
      <4>2. Min({x, n}) = n
        BY <2>4, <4>1, MinIs
      <4> QED BY <3>2, <4>2 DEF x
    <3> QED BY <3>1, <3>2
  <2>6. lo(i) < n
    <3>1. CASE i < c
      BY <1>1, <1>2, <2>1, <2>2, <2>3, <3>1
    <3>2. CASE i = c
      BY <1>2, <3>2
    <3> QED BY <1>2, <3>1, <3>2
  <2>7. i < c => x <= n
    BY <1>1, <1>2, <2>2, <2>3, <2>4
  <2>8. i = c => n <= x
    BY <1>2
  <2>9. x = lo(i) + PacketSize
    BY <2>1
  <2> HIDE DEF x, lo, hi
  <2> QED BY <1>1, <2>1, <2>4, <2>5, <2>6, <2>7, <2>8, <2>9
<1>5. ASSUME NEW i \in 1..c
      PROVE  /\ p[i] \in Seq(Units) /\ Len(p[i]) = hi(i) - lo(i)
             /\ \A k \in 1..(hi(i) - lo(i)) : p[i][k] = d[lo(i) + k]
  <2>1. p[i] = SubSeq(d, lo(i) + 1, hi(i))
    BY <1>3
  <2>2. /\ lo(i) \in Nat /\ lo(i) < n /\ hi(i) \in Nat /\ hi(i) <= n
        /\ hi(i) - lo(i) \in 1..PacketSize
    BY <1>4
  <2> HIDE DEF lo, hi
  <2>3. \A k \in (lo(i) + 1)..hi(i) : d[k] \in Units
    BY <2>2, ElementOfSeq DEF n
  <2>4. lo(i) + 1 \in Int /\ hi(i) \in Int
    BY <2>2
  <2>5. /\ SubSeq(d, lo(i) + 1, hi(i)) \in Seq(Units)
        /\ Len(SubSeq(d, lo(i) + 1, hi(i)))
             = IF lo(i) + 1 <= hi(i) THEN hi(i) - (lo(i) + 1) + 1 ELSE 0
        /\ \A k \in 1..(hi(i) - (lo(i) + 1) + 1) :
             SubSeq(d, lo(i) + 1, hi(i))[k] = d[(lo(i) + 1) + k - 1]
    BY <2>3, <2>4, SubSeqProperties
  <2>6. /\ (IF lo(i) + 1 <= hi(i) THEN hi(i) - (lo(i) + 1) + 1 ELSE 0) = hi(i) - lo(i)
        /\ hi(i) - (lo(i) + 1) + 1 = hi(i) - lo(i)
        /\ \A k \in 1..(hi(i) - lo(i)) : (lo(i) + 1) + k - 1 = lo(i) + k
    BY <1>1, <2>2
  <2> QED BY <2>1, <2>5, <2>6
<1>6. p \in Seq(Seq(Units)) /\ Len(p) = c
  <2>1. p \in [1..c -> Seq(Units)]
    BY <1>3, <1>5
  <2> QED BY <1>2, <2>1
<1>7. \A i \in 1..c : i < c => Len(p[i]) = PacketSize
  BY <1>4, <1>5
<1>8. Len(p[c]) \in 1..PacketSize /\ (c - 1) * PacketSize + Len(p[c]) = n
  <2>1. c \in 1..c
    BY <1>2
  <2>2. lo(c) \in Nat /\ hi(c) = n /\ hi(c) - lo(c) \in 1..PacketSize /\ Len(p[c]) = hi(c) - lo(c)
    BY <1>4, <1>5, <2>1
  <2>3. (c - 1) * PacketSize = lo(c)
    OBVIOUS
  <2> HIDE DEF lo, hi
  <2> QED BY <1>1, <2>2, <2>3
<1>9. ASSUME NEW i \in 1..c, NEW k \in 1..Len(p[i])
      PROVE  lo(i) + k \in 1..n /\ p[i][k] = d[lo(i) + k]
  <2>1. lo(i) \in Nat /\ hi(i) \in Nat /\ hi(i) <= n /\ hi(i) - lo(i) \in 1..PacketSize
    BY <1>4
  <2>2. Len(p[i]) = hi(i) - lo(i) /\ \A l \in 1..(hi(i) - lo(i)) : p[i][l] = d[lo(i) + l]
    BY <1>5
  <2> HIDE DEF lo, hi
  <2> QED BY <1>1, <2>1, <2>2
<1> QED BY <1>2, <1>6, <1>7, <1>8, <1>9 DEF n, c, p

LEMMA LeftType ==
  ASSUME NEW p \in Seq(Seq(Units)), NEW m, PacketsOf(p, m)
  PROVE  Left(p) \in Nat /\ (Left(p) = 0 <=> p = <<>>)
<1>1. PacketSize \in Nat /\ Len(p) \in Nat
  BY PacketSizeAssumption, LenProperties
<1>2. CASE p = <<>>
  BY <1>2 DEF Left
<1>3. CASE p # <<>>
  <2>1. Len(p) >= 1 /\ Len(p) - 1 \in Nat
    BY <1>1, <1>3, EmptySeq
  <2>2. Len(p[Len(p)]) \in 1..PacketSize
    BY <1>1, <2>1 DEF PacketsOf
  <2>3. (Len(p) - 1) * PacketSize \in Nat
    BY <1>1, <2>1
  <2>4. Left(p) = (Len(p) - 1) * PacketSize + Len(p[Len(p)])
    BY <1>3 DEF Left
  <2> DEFINE a == (Len(p) - 1) * PacketSize
             e == Len(p[Len(p)])
  <2>5. Left(p) = a + e /\ a \in Nat /\ e \in 1..PacketSize
    BY <2>2, <2>3, <2>4
  <2> HIDE DEF a, e
  <2>6. a + e \in Nat /\ a + e # 0
    BY <1>1, <2>5
  <2> QED BY <1>3, <2>5, <2>6
<1> QED BY <1>2, <1>3

\* A packet is written.
LEMMA LeftTail ==
  ASSUME NEW p \in Seq(Seq(Units)), NEW m, PacketsOf(p, m), p # <<>>
  PROVE  /\ Tail(p) \in Seq(Seq(Units)) /\ PacketsOf(Tail(p), m)
         /\ Head(p) \in Seq(Units) /\ \A k \in 1..Len(Head(p)) : Head(p)[k] = Payload(m)
         /\ Len(Head(p)) + Left(Tail(p)) = Left(p)
<1> DEFINE q == Tail(p)
           n == Len(p)
<1>1. PacketSize \in Nat /\ n \in Nat /\ n >= 1
  <2>1. n \in Nat
    BY LenProperties
  <2>2. n # 0
    BY EmptySeq
  <2> QED BY <2>1, <2>2, PacketSizeAssumption
<1>2. /\ Head(p) = p[1] /\ Head(p) \in Seq(Units) /\ q \in Seq(Seq(Units))
      /\ Len(q) = n - 1 /\ \A i \in 1..(n - 1) : q[i] = p[i + 1]
  BY HeadTailProperties
<1> HIDE DEF q
<1>3. ASSUME NEW i \in 1..n
      PROVE  /\ Len(p[i]) \in 1..PacketSize /\ (i < n => Len(p[i]) = PacketSize)
             /\ \A k \in 1..Len(p[i]) : p[i][k] = Payload(m)
  BY DEF PacketsOf
<1> HIDE DEF n
<1>4. PacketsOf(q, m)
  <2>1. ASSUME NEW i \in 1..Len(q)
        PROVE  /\ Len(q[i]) \in 1..PacketSize /\ (i < Len(q) => Len(q[i]) = PacketSize)
               /\ \A k \in 1..Len(q[i]) : q[i][k] = Payload(m)
    <3>1. i \in 1..(n - 1) /\ i + 1 \in 1..n /\ (i < Len(q) => i + 1 < n)
      BY <1>1, <1>2
    <3>2. q[i] = p[i + 1]
      BY <1>2, <3>1
    <3> QED BY <1>3, <3>1, <3>2
  <2> QED BY <2>1 DEF PacketsOf
<1>5. \A k \in 1..Len(Head(p)) : Head(p)[k] = Payload(m)
  <2>1. 1 \in 1..n
    BY <1>1
  <2> QED BY <1>2, <1>3, <2>1
<1>6. Len(Head(p)) + Left(q) = Left(p)
  <2>1. Left(p) = (n - 1) * PacketSize + Len(p[n])
    BY DEF Left, n
  <2>2. CASE n = 1
    <3>1. q = <<>>
      BY <1>2, <2>2, EmptySeq
    <3>2. Left(q) = 0
      BY <3>1 DEF Left
    <3>3. Len(p[1]) \in Nat
      BY <1>2, LenProperties
    <3>4. (n - 1) * PacketSize = 0
      BY <1>1, <2>2
    <3>5. Left(p) = 0 + Len(p[1])
      BY <2>1, <2>2, <3>4
    <3>6. Len(p[1]) + 0 = 0 + Len(p[1])
      BY <3>3
    <3> QED BY <1>2, <3>2, <3>5, <3>6, Zenon
  <2>3. CASE n > 1
    <3>1. q # <<>>
      <4>1. Len(q) # 0
        BY <1>1, <1>2, <2>3
      <4>2. Len(<<>>) = 0
        OBVIOUS
      <4> QED BY <4>1, <4>2, Zenon
    <3>2. Left(q) = (Len(q) - 1) * PacketSize + Len(q[Len(q)])
      BY <3>1 DEF Left
    <3>3. Len(q) = n - 1 /\ q[Len(q)] = p[n]
      <4>1. n - 1 \in 1..(n - 1) /\ (n - 1) + 1 = n
        BY <1>1, <2>3
      <4> QED BY <1>2, <4>1
    <3>4. Len(p[1]) = PacketSize
      <4>1. 1 \in 1..n
        BY <1>1
      <4> QED BY <1>3, <2>3, <4>1
    <3>5. Len(p[n]) \in Nat
      <4>1. n \in 1..n
        BY <1>1
      <4> QED BY <1>1, <1>3, <4>1
    <3>6. PacketSize + ((n - 1) - 1) * PacketSize = (n - 1) * PacketSize
      BY <1>1
    <3>7. ((n - 1) - 1) * PacketSize \in Int
      BY <1>1
    <3> DEFINE a == ((n - 1) - 1) * PacketSize
               b == (n - 1) * PacketSize
               e == Len(p[n])
    <3>8. Len(Head(p)) = PacketSize /\ Left(q) = a + e /\ Left(p) = b + e
      BY <1>2, <2>1, <3>2, <3>3, <3>4
    <3>9. a \in Int /\ PacketSize + a = b /\ e \in Nat
      BY <3>5, <3>6, <3>7
    <3> HIDE DEF a, b, e
    <3>10. PacketSize + (a + e) = b + e
      BY <1>1, <3>9
    <3> QED BY <3>8, <3>10, Zenon
  <2> QED BY <1>1, <2>2, <2>3
<1> QED BY <1>2, <1>4, <1>5, <1>6 DEF q

\* send_msg(): the first packet holds the header and the text.
LEMMA FirstPacket ==
  ASSUME NEW m \in Msgs
  PROVE  LET p == Packets(Data(m))
             h == Head(p)
         IN  /\ h \in Seq(Units) /\ Len(h) >= 2 /\ h[1] = Header(m) /\ h[2] = Text(m)
             /\ \A i \in 3..Len(h) : h[i] = Payload(m)
             /\ Tail(p) \in Seq(Seq(Units)) /\ PacketsOf(Tail(p), m)
             /\ Len(h) + Left(Tail(p)) = m.size + 2
             /\ m.size = 0 => Tail(p) = <<>>
<1> DEFINE d == Data(m)
           n == Len(d)
           c == (n + PacketSize - 1) \div PacketSize
           p == Packets(d)
           h == Head(p)
           q == Tail(p)
<1>1. /\ d \in Seq(Units) /\ n = m.size + 2 /\ m.size \in Nat
      /\ d[1] = Header(m) /\ d[2] = Text(m)
      /\ \A i \in 3..n : d[i] = Payload(m)
  BY DataFacts
<1>2. PacketSize \in Nat /\ PacketSize >= 2 /\ n \in Nat /\ n >= 2
  BY <1>1, PacketSizeAssumption
<1> HIDE DEF d
<1>3. /\ c \in Nat /\ c >= 1 /\ p \in Seq(Seq(Units)) /\ Len(p) = c
      /\ \A i \in 1..c : i < c => Len(p[i]) = PacketSize
      /\ Len(p[c]) \in 1..PacketSize /\ (c - 1) * PacketSize + Len(p[c]) = n
      /\ \A i \in 1..c : \A k \in 1..Len(p[i]) :
           (i - 1) * PacketSize + k \in 1..n /\ p[i][k] = d[(i - 1) * PacketSize + k]
  <2>1. Len(d) >= 1
    BY <1>2
  <2> QED BY <1>1, <2>1, PacketFacts, Zenon
<1> HIDE DEF n, c, p
<1>4. p # <<>>
  <2>1. Len(p) # 0
    BY <1>3
  <2>2. Len(<<>>) = 0
    OBVIOUS
  <2> QED BY <2>1, <2>2, Zenon
<1>5. /\ h = p[1] /\ h \in Seq(Units) /\ q \in Seq(Seq(Units))
      /\ Len(q) = c - 1 /\ \A i \in 1..(c - 1) : q[i] = p[i + 1]
  <2>1. /\ Head(p) = p[1] /\ Head(p) \in Seq(Units) /\ Tail(p) \in Seq(Seq(Units))
        /\ Len(Tail(p)) = Len(p) - 1 /\ \A i \in 1..Len(Tail(p)) : Tail(p)[i] = p[i + 1]
    BY <1>3, <1>4, HeadTailProperties
  <2> QED BY <1>3, <2>1
<1> HIDE DEF h, q
<1>6. c = 1 => Len(h) = n
  <2> SUFFICES ASSUME c = 1 PROVE Len(h) = n
    OBVIOUS
  <2>1. (1 - 1) * PacketSize = 0
    BY <1>2
  <2> QED BY <1>2, <1>3, <1>5, <2>1
<1>7. c > 1 => Len(h) = PacketSize
  <2>1. c > 1 => 1 \in 1..c /\ 1 < c
    BY <1>3
  <2> QED BY <1>3, <1>5, <2>1
<1>8. Len(h) \in Nat /\ Len(h) >= 2
  BY <1>2, <1>3, <1>6, <1>7
<1>9. \A k \in 1..Len(h) : k \in 1..n /\ h[k] = d[k]
  <2>1. 1 \in 1..c
    BY <1>3
  <2>2. (1 - 1) * PacketSize = 0
    BY <1>2
  <2> QED BY <1>3, <1>5, <2>1, <2>2
<1>10. h[1] = Header(m) /\ h[2] = Text(m) /\ \A i \in 3..Len(h) : h[i] = Payload(m)
  BY <1>1, <1>8, <1>9
<1>11. PacketsOf(q, m)
  <2>1. ASSUME NEW i \in 1..Len(q)
        PROVE  /\ Len(q[i]) \in 1..PacketSize /\ (i < Len(q) => Len(q[i]) = PacketSize)
               /\ \A k \in 1..Len(q[i]) : q[i][k] = Payload(m)
    <3>1. i \in 1..(c - 1) /\ i + 1 \in 1..c /\ i \in Nat /\ i >= 1 /\ (i < Len(q) <=> i + 1 < c)
      BY <1>3, <1>5
    <3>2. q[i] = p[i + 1]
      BY <1>5, <3>1
    <3>3. Len(q[i]) \in 1..PacketSize /\ (i < Len(q) => Len(q[i]) = PacketSize)
      <4>1. CASE i + 1 < c
        <5>1. Len(p[i + 1]) = PacketSize
          BY <1>3, <3>1, <4>1
        <5> QED BY <1>2, <3>2, <5>1
      <4>2. CASE ~(i + 1 < c)
        <5>1. i + 1 = c
          BY <1>3, <3>1, <4>2
        <5>2. Len(q[i]) \in 1..PacketSize
          BY <1>3, <3>2, <5>1
        <5> QED BY <3>1, <4>2, <5>2
      <4> QED BY <4>1, <4>2
    <3>4. ASSUME NEW k \in 1..Len(q[i]) PROVE q[i][k] = Payload(m)
      <4>1. /\ ((i + 1) - 1) * PacketSize + k \in 1..n
            /\ q[i][k] = d[((i + 1) - 1) * PacketSize + k]
        BY <1>3, <3>1, <3>2
      <4>2. ((i + 1) - 1) * PacketSize >= 2
        <5>1. ((i + 1) - 1) * PacketSize = PacketSize + (i - 1) * PacketSize
          BY <1>2, <3>1
        <5>2. (i - 1) * PacketSize \in Nat
          <6>1. i - 1 \in Nat
            BY <3>1
          <6> QED BY <1>2, <6>1
        <5> QED BY <1>2, <5>1, <5>2
      <4>3. k \in Nat /\ k >= 1
        BY <1>2, <3>3
      <4>4. ((i + 1) - 1) * PacketSize \in Int
        BY <1>2, <3>1
      <4> DEFINE x == ((i + 1) - 1) * PacketSize
      <4>5. x + k \in 3..n
        <5>1. x \in Int /\ x >= 2 /\ x + k \in 1..n
          BY <4>1, <4>2, <4>4
        <5> HIDE DEF x
        <5> QED BY <1>2, <4>3, <5>1
      <4> QED BY <1>1, <4>1, <4>5
    <3> QED BY <3>3, <3>4
  <2> QED BY <2>1 DEF PacketsOf
<1>12. Len(h) + Left(q) = n
  <2>1. CASE c = 1
    <3>1. q = <<>>
      BY <1>5, <2>1, EmptySeq
    <3>2. Left(q) = 0
      BY <3>1 DEF Left
    <3> QED BY <1>2, <1>6, <2>1, <3>2
  <2>2. CASE c > 1
    <3>1. q # <<>>
      <4>1. Len(q) # 0
        BY <1>3, <1>5, <2>2
      <4>2. Len(<<>>) = 0
        OBVIOUS
      <4> QED BY <4>1, <4>2, Zenon
    <3>2. Left(q) = (Len(q) - 1) * PacketSize + Len(q[Len(q)])
      BY <3>1 DEF Left
    <3>3. Len(q) = c - 1 /\ q[Len(q)] = p[c]
      <4>1. c - 1 \in 1..(c - 1) /\ (c - 1) + 1 = c
        BY <1>3, <2>2
      <4> QED BY <1>5, <4>1
    <3>4. PacketSize + ((c - 1) - 1) * PacketSize = (c - 1) * PacketSize
      BY <1>2, <1>3
    <3>5. ((c - 1) - 1) * PacketSize \in Int
      BY <1>2, <1>3
    <3> DEFINE a == ((c - 1) - 1) * PacketSize
               b == (c - 1) * PacketSize
               e == Len(p[c])
    <3>6. Len(h) = PacketSize /\ Left(q) = a + e /\ b + e = n
      BY <1>3, <1>7, <2>2, <3>2, <3>3
    <3>7. a \in Int /\ PacketSize + a = b /\ e \in Nat
      BY <1>2, <1>3, <3>4, <3>5
    <3> HIDE DEF a, b, e
    <3> QED BY <1>2, <3>6, <3>7
  <2> QED BY <1>3, <2>1, <2>2
<1>13. m.size = 0 => q = <<>>
  <2> SUFFICES ASSUME m.size = 0 PROVE q = <<>>
    OBVIOUS
  <2>1. Left(q) \in Nat /\ (Left(q) = 0 <=> q = <<>>)
    BY <1>5, <1>11, LeftType
  <2> QED BY <1>1, <1>8, <1>12, <2>1
<1> QED BY <1>1, <1>5, <1>8, <1>10, <1>11, <1>12, <1>13 DEF d, n, p, h, q

-----------------------------------------------------------------------------
(* The wire.                                                               *)

LEMMA PartFacts ==
  /\ \A m : /\ IsHeader(Header(m)) /\ Header(m).msg = m /\ Header(m).part = "header"
            /\ ~IsHeader(Text(m)) /\ Text(m).msg = m /\ Text(m).part = "text"
            /\ ~IsHeader(Payload(m)) /\ Payload(m).part = "payload"
  /\ ~IsHeader(Close) /\ Close.part = "close"
  BY DEF IsHeader, Header, Text, Payload, Close

\* W2 is W followed by e; W2 is W without its first r units.
Extended(W, e, W2) ==
  /\ Len(W) \in Nat /\ Len(e) \in Nat /\ Len(W2) = Len(W) + Len(e)
  /\ \A i \in 1..Len(W) : W2[i] = W[i]
  /\ \A i \in (Len(W) + 1)..Len(W2) : i - Len(W) \in 1..Len(e) /\ W2[i] = e[i - Len(W)]
Dropped(W, r, W2) ==
  /\ Len(W) \in Nat /\ r \in Nat /\ r <= Len(W) /\ Len(W2) = Len(W) - r
  /\ \A i \in 1..Len(W2) : i + r \in 1..Len(W) /\ W2[i] = W[i + r]

LEMMA ConcatExtends ==
  ASSUME NEW W \in Seq(Units), NEW e \in Seq(Units)
  PROVE  Extended(W, e, W \o e) /\ W \o e \in Seq(Units)
<1>1. /\ Len(W) \in Nat /\ Len(e) \in Nat /\ W \o e \in Seq(Units)
      /\ Len(W \o e) = Len(W) + Len(e)
      /\ \A i \in 1..(Len(W) + Len(e)) : (W \o e)[i] = IF i <= Len(W) THEN W[i] ELSE e[i - Len(W)]
  BY ConcatProperties, LenProperties
<1> QED BY <1>1 DEF Extended

LEMMA SuffixDrops ==
  ASSUME NEW W \in Seq(Units), NEW r \in 0..Len(W)
  PROVE  LET W2 == SubSeq(W, r + 1, Len(W)) IN Dropped(W, r, W2) /\ W2 \in Seq(Units)
<1> DEFINE W2 == SubSeq(W, r + 1, Len(W))
<1>1. Len(W) \in Nat /\ r + 1 \in Int /\ Len(W) \in Int /\ r \in Nat /\ r <= Len(W)
  BY LenProperties
<1>2. \A k \in (r + 1)..Len(W) : W[k] \in Units
  BY <1>1, ElementOfSeq
<1>3. /\ W2 \in Seq(Units) /\ Len(W2) = IF r + 1 <= Len(W) THEN Len(W) - (r + 1) + 1 ELSE 0
      /\ \A k \in 1..(Len(W) - (r + 1) + 1) : W2[k] = W[(r + 1) + k - 1]
  BY <1>1, <1>2, SubSeqProperties
<1> HIDE DEF W2
<1>4. Len(W2) = Len(W) - r /\ Len(W) - (r + 1) + 1 = Len(W) - r
  BY <1>1, <1>3
<1>5. \A k \in 1..(Len(W) - r) : (r + 1) + k - 1 = k + r /\ k + r \in 1..Len(W)
  BY <1>1
<1> QED BY <1>1, <1>3, <1>4, <1>5 DEF Dropped, W2

LEMMA TailDrops ==
  ASSUME NEW W \in Seq(Units), W # <<>>
  PROVE  Dropped(W, 1, Tail(W)) /\ Tail(W) \in Seq(Units) /\ Head(W) = W[1] /\ W[1] \in Units
<1>1. Len(W) \in Nat /\ Len(W) # 0
  BY LenProperties, EmptySeq
<1>2. /\ Head(W) = W[1] /\ Head(W) \in Units /\ Tail(W) \in Seq(Units)
      /\ Len(Tail(W)) = Len(W) - 1 /\ \A i \in 1..(Len(W) - 1) : Tail(W)[i] = W[i + 1]
  BY HeadTailProperties
<1> QED BY <1>1, <1>2 DEF Dropped

-----------------------------------------------------------------------------
(* More of the last message is written, or a close header is.              *)

MoreUnits(W, B, U, c, e, W2, U2, c2) ==
  /\ Extended(W, e, W2) /\ Len(B) \in Nat /\ U \in Nat /\ U2 \in Nat
  /\ \A i \in 1..Len(e) : e[i] \in {Payload(B[Len(B)]), Close}
  /\ U <= Len(e) + U2
  /\ ~c2 => ~c /\ U = Len(e) + U2

LEMMA FollowMore ==
  ASSUME NEW W, NEW B, NEW U, NEW c, NEW e, NEW W2, NEW U2, NEW c2,
         MoreUnits(W, B, U, c, e, W2, U2, c2),
         NEW j \in Nat, NEW k \in Nat, k <= Len(B), NEW n \in Nat,
         Follow(W, B, U, c, j, k, n)
  PROVE  Follow(W2, B, U2, c2, j, k, n)
<1>1. /\ Len(W) \in Nat /\ Len(e) \in Nat /\ Len(W2) = Len(W) + Len(e)
      /\ \A i \in 1..Len(W) : W2[i] = W[i]
      /\ \A i \in (Len(W) + 1)..Len(W2) : i - Len(W) \in 1..Len(e) /\ W2[i] = e[i - Len(W)]
      /\ Len(B) \in Nat /\ U \in Nat /\ U2 \in Nat
      /\ \A i \in 1..Len(e) : e[i] \in {Payload(B[Len(B)]), Close}
      /\ U <= Len(e) + U2
      /\ ~c2 => ~c /\ U = Len(e) + U2
  BY DEF MoreUnits, Extended
<1>2. /\ \A i \in (j + 1)..(j + n) : i <= Len(W) => W[i] \in {Payload(B[k]), Close}
      /\ k < Len(B) => Len(W) >= j + n
      /\ k = Len(B) => Len(W) + U >= j + n
      /\ ~c => /\ k < Len(B) => Len(W) > j + n /\ IsHeader(W[j + n + 1])
               /\ k = Len(B) => Len(W) + U = j + n
  BY DEF Follow
<1>3. ASSUME NEW i \in (j + 1)..(j + n), i <= Len(W2)
      PROVE  W2[i] \in {Payload(B[k]), Close}
  <2>1. CASE i <= Len(W)
    <3>1. i \in 1..Len(W)
      BY <1>1, <2>1
    <3> QED BY <1>1, <1>2, <2>1, <3>1
  <2>2. CASE ~(i <= Len(W))
    <3>1. i \in (Len(W) + 1)..Len(W2)
      BY <1>1, <1>3, <2>2
    <3>2. k = Len(B)
      BY <1>1, <1>2, <2>2
    <3> QED BY <1>1, <3>1, <3>2
  <2> QED BY <2>1, <2>2
<1>4. k < Len(B) => Len(W2) >= j + n
  BY <1>1, <1>2
<1>5. k = Len(B) => Len(W2) + U2 >= j + n
  BY <1>1, <1>2
<1>6. ASSUME ~c2, k < Len(B) PROVE Len(W2) > j + n /\ IsHeader(W2[j + n + 1])
  <2>1. Len(W) > j + n /\ IsHeader(W[j + n + 1])
    BY <1>1, <1>2, <1>6
  <2>2. j + n + 1 \in 1..Len(W)
    BY <1>1, <2>1
  <2> QED BY <1>1, <2>1, <2>2
<1>7. ASSUME ~c2, k = Len(B) PROVE Len(W2) + U2 = j + n
  BY <1>1, <1>2, <1>7
<1> QED BY <1>3, <1>4, <1>5, <1>6, <1>7 DEF Follow

LEMMA HeadersMore ==
  ASSUME NEW W, NEW B, NEW U, NEW c, NEW e, NEW W2, NEW U2, NEW c2,
         MoreUnits(W, B, U, c, e, W2, U2, c2),
         NEW o, HeadersInv(W, B, o)
  PROVE  /\ HeadersInv(W2, B, o)
         /\ \A j \in 1..Len(W2) : IsHeader(W2[j]) => j \in 1..Len(W) /\ W2[j] = W[j]
<1>1. /\ Len(W) \in Nat /\ Len(e) \in Nat /\ Len(W2) = Len(W) + Len(e)
      /\ \A i \in 1..Len(W) : W2[i] = W[i]
      /\ \A i \in (Len(W) + 1)..Len(W2) : i - Len(W) \in 1..Len(e) /\ W2[i] = e[i - Len(W)]
      /\ \A i \in 1..Len(e) : e[i] \in {Payload(B[Len(B)]), Close}
  BY DEF MoreUnits, Extended
<1>2. ASSUME NEW j \in 1..Len(W2), IsHeader(W2[j]) PROVE j \in 1..Len(W) /\ W2[j] = W[j]
  <2>1. CASE j \in 1..Len(W)
    BY <1>1, <2>1
  <2>2. CASE j \notin 1..Len(W)
    <3>1. j \in (Len(W) + 1)..Len(W2)
      BY <1>1, <2>2
    <3>2. W2[j] \in {Payload(B[Len(B)]), Close}
      BY <1>1, <3>1
    <3> QED BY <1>2, <3>2, PartFacts
  <2> QED BY <2>1, <2>2
<1>3. \A j \in 1..Len(W) : j \in 1..Len(W2) /\ W2[j] = W[j]
  BY <1>1
<1> QED BY <1>2, <1>3 DEF HeadersInv

LEMMA MessagesMore ==
  ASSUME NEW W, NEW B, NEW U, NEW c, NEW e, NEW W2, NEW U2, NEW c2,
         MoreUnits(W, B, U, c, e, W2, U2, c2),
         \A i \in 1..Len(B) : B[i] \in Msgs,
         NEW o \in Nat, HeadersInv(W, B, o), MessagesInv(W, B, U, c)
  PROVE  MessagesInv(W2, B, U2, c2)
<1>1. Len(W) \in Nat /\ Len(W2) >= Len(W) /\ \A i \in 1..Len(W) : W2[i] = W[i]
  BY DEF MoreUnits, Extended
<1>2. Len(B) \in Nat
  BY DEF MoreUnits
<1>3. ASSUME NEW j \in 1..Len(W2), IsHeader(W2[j])
      PROVE  /\ j < Len(W2) /\ W2[j + 1] = Text(W2[j].msg)
             /\ Follow(W2, B, U2, c2, j + 1, W2[j].msg.id, W2[j].msg.size)
  <2>1. j \in 1..Len(W) /\ W2[j] = W[j] /\ IsHeader(W[j])
    BY <1>3, HeadersMore
  <2>2. /\ j < Len(W) /\ W[j + 1] = Text(W[j].msg)
        /\ Follow(W, B, U, c, j + 1, W[j].msg.id, W[j].msg.size)
    BY <2>1 DEF MessagesInv
  <2>3. W[j].msg.id \in (o + 1)..Len(B) /\ W[j].msg = B[W[j].msg.id]
    BY <2>1 DEF HeadersInv
  <2>4. W[j].msg.id \in Nat /\ W[j].msg.id <= Len(B) /\ W[j].msg.id \in 1..Len(B)
    BY <1>2, <2>3
  <2>5. W[j].msg.size \in Nat
    BY <2>3, <2>4 DEF Msgs
  <2>6. j + 1 \in Nat /\ j + 1 \in 1..Len(W)
    BY <1>1, <2>1, <2>2
  <2>7. Follow(W2, B, U2, c2, j + 1, W[j].msg.id, W[j].msg.size)
    BY <2>2, <2>4, <2>5, <2>6, FollowMore
  <2> QED BY <1>1, <2>1, <2>2, <2>6, <2>7
<1> QED BY <1>3 DEF MessagesInv

-----------------------------------------------------------------------------
(* A message begins; the one before it is written to its end.              *)

NewUnits(W, B, U, h, W2, B2, U2, m) ==
  /\ Extended(W, h, W2) /\ Len(B) \in Nat /\ U = 0 /\ U2 \in Nat
  /\ m \in Msgs /\ m.id = Len(B) + 1
  /\ Len(B2) = Len(B) + 1 /\ B2[Len(B) + 1] = m /\ \A k \in 1..Len(B) : B2[k] = B[k]
  /\ Len(h) >= 2 /\ h[1] = Header(m) /\ h[2] = Text(m)
  /\ \A i \in 3..Len(h) : h[i] = Payload(m)
  /\ Len(h) + U2 = m.size + 2

LEMMA NewFacts ==
  ASSUME NEW W, NEW B, NEW U, NEW h, NEW W2, NEW B2, NEW U2, NEW m,
         NewUnits(W, B, U, h, W2, B2, U2, m)
  PROVE  /\ Len(W) \in Nat /\ Len(W2) \in Nat /\ Len(W2) >= Len(W) + 2
         /\ Len(W2) + U2 = Len(W) + 2 + m.size
         /\ Len(B) \in Nat /\ U = 0 /\ U2 \in Nat /\ m.id = Len(B) + 1 /\ m.size \in Nat
         /\ Len(B2) = Len(B) + 1 /\ B2[Len(B) + 1] = m /\ \A k \in 1..Len(B) : B2[k] = B[k]
         /\ \A i \in 1..Len(W) : W2[i] = W[i]
         /\ W2[Len(W) + 1] = Header(m) /\ W2[Len(W) + 2] = Text(m)
         /\ \A i \in (Len(W) + 3)..Len(W2) : W2[i] = Payload(m)
         /\ \A j \in 1..Len(W2) : IsHeader(W2[j]) => j \in 1..Len(W) \/ j = Len(W) + 1
<1>1. /\ Len(W) \in Nat /\ Len(h) \in Nat /\ Len(W2) = Len(W) + Len(h)
      /\ \A i \in 1..Len(W) : W2[i] = W[i]
      /\ \A i \in (Len(W) + 1)..Len(W2) : i - Len(W) \in 1..Len(h) /\ W2[i] = h[i - Len(W)]
  BY DEF NewUnits, Extended
<1>2. /\ Len(B) \in Nat /\ U = 0 /\ U2 \in Nat /\ m \in Msgs /\ m.id = Len(B) + 1
      /\ Len(B2) = Len(B) + 1 /\ B2[Len(B) + 1] = m /\ \A k \in 1..Len(B) : B2[k] = B[k]
      /\ Len(h) >= 2 /\ h[1] = Header(m) /\ h[2] = Text(m)
      /\ \A i \in 3..Len(h) : h[i] = Payload(m)
      /\ Len(h) + U2 = m.size + 2
  BY DEF NewUnits
<1>3. m.size \in Nat
  BY <1>2 DEF Msgs
<1>4. Len(W2) \in Nat /\ Len(W2) >= Len(W) + 2 /\ Len(W2) + U2 = Len(W) + 2 + m.size
  <2>1. Len(W) \in Nat /\ Len(h) \in Nat /\ Len(W2) = Len(W) + Len(h)
    BY <1>1
  <2>2. U2 \in Nat /\ Len(h) >= 2 /\ Len(h) + U2 = m.size + 2
    BY <1>2
  <2> QED BY <1>3, <2>1, <2>2
<1>5. W2[Len(W) + 1] = Header(m)
  <2>1. Len(W) + 1 \in (Len(W) + 1)..Len(W2) /\ (Len(W) + 1) - Len(W) = 1
    BY <1>1, <1>4
  <2> QED BY <1>1, <1>2, <2>1
<1>6. W2[Len(W) + 2] = Text(m)
  <2>1. Len(W) + 2 \in (Len(W) + 1)..Len(W2) /\ (Len(W) + 2) - Len(W) = 2
    BY <1>1, <1>4
  <2> QED BY <1>1, <1>2, <2>1
<1>7. ASSUME NEW i \in (Len(W) + 3)..Len(W2) PROVE W2[i] = Payload(m)
  <2>1. i \in (Len(W) + 1)..Len(W2) /\ i - Len(W) \in 3..Len(h)
    BY <1>1
  <2> QED BY <1>1, <1>2, <2>1
<1>8. ASSUME NEW j \in 1..Len(W2), IsHeader(W2[j]) PROVE j \in 1..Len(W) \/ j = Len(W) + 1
  <2>1. \/ j \in 1..Len(W) \/ j = Len(W) + 1 \/ j = Len(W) + 2 \/ j \in (Len(W) + 3)..Len(W2)
    BY <1>1, <1>4
  <2>2. j # Len(W) + 2
    BY <1>6, <1>8, PartFacts
  <2>3. j \notin (Len(W) + 3)..Len(W2)
    BY <1>7, <1>8, PartFacts
  <2> QED BY <2>1, <2>2, <2>3
<1> QED BY <1>1, <1>2, <1>3, <1>4, <1>5, <1>6, <1>7, <1>8

LEMMA FollowNew ==
  ASSUME NEW W, NEW B, NEW U, NEW c, NEW h, NEW W2, NEW B2, NEW U2, NEW m,
         NewUnits(W, B, U, h, W2, B2, U2, m),
         NEW j \in Nat, NEW k \in 1..Len(B), NEW n \in Nat,
         Follow(W, B, U, c, j, k, n)
  PROVE  Follow(W2, B2, U2, c, j, k, n)
<1>1. /\ Len(W) \in Nat /\ Len(W2) \in Nat /\ Len(W2) >= Len(W) + 2
      /\ Len(B) \in Nat /\ U = 0 /\ Len(B2) = Len(B) + 1
      /\ \A i \in 1..Len(B) : B2[i] = B[i]
      /\ \A i \in 1..Len(W) : W2[i] = W[i]
      /\ IsHeader(W2[Len(W) + 1])
  <2>1. W2[Len(W) + 1] = Header(m)
    BY NewFacts
  <2> QED BY <2>1, NewFacts, PartFacts
<1>2. /\ \A i \in (j + 1)..(j + n) : i <= Len(W) => W[i] \in {Payload(B[k]), Close}
      /\ k < Len(B) => Len(W) >= j + n
      /\ k = Len(B) => Len(W) + U >= j + n
      /\ ~c => /\ k < Len(B) => Len(W) > j + n /\ IsHeader(W[j + n + 1])
               /\ k = Len(B) => Len(W) + U = j + n
  BY DEF Follow
<1>3. Len(W) >= j + n
  BY <1>1, <1>2
<1>4. ASSUME NEW i \in (j + 1)..(j + n) PROVE W2[i] \in {Payload(B2[k]), Close}
  <2>1. i \in 1..Len(W) /\ i <= Len(W)
    BY <1>1, <1>3
  <2> QED BY <1>1, <1>2, <2>1
<1>5. k < Len(B2) /\ k # Len(B2) /\ Len(W2) >= j + n
  BY <1>1, <1>3
<1>6. ASSUME ~c PROVE Len(W2) > j + n /\ IsHeader(W2[j + n + 1])
  <2>1. CASE k < Len(B)
    <3>1. Len(W) > j + n /\ IsHeader(W[j + n + 1])
      BY <1>2, <1>6, <2>1
    <3>2. j + n + 1 \in 1..Len(W) /\ Len(W2) > j + n
      BY <1>1, <3>1
    <3> QED BY <1>1, <3>1, <3>2
  <2>2. CASE k = Len(B)
    <3>1. Len(W) = j + n
      BY <1>1, <1>2, <1>6, <2>2
    <3>2. j + n + 1 = Len(W) + 1 /\ Len(W2) > j + n
      BY <1>1, <3>1
    <3> QED BY <1>1, <3>2
  <2> QED BY <1>1, <2>1, <2>2
<1> QED BY <1>4, <1>5, <1>6 DEF Follow

\* The payload of the new message follows its text.
LEMMA FollowNewest ==
  ASSUME NEW W, NEW B, NEW U, NEW c, NEW h, NEW W2, NEW B2, NEW U2, NEW m,
         NewUnits(W, B, U, h, W2, B2, U2, m)
  PROVE  Follow(W2, B2, U2, c, Len(W) + 2, m.id, m.size)
<1> DEFINE j == Len(W) + 2
           k == Len(B) + 1
           n == m.size
<1>1. /\ Len(W) \in Nat /\ Len(W2) \in Nat /\ Len(W2) + U2 = j + n /\ n \in Nat /\ U2 \in Nat
      /\ Len(B) \in Nat /\ m.id = k /\ Len(B2) = k /\ B2[k] = m
      /\ \A i \in (Len(W) + 3)..Len(W2) : W2[i] = Payload(m)
  BY NewFacts
<1>2. ASSUME NEW i \in (j + 1)..(j + n), i <= Len(W2) PROVE W2[i] \in {Payload(B2[k]), Close}
  <2>1. i \in (Len(W) + 3)..Len(W2)
    BY <1>1, <1>2
  <2> QED BY <1>1, <2>1
<1>3. ~(k < Len(B2)) /\ Len(W2) + U2 >= j + n
  BY <1>1
<1> QED BY <1>1, <1>2, <1>3 DEF Follow

LEMMA HeadersNew ==
  ASSUME NEW W, NEW B, NEW U, NEW h, NEW W2, NEW B2, NEW U2, NEW m,
         NewUnits(W, B, U, h, W2, B2, U2, m),
         NEW o \in Nat, o <= Len(B), HeadersInv(W, B, o)
  PROVE  HeadersInv(W2, B2, o)
<1>1. /\ Len(W) \in Nat /\ Len(W2) \in Nat /\ Len(W2) >= Len(W) + 2
      /\ Len(B) \in Nat /\ m.id = Len(B) + 1
      /\ Len(B2) = Len(B) + 1 /\ B2[Len(B) + 1] = m /\ \A k \in 1..Len(B) : B2[k] = B[k]
      /\ \A i \in 1..Len(W) : W2[i] = W[i]
      /\ W2[Len(W) + 1] = Header(m)
      /\ \A j \in 1..Len(W2) : IsHeader(W2[j]) => j \in 1..Len(W) \/ j = Len(W) + 1
  BY NewFacts
<1>2. IsHeader(W2[Len(W) + 1]) /\ W2[Len(W) + 1].msg = m
  BY <1>1, PartFacts
<1>3. ASSUME NEW j \in 1..Len(W2), IsHeader(W2[j])
      PROVE  W2[j].msg.id \in (o + 1)..Len(B2) /\ W2[j].msg = B2[W2[j].msg.id]
  <2>1. CASE j \in 1..Len(W)
    <3>1. W2[j] = W[j]
      BY <1>1, <2>1
    <3>2. W[j].msg.id \in (o + 1)..Len(B) /\ W[j].msg = B[W[j].msg.id]
      BY <1>3, <2>1, <3>1 DEF HeadersInv
    <3>3. W[j].msg.id \in 1..Len(B) /\ W[j].msg.id \in (o + 1)..Len(B2)
      BY <1>1, <3>2
    <3> QED BY <1>1, <3>1, <3>2, <3>3
  <2>2. CASE j = Len(W) + 1
    <3>1. Len(B) + 1 \in (o + 1)..Len(B2)
      BY <1>1
    <3> QED BY <1>1, <1>2, <2>2, <3>1
  <2> QED BY <1>1, <1>3, <2>1, <2>2
<1>4. ASSUME NEW k \in (o + 1)..Len(B2)
      PROVE  \E j \in 1..Len(W2) : IsHeader(W2[j]) /\ W2[j].msg.id = k
  <2>1. CASE k = Len(B) + 1
    <3>1. Len(W) + 1 \in 1..Len(W2)
      BY <1>1
    <3> QED BY <1>1, <1>2, <2>1, <3>1
  <2>2. CASE k # Len(B) + 1
    <3>1. k \in (o + 1)..Len(B)
      BY <1>1, <2>2
    <3>2. PICK j \in 1..Len(W) : IsHeader(W[j]) /\ W[j].msg.id = k
      BY <3>1 DEF HeadersInv
    <3>3. j \in 1..Len(W2) /\ W2[j] = W[j]
      BY <1>1
    <3> QED BY <3>2, <3>3
  <2> QED BY <2>1, <2>2
<1>5. ASSUME NEW i \in 1..Len(W2), NEW j \in 1..Len(W2),
             i < j, IsHeader(W2[i]), IsHeader(W2[j])
      PROVE  W2[i].msg.id < W2[j].msg.id
  <2>1. i \in 1..Len(W) /\ W2[i] = W[i]
    BY <1>1, <1>5
  <2>2. CASE j \in 1..Len(W)
    <3>1. W2[j] = W[j]
      BY <1>1, <2>2
    <3> QED BY <1>5, <2>1, <2>2, <3>1 DEF HeadersInv
  <2>3. CASE j = Len(W) + 1
    <3>1. W2[j].msg.id = Len(B) + 1
      BY <1>1, <1>2, <2>3
    <3>2. W[i].msg.id \in (o + 1)..Len(B)
      BY <1>5, <2>1 DEF HeadersInv
    <3> QED BY <1>1, <2>1, <3>1, <3>2
  <2> QED BY <1>1, <1>5, <2>2, <2>3
<1> QED BY <1>3, <1>4, <1>5 DEF HeadersInv

LEMMA MessagesNew ==
  ASSUME NEW W, NEW B, NEW U, NEW c, NEW h, NEW W2, NEW B2, NEW U2, NEW m,
         NewUnits(W, B, U, h, W2, B2, U2, m),
         \A i \in 1..Len(B) : B[i] \in Msgs,
         NEW o \in Nat, HeadersInv(W, B, o), MessagesInv(W, B, U, c)
  PROVE  MessagesInv(W2, B2, U2, c)
<1>1. /\ Len(W) \in Nat /\ Len(W2) \in Nat /\ Len(W2) >= Len(W) + 2 /\ Len(B) \in Nat
      /\ \A i \in 1..Len(W) : W2[i] = W[i]
      /\ W2[Len(W) + 1] = Header(m) /\ W2[Len(W) + 2] = Text(m)
      /\ \A j \in 1..Len(W2) : IsHeader(W2[j]) => j \in 1..Len(W) \/ j = Len(W) + 1
  BY NewFacts
<1>2. ASSUME NEW j \in 1..Len(W2), IsHeader(W2[j])
      PROVE  /\ j < Len(W2) /\ W2[j + 1] = Text(W2[j].msg)
             /\ Follow(W2, B2, U2, c, j + 1, W2[j].msg.id, W2[j].msg.size)
  <2>1. CASE j \in 1..Len(W)
    <3>1. W2[j] = W[j] /\ IsHeader(W[j])
      BY <1>1, <1>2, <2>1
    <3>2. /\ j < Len(W) /\ W[j + 1] = Text(W[j].msg)
          /\ Follow(W, B, U, c, j + 1, W[j].msg.id, W[j].msg.size)
      BY <2>1, <3>1 DEF MessagesInv
    <3>3. W[j].msg.id \in (o + 1)..Len(B) /\ W[j].msg = B[W[j].msg.id]
      BY <2>1, <3>1 DEF HeadersInv
    <3>4. W[j].msg.id \in 1..Len(B)
      BY <1>1, <3>3
    <3>5. W[j].msg.size \in Nat
      BY <3>3, <3>4 DEF Msgs
    <3>6. j + 1 \in Nat /\ j + 1 \in 1..Len(W) /\ j < Len(W2)
      BY <1>1, <2>1, <3>2
    <3>7. Follow(W2, B2, U2, c, j + 1, W[j].msg.id, W[j].msg.size)
      BY <3>2, <3>4, <3>5, <3>6, FollowNew
    <3> QED BY <1>1, <3>1, <3>2, <3>6, <3>7
  <2>2. CASE j = Len(W) + 1
    <3>1. W2[j].msg = m /\ j + 1 = Len(W) + 2 /\ j < Len(W2)
      BY <1>1, <2>2, PartFacts
    <3>2. Follow(W2, B2, U2, c, Len(W) + 2, m.id, m.size)
      BY FollowNewest
    <3> QED BY <1>1, <3>1, <3>2
  <2> QED BY <1>1, <1>2, <2>1, <2>2
<1> QED BY <1>2 DEF MessagesInv

-----------------------------------------------------------------------------
(* The reader takes r units.                                               *)

LEMMA FollowDropped ==
  ASSUME NEW W, NEW B, NEW U \in Nat, NEW c, NEW r \in Nat, NEW W2,
         Dropped(W, r, W2), NEW j \in Nat, NEW k, NEW n \in Nat,
         Follow(W, B, U, c, j + r, k, n)
  PROVE  Follow(W2, B, U, c, j, k, n)
<1>1. /\ Len(W) \in Nat /\ r <= Len(W) /\ Len(W2) = Len(W) - r
      /\ \A i \in 1..Len(W2) : i + r \in 1..Len(W) /\ W2[i] = W[i + r]
  BY DEF Dropped
<1>2. /\ \A i \in ((j + r) + 1)..((j + r) + n) : i <= Len(W) => W[i] \in {Payload(B[k]), Close}
      /\ k < Len(B) => Len(W) >= (j + r) + n
      /\ k = Len(B) => Len(W) + U >= (j + r) + n
      /\ ~c => /\ k < Len(B) => Len(W) > (j + r) + n /\ IsHeader(W[(j + r) + n + 1])
               /\ k = Len(B) => Len(W) + U = (j + r) + n
  BY DEF Follow
<1>3. ASSUME NEW i \in (j + 1)..(j + n), i <= Len(W2) PROVE W2[i] \in {Payload(B[k]), Close}
  <2>1. i \in 1..Len(W2) /\ i + r \in ((j + r) + 1)..((j + r) + n) /\ i + r <= Len(W)
    BY <1>1, <1>3
  <2> QED BY <1>1, <1>2, <2>1
<1>4. k < Len(B) => Len(W2) >= j + n
  BY <1>1, <1>2
<1>5. k = Len(B) => Len(W2) + U >= j + n
  BY <1>1, <1>2
<1>6. ASSUME ~c, k < Len(B) PROVE Len(W2) > j + n /\ IsHeader(W2[j + n + 1])
  <2>1. Len(W) > (j + r) + n /\ IsHeader(W[(j + r) + n + 1])
    BY <1>2, <1>6
  <2>2. j + n + 1 \in 1..Len(W2) /\ (j + n + 1) + r = (j + r) + n + 1 /\ Len(W2) > j + n
    BY <1>1, <2>1
  <2>3. W2[j + n + 1] = W[(j + n + 1) + r]
    BY <1>1, <2>2
  <2> QED BY <2>1, <2>2, <2>3, Zenon
<1>7. ASSUME ~c, k = Len(B) PROVE Len(W2) + U = j + n
  BY <1>1, <1>2, <1>7
<1> QED BY <1>3, <1>4, <1>5, <1>6, <1>7 DEF Follow

\* Part of the payload is read.
LEMMA FollowRead ==
  ASSUME NEW W, NEW B, NEW U \in Nat, NEW c, NEW r \in Nat, NEW W2,
         Dropped(W, r, W2), NEW k, NEW n \in Nat, r <= n,
         Follow(W, B, U, c, 0, k, n)
  PROVE  Follow(W2, B, U, c, 0, k, n - r)
<1>1. n - r \in Nat /\ r + (n - r) = n /\ 0 + n = n /\ 0 + r = r
  OBVIOUS
<1>2. /\ \A i \in (0 + 1)..(0 + n) : i <= Len(W) => W[i] \in {Payload(B[k]), Close}
      /\ k < Len(B) => Len(W) >= 0 + n
      /\ k = Len(B) => Len(W) + U >= 0 + n
      /\ ~c => /\ k < Len(B) => Len(W) > 0 + n /\ IsHeader(W[0 + n + 1])
               /\ k = Len(B) => Len(W) + U = 0 + n
  BY DEF Follow
<1>3. /\ \A i \in ((0 + r) + 1)..((0 + r) + (n - r)) : i <= Len(W) => W[i] \in {Payload(B[k]), Close}
      /\ k < Len(B) => Len(W) >= (0 + r) + (n - r)
      /\ k = Len(B) => Len(W) + U >= (0 + r) + (n - r)
      /\ ~c => /\ k < Len(B) => Len(W) > (0 + r) + (n - r) /\ IsHeader(W[(0 + r) + (n - r) + 1])
               /\ k = Len(B) => Len(W) + U = (0 + r) + (n - r)
  BY <1>1, <1>2
<1>4. Follow(W, B, U, c, 0 + r, k, n - r)
  BY <1>3 DEF Follow
<1> QED BY <1>1, <1>4, FollowDropped

LEMMA MessagesDropped ==
  ASSUME NEW W, NEW B, NEW U \in Nat, NEW c, NEW r \in Nat, NEW W2,
         Dropped(W, r, W2), Len(B) \in Nat, \A i \in 1..Len(B) : B[i] \in Msgs,
         NEW o \in Nat, HeadersInv(W, B, o), MessagesInv(W, B, U, c)
  PROVE  MessagesInv(W2, B, U, c)
<1>1. /\ Len(W) \in Nat /\ r <= Len(W) /\ Len(W2) = Len(W) - r
      /\ \A i \in 1..Len(W2) : i + r \in 1..Len(W) /\ W2[i] = W[i + r]
  BY DEF Dropped
<1>2. ASSUME NEW j \in 1..Len(W2), IsHeader(W2[j])
      PROVE  /\ j < Len(W2) /\ W2[j + 1] = Text(W2[j].msg)
             /\ Follow(W2, B, U, c, j + 1, W2[j].msg.id, W2[j].msg.size)
  <2>1. j + r \in 1..Len(W) /\ W2[j] = W[j + r] /\ IsHeader(W[j + r])
    BY <1>1, <1>2
  <2>2. /\ j + r < Len(W) /\ W[(j + r) + 1] = Text(W[j + r].msg)
        /\ Follow(W, B, U, c, (j + r) + 1, W[j + r].msg.id, W[j + r].msg.size)
    BY <2>1 DEF MessagesInv
  <2>3. j + 1 \in 1..Len(W2) /\ (j + 1) + r = (j + r) + 1 /\ j < Len(W2) /\ j + 1 \in Nat
    BY <1>1, <2>1, <2>2
  <2>4. W[j + r].msg.id \in (o + 1)..Len(B) /\ W[j + r].msg = B[W[j + r].msg.id]
    BY <2>1 DEF HeadersInv
  <2>5. W[j + r].msg.id \in 1..Len(B)
    BY <2>4
  <2>6. W[j + r].msg.size \in Nat
    BY <2>4, <2>5 DEF Msgs
  <2>7. Follow(W2, B, U, c, j + 1, W[j + r].msg.id, W[j + r].msg.size)
    <3> DEFINE n == W[j + r].msg.size
               k == W[j + r].msg.id
               i == j + 1
    <3>1. Follow(W, B, U, c, i + r, k, n) /\ n \in Nat /\ i \in Nat
      BY <2>2, <2>3, <2>6, Zenon
    <3> HIDE DEF n, k, i
    <3>2. Follow(W2, B, U, c, i, k, n)
      BY <3>1, FollowDropped
    <3> QED BY <3>2 DEF n, k, i
  <2> QED BY <1>1, <2>1, <2>2, <2>3, <2>7
<1> QED BY <1>2 DEF MessagesInv

\* What is read is no header.
LEMMA HeadersDropped ==
  ASSUME NEW W, NEW B, NEW r \in Nat, NEW W2, Dropped(W, r, W2), Len(B) \in Nat,
         \A i \in 1..r : ~IsHeader(W[i]),
         NEW o \in Nat, HeadersInv(W, B, o)
  PROVE  HeadersInv(W2, B, o)
<1>1. /\ Len(W) \in Nat /\ r <= Len(W) /\ Len(W2) = Len(W) - r
      /\ \A i \in 1..Len(W2) : i + r \in 1..Len(W) /\ W2[i] = W[i + r]
  BY DEF Dropped
<1>2. ASSUME NEW k \in (o + 1)..Len(B)
      PROVE  \E j \in 1..Len(W2) : IsHeader(W2[j]) /\ W2[j].msg.id = k
  <2>1. PICK i \in 1..Len(W) : IsHeader(W[i]) /\ W[i].msg.id = k
    BY DEF HeadersInv
  <2>2. i \notin 1..r
    BY <2>1
  <2>3. i - r \in 1..Len(W2) /\ (i - r) + r = i
    BY <1>1, <2>2
  <2>4. W2[i - r] = W[i]
    BY <1>1, <2>3
  <2> QED BY <2>1, <2>3, <2>4
<1>3. \A j \in 1..Len(W2) :
        IsHeader(W2[j]) => W2[j].msg.id \in (o + 1)..Len(B) /\ W2[j].msg = B[W2[j].msg.id]
  BY <1>1 DEF HeadersInv
<1>4. ASSUME NEW i \in 1..Len(W2), NEW j \in 1..Len(W2),
             i < j, IsHeader(W2[i]), IsHeader(W2[j])
      PROVE  W2[i].msg.id < W2[j].msg.id
  <2>1. i + r \in 1..Len(W) /\ j + r \in 1..Len(W) /\ W2[i] = W[i + r] /\ W2[j] = W[j + r]
    BY <1>1
  <2>2. i + r < j + r
    BY <1>4
  <2>3. IsHeader(W[i + r]) /\ IsHeader(W[j + r])
    BY <1>4, <2>1
  <2>4. W[i + r].msg.id < W[j + r].msg.id
    BY <2>1, <2>2, <2>3 DEF HeadersInv
  <2> QED BY <2>1, <2>4
<1> QED BY <1>2, <1>3, <1>4 DEF HeadersInv

\* The header in front is that of the next message.
LEMMA FirstHeader ==
  ASSUME NEW W, NEW B, Len(W) \in Nat, Len(B) \in Nat, Len(W) > 0, IsHeader(W[1]),
         NEW o \in Nat, HeadersInv(W, B, o)
  PROVE  o + 1 <= Len(B) /\ W[1].msg.id = o + 1 /\ W[1].msg = B[o + 1]
<1>1. 1 \in 1..Len(W)
  OBVIOUS
<1>2. W[1].msg.id \in (o + 1)..Len(B) /\ W[1].msg = B[W[1].msg.id]
  BY <1>1 DEF HeadersInv
<1>3. o + 1 \in (o + 1)..Len(B)
  BY <1>2
<1>4. PICK j \in 1..Len(W) : IsHeader(W[j]) /\ W[j].msg.id = o + 1
  BY <1>3 DEF HeadersInv
<1>5. ~(1 < j)
  <2> SUFFICES ASSUME 1 < j PROVE FALSE
    OBVIOUS
  <2>1. W[1].msg.id < W[j].msg.id
    BY <1>1, <1>4 DEF HeadersInv
  <2> QED BY <1>2, <1>4, <2>1
<1>6. j = 1
  BY <1>4, <1>5
<1> QED BY <1>2, <1>3, <1>4, <1>6

LEMMA HeaderRead ==
  ASSUME NEW W, NEW B, NEW W2, Dropped(W, 1, W2), Len(B) \in Nat,
         Len(W) > 0, IsHeader(W[1]), NEW o \in Nat, HeadersInv(W, B, o)
  PROVE  HeadersInv(W2, B, o + 1)
<1>1. /\ Len(W) \in Nat /\ Len(W2) = Len(W) - 1
      /\ \A i \in 1..Len(W2) : i + 1 \in 1..Len(W) /\ W2[i] = W[i + 1]
  BY DEF Dropped
<1>2. o + 1 <= Len(B) /\ W[1].msg.id = o + 1 /\ W[1].msg = B[o + 1]
  BY <1>1, FirstHeader
<1>3. 1 \in 1..Len(W)
  BY <1>1
<1>4. ASSUME NEW j \in 1..Len(W2), IsHeader(W2[j])
      PROVE  W2[j].msg.id \in ((o + 1) + 1)..Len(B) /\ W2[j].msg = B[W2[j].msg.id]
  <2>1. j + 1 \in 1..Len(W) /\ W2[j] = W[j + 1] /\ 1 < j + 1
    BY <1>1
  <2>2. W[j + 1].msg.id \in (o + 1)..Len(B) /\ W[j + 1].msg = B[W[j + 1].msg.id]
    BY <1>4, <2>1 DEF HeadersInv
  <2>3. W[1].msg.id < W[j + 1].msg.id
    BY <1>3, <1>4, <2>1 DEF HeadersInv
  <2> QED BY <1>2, <2>1, <2>2, <2>3
<1>5. ASSUME NEW k \in ((o + 1) + 1)..Len(B)
      PROVE  \E j \in 1..Len(W2) : IsHeader(W2[j]) /\ W2[j].msg.id = k
  <2>1. k \in (o + 1)..Len(B) /\ k # o + 1
    OBVIOUS
  <2>2. PICK i \in 1..Len(W) : IsHeader(W[i]) /\ W[i].msg.id = k
    BY <2>1 DEF HeadersInv
  <2>3. i # 1
    BY <1>2, <2>1, <2>2
  <2>4. i - 1 \in 1..Len(W2) /\ (i - 1) + 1 = i
    BY <1>1, <2>3
  <2>5. W2[i - 1] = W[i]
    BY <1>1, <2>4
  <2> QED BY <2>2, <2>4, <2>5
<1>6. ASSUME NEW i \in 1..Len(W2), NEW j \in 1..Len(W2),
             i < j, IsHeader(W2[i]), IsHeader(W2[j])
      PROVE  W2[i].msg.id < W2[j].msg.id
  <2>1. i + 1 < j + 1
    BY <1>6
  <2> QED BY <1>1, <1>6, <2>1 DEF HeadersInv
<1> QED BY <1>4, <1>5, <1>6 DEF HeadersInv

-----------------------------------------------------------------------------
(* Steps.                                                                  *)

LEMMA TypeFacts ==
  FramingTypeOK =>
    /\ wire \in Seq(Units) /\ begun \in Seq(Msgs) /\ delivered \in Seq(Msgs)
    /\ Len(wire) \in Nat /\ Len(begun) \in Nat /\ Len(delivered) \in Nat
    /\ \A i \in 1..Len(begun) : begun[i] \in Msgs /\ begun[i].size \in Nat
    /\ rest \in Nat /\ Current \in Nat /\ Current >= 1
<1> SUFFICES ASSUME FramingTypeOK
    PROVE  /\ wire \in Seq(Units) /\ begun \in Seq(Msgs) /\ delivered \in Seq(Msgs)
           /\ Len(wire) \in Nat /\ Len(begun) \in Nat /\ Len(delivered) \in Nat
           /\ \A i \in 1..Len(begun) : begun[i] \in Msgs /\ begun[i].size \in Nat
           /\ rest \in Nat /\ Current \in Nat /\ Current >= 1
  OBVIOUS
<1>1. /\ wire \in Seq(Units) /\ begun \in Seq(Msgs) /\ delivered \in Seq(Msgs) /\ rest \in Nat
  BY DEF FramingTypeOK
<1>2. /\ Len(wire) \in Nat /\ Len(begun) \in Nat /\ Len(delivered) \in Nat
  BY <1>1, LenProperties
<1>3. \A i \in 1..Len(begun) : begun[i] \in Msgs
  BY <1>1, ElementOfSeq
<1>4. \A m \in Msgs : m.size \in Nat
  BY DEF Msgs
<1>5. Current \in Nat /\ Current >= 1
  BY <1>2 DEF Current
<1> QED BY <1>1, <1>2, <1>3, <1>4, <1>5

\* Units are left to write only for the last message, and only for a job.
LEMMA UnwrittenFacts ==
  FramingTypeOK /\ WriterInv =>
    /\ Unwritten \in Nat
    /\ data[Generator] = <<>> => Unwritten = 0
    /\ data[Generator] # <<>> => Unwritten > 0
<1> SUFFICES ASSUME FramingTypeOK, WriterInv
    PROVE  /\ Unwritten \in Nat
           /\ data[Generator] = <<>> => Unwritten = 0
           /\ data[Generator] # <<>> => Unwritten > 0
  OBVIOUS
<1> DEFINE p == data[Generator]
<1>1. Generator \in Senders
  BY DEF Senders
<1>2. p \in Seq(Seq(Units))
  BY <1>1 DEF FramingTypeOK
<1>3. CASE p = <<>>
  BY <1>3 DEF Unwritten, Left
<1>4. CASE p # <<>>
  <2>1. PacketsOf(p, begun[Len(begun)])
    BY <1>1, <1>4 DEF WriterInv
  <2> HIDE DEF p
  <2>2. Left(p) \in Nat /\ Left(p) # 0
    BY <1>2, <1>4, <2>1, LeftType
  <2>3. Unwritten = Left(p)
    BY DEF Unwritten, p
  <2>4. Left(p) > 0
    BY <2>2
  <2> QED BY <1>4, <2>2, <2>3, <2>4 DEF p
<1> QED BY <1>3, <1>4

LEMMA UnwrittenFactsNext ==
  (FramingTypeOK /\ WriterInv =>
     /\ Unwritten \in Nat
     /\ data[Generator] = <<>> => Unwritten = 0
     /\ data[Generator] # <<>> => Unwritten > 0)'
  BY UnwrittenFacts, PTL

\* A message is half written, or all are written to their end.
LEMMA OpenedFacts ==
  ASSUME FramingTypeOK, OrderInv, WireInv
  PROVE  /\ Opened(Len(delivered), rcv) \in Nat /\ Opened(Len(delivered), rcv) <= Len(begun)
         /\ Len(delivered) <= Len(begun)
<1>1. Len(delivered) \in Nat /\ Len(begun) \in Nat
  BY TypeFacts
<1>2. Len(delivered) <= Len(begun)
  BY DEF OrderInv
<1>3. rcv \in {"text", "payload"} => Current <= Len(begun)
  BY DEF WireInv, AtText, AtPayload
<1> QED BY <1>1, <1>2, <1>3 DEF Opened, Current

\* The wire is longer, the reader where it was.
LEMMA WireMore ==
  ASSUME FramingTypeOK, OrderInv, WireInv, NEW e,
         MoreUnits(wire, begun, Unwritten, Closed, e, wire', Unwritten', Closed'),
         UNCHANGED <<begun, delivered, rcv, rest, msg>>
  PROVE  WireInv'
<1> DEFINE o == Opened(Len(delivered), rcv)
           k == Current
<1>1. /\ o \in Nat /\ Len(wire) \in Nat /\ Len(begun) \in Nat /\ rest \in Nat /\ k \in Nat /\ k >= 1
      /\ \A i \in 1..Len(begun) : begun[i] \in Msgs /\ begun[i].size \in Nat
  BY OpenedFacts, TypeFacts
<1>2. /\ HeadersInv(wire, begun, o)
      /\ MessagesInv(wire, begun, Unwritten, Closed)
      /\ rcv = "header" => AtHeader(wire, begun, Unwritten, Closed, k)
      /\ rcv = "text" => AtText(wire, begun, Unwritten, Closed, k)
      /\ rcv = "payload" => AtPayload(wire, begun, Unwritten, Closed, k, msg, rest)
  BY DEF WireInv
<1>3. /\ o' = o /\ k' = k /\ begun' = begun /\ rcv' = rcv /\ rest' = rest /\ msg' = msg
  BY DEF Current
<1> HIDE DEF o, k
<1>4. HeadersInv(wire', begun, o)
  BY <1>2, HeadersMore, Zenon
<1>5. MessagesInv(wire', begun, Unwritten', Closed')
  <2>1. \A i \in 1..Len(begun) : begun[i] \in Msgs
    BY <1>1
  <2> QED BY <1>1, <1>2, <2>1, MessagesMore, Zenon
<1>6. /\ Len(wire) \in Nat /\ Len(e) \in Nat /\ Len(wire') = Len(wire) + Len(e)
      /\ \A i \in 1..Len(wire) : wire'[i] = wire[i]
      /\ Unwritten \in Nat /\ Unwritten' \in Nat
      /\ ~(Closed') => ~Closed /\ Unwritten = Len(e) + Unwritten'
  BY DEF MoreUnits, Extended
<1>7. rcv = "header" => AtHeader(wire', begun, Unwritten', Closed', k)
  <2> SUFFICES ASSUME rcv = "header", ~(Closed')
               PROVE  /\ k <= Len(begun) => Len(wire') > 0 /\ IsHeader(wire'[1])
                      /\ k > Len(begun) => Len(wire') + Unwritten' = 0
    BY DEF AtHeader
  <2>1. /\ k <= Len(begun) => Len(wire) > 0 /\ IsHeader(wire[1])
        /\ k > Len(begun) => Len(wire) + Unwritten = 0
    BY <1>2, <1>6 DEF AtHeader
  <2>2. k <= Len(begun) => 1 \in 1..Len(wire) /\ Len(wire') > 0
    BY <1>6, <2>1
  <2>3. k > Len(begun) => Len(wire') + Unwritten' = 0
    BY <1>6, <2>1
  <2> QED BY <1>6, <2>1, <2>2, <2>3
<1>8. rcv = "text" => AtText(wire', begun, Unwritten', Closed', k)
  <2> SUFFICES ASSUME rcv = "text"
               PROVE  /\ k <= Len(begun) /\ Len(wire') > 0 /\ wire'[1] = Text(begun[k])
                      /\ Follow(wire', begun, Unwritten', Closed', 1, k, begun[k].size)
    BY DEF AtText
  <2>1. /\ k <= Len(begun) /\ Len(wire) > 0 /\ wire[1] = Text(begun[k])
        /\ Follow(wire, begun, Unwritten, Closed, 1, k, begun[k].size)
    BY <1>2 DEF AtText
  <2>2. 1 \in 1..Len(wire) /\ Len(wire') > 0 /\ 1 \in Nat
    BY <1>6, <2>1
  <2>3. begun[k].size \in Nat
    <3>1. k \in 1..Len(begun)
      BY <1>1, <2>1
    <3> QED BY <1>1, <3>1
  <2>4. Follow(wire', begun, Unwritten', Closed', 1, k, begun[k].size)
    <3> DEFINE n == begun[k].size
    <3>1. n \in Nat /\ Follow(wire, begun, Unwritten, Closed, 1, k, n)
      BY <2>1, <2>3
    <3> HIDE DEF n
    <3>2. Follow(wire', begun, Unwritten', Closed', 1, k, n)
      BY <1>1, <2>1, <2>2, <3>1, FollowMore, Zenon
    <3> QED BY <3>2 DEF n
  <2> QED BY <1>6, <2>1, <2>2, <2>4
<1>9. rcv = "payload" => AtPayload(wire', begun, Unwritten', Closed', k, msg, rest)
  <2> SUFFICES ASSUME rcv = "payload"
               PROVE  /\ k <= Len(begun) /\ msg = begun[k] /\ rest > 0
                      /\ Follow(wire', begun, Unwritten', Closed', 0, k, rest)
    BY DEF AtPayload
  <2>1. /\ k <= Len(begun) /\ msg = begun[k] /\ rest > 0
        /\ Follow(wire, begun, Unwritten, Closed, 0, k, rest)
    BY <1>2 DEF AtPayload
  <2>2. 0 \in Nat
    OBVIOUS
  <2>3. Follow(wire', begun, Unwritten', Closed', 0, k, rest)
    BY <1>1, <2>1, <2>2, FollowMore, Zenon
  <2> QED BY <2>1, <2>3
<1> QED BY <1>3, <1>4, <1>5, <1>7, <1>8, <1>9 DEF WireInv, o, k

LEMMA WireNew ==
  ASSUME FramingTypeOK, OrderInv, WireInv, NEW h, NEW m,
         NewUnits(wire, begun, Unwritten, h, wire', begun', Unwritten', m),
         UNCHANGED <<closing, delivered, rcv, rest, msg>>
  PROVE  WireInv'
<1> DEFINE o == Opened(Len(delivered), rcv)
           k == Current
           c == Closed
<1>1. /\ o \in Nat /\ o <= Len(begun) /\ Len(wire) \in Nat /\ Len(begun) \in Nat
      /\ rest \in Nat /\ k \in Nat /\ k >= 1 /\ k <= Len(begun) + 1
      /\ \A i \in 1..Len(begun) : begun[i] \in Msgs /\ begun[i].size \in Nat
  BY OpenedFacts, TypeFacts DEF Current
<1>2. /\ HeadersInv(wire, begun, o)
      /\ MessagesInv(wire, begun, Unwritten, c)
      /\ rcv = "header" => AtHeader(wire, begun, Unwritten, c, k)
      /\ rcv = "text" => AtText(wire, begun, Unwritten, c, k)
      /\ rcv = "payload" => AtPayload(wire, begun, Unwritten, c, k, msg, rest)
  BY DEF WireInv
<1>3. /\ o' = o /\ k' = k /\ c' = c /\ rcv' = rcv /\ rest' = rest /\ msg' = msg
  BY DEF Current, Closed
<1> HIDE DEF o, k, c
<1>4. HeadersInv(wire', begun', o)
  BY <1>1, <1>2, HeadersNew, Zenon
<1>5. MessagesInv(wire', begun', Unwritten', c)
  <2>1. \A i \in 1..Len(begun) : begun[i] \in Msgs
    BY <1>1
  <2> QED BY <1>1, <1>2, <2>1, MessagesNew, Zenon
<1>6. /\ Len(wire') \in Nat /\ Len(wire') >= Len(wire) + 2 /\ Unwritten = 0
      /\ Len(begun') = Len(begun) + 1 /\ \A i \in 1..Len(begun) : begun'[i] = begun[i]
      /\ \A i \in 1..Len(wire) : wire'[i] = wire[i]
      /\ IsHeader(wire'[Len(wire) + 1])
  <2> DEFINE W2 == wire'
             B2 == begun'
             U2 == Unwritten'
             U == Unwritten
  <2>1. NewUnits(wire, begun, U, h, W2, B2, U2, m)
    OBVIOUS
  <2> HIDE DEF W2, B2, U2, U
  <2>2. /\ Len(W2) \in Nat /\ Len(W2) >= Len(wire) + 2 /\ U = 0
        /\ Len(B2) = Len(begun) + 1 /\ \A i \in 1..Len(begun) : B2[i] = begun[i]
        /\ \A i \in 1..Len(wire) : W2[i] = wire[i]
        /\ W2[Len(wire) + 1] = Header(m)
    BY <2>1, NewFacts
  <2>3. IsHeader(W2[Len(wire) + 1])
    BY <2>2, PartFacts
  <2> QED BY <2>2, <2>3 DEF W2, B2, U2, U
<1>7. rcv = "header" => AtHeader(wire', begun', Unwritten', c, k)
  <2> SUFFICES ASSUME rcv = "header", ~c
               PROVE  /\ k <= Len(begun') => Len(wire') > 0 /\ IsHeader(wire'[1])
                      /\ k > Len(begun') => Len(wire') + Unwritten' = 0
    BY DEF AtHeader
  <2>1. /\ k <= Len(begun) => Len(wire) > 0 /\ IsHeader(wire[1])
        /\ k > Len(begun) => Len(wire) + Unwritten = 0
    BY <1>2 DEF AtHeader
  <2>2. ~(k > Len(begun')) /\ Len(wire') > 0
    BY <1>1, <1>6
  <2>3. CASE k <= Len(begun)
    <3>1. 1 \in 1..Len(wire)
      BY <1>1, <2>1, <2>3
    <3> QED BY <1>6, <2>1, <2>2, <2>3, <3>1
  <2>4. CASE k > Len(begun)
    <3>1. Len(wire) + 1 = 1
      BY <1>1, <1>6, <2>1, <2>4
    <3> QED BY <1>6, <2>2, <3>1
  <2> QED BY <1>1, <2>3, <2>4
<1>8. rcv = "text" => AtText(wire', begun', Unwritten', c, k)
  <2> SUFFICES ASSUME rcv = "text"
               PROVE  /\ k <= Len(begun') /\ Len(wire') > 0 /\ wire'[1] = Text(begun'[k])
                      /\ Follow(wire', begun', Unwritten', c, 1, k, begun'[k].size)
    BY DEF AtText
  <2>1. /\ k <= Len(begun) /\ Len(wire) > 0 /\ wire[1] = Text(begun[k])
        /\ Follow(wire, begun, Unwritten, c, 1, k, begun[k].size)
    BY <1>2 DEF AtText
  <2>2. 1 \in 1..Len(wire) /\ k \in 1..Len(begun) /\ 1 \in Nat
    BY <1>1, <2>1
  <2>3. k <= Len(begun') /\ Len(wire') > 0
    BY <1>1, <1>6, <2>1
  <2>4. begun[k].size \in Nat /\ begun'[k] = begun[k] /\ wire'[1] = wire[1]
    BY <1>1, <1>6, <2>2
  <2>5. Follow(wire', begun', Unwritten', c, 1, k, begun[k].size)
    <3> DEFINE n == begun[k].size
    <3>1. n \in Nat /\ Follow(wire, begun, Unwritten, c, 1, k, n)
      BY <2>1, <2>4
    <3> HIDE DEF n
    <3>2. Follow(wire', begun', Unwritten', c, 1, k, n)
      BY <2>2, <3>1, FollowNew, Zenon
    <3> QED BY <3>2 DEF n
  <2> QED BY <2>1, <2>3, <2>4, <2>5
<1>9. rcv = "payload" => AtPayload(wire', begun', Unwritten', c, k, msg, rest)
  <2> SUFFICES ASSUME rcv = "payload"
               PROVE  /\ k <= Len(begun') /\ msg = begun'[k] /\ rest > 0
                      /\ Follow(wire', begun', Unwritten', c, 0, k, rest)
    BY DEF AtPayload
  <2>1. /\ k <= Len(begun) /\ msg = begun[k] /\ rest > 0
        /\ Follow(wire, begun, Unwritten, c, 0, k, rest)
    BY <1>2 DEF AtPayload
  <2>2. 0 \in Nat /\ k \in 1..Len(begun) /\ k <= Len(begun')
    BY <1>1, <1>6, <2>1
  <2>3. Follow(wire', begun', Unwritten', c, 0, k, rest)
    BY <1>1, <2>1, <2>2, FollowNew, Zenon
  <2> QED BY <1>6, <2>1, <2>2, <2>3
<1> QED BY <1>3, <1>4, <1>5, <1>7, <1>8, <1>9 DEF WireInv, o, k, c

LEMMA SendMsgStep ==
  ASSUME FInv, NEW t \in Senders, NEW size \in Payloads, SendMsg(t, size)
  PROVE  FInv'
<1> DEFINE m == [id |-> Len(begun) + 1, size |-> size]
           h == Head(Packets(Data(m)))
           q == Tail(Packets(Data(m)))
<1>1. /\ MaySend(t, size) /\ data[t] = <<>>
      /\ data' = [data EXCEPT ![t] = q] /\ wire' = wire \o h /\ begun' = Append(begun, m)
      /\ UNCHANGED <<stream, closing, eof, rcv, rest, msg, delivered>>
  BY DEF SendMsg
<1>2. FramingTypeOK /\ WriterInv /\ OrderInv
  BY DEF FInv
<1>3. /\ wire \in Seq(Units) /\ begun \in Seq(Msgs) /\ delivered \in Seq(Msgs)
      /\ Len(wire) \in Nat /\ Len(begun) \in Nat /\ Len(delivered) \in Nat
  BY <1>2, TypeFacts
<1>4. m \in Msgs /\ m.id = Len(begun) + 1 /\ m.size = size /\ size \in Nat
  BY <1>3, PayloadsAssumption DEF Msgs
<1> HIDE DEF m
<1>5. /\ h \in Seq(Units) /\ Len(h) >= 2 /\ h[1] = Header(m) /\ h[2] = Text(m)
      /\ \A i \in 3..Len(h) : h[i] = Payload(m)
      /\ q \in Seq(Seq(Units)) /\ PacketsOf(q, m)
      /\ Len(h) + Left(q) = m.size + 2
      /\ m.size = 0 => q = <<>>
  BY <1>4, FirstPacket, Zenon
<1> HIDE DEF h, q
<1>6. data \in [Senders -> Seq(Seq(Units))] /\ Generator \in Senders
  BY <1>2 DEF FramingTypeOK, Senders
<1>7. /\ \A s \in Senders : data'[s] = IF s = t THEN q ELSE data[s]
      /\ data' \in [Senders -> Seq(Seq(Units))]
  BY <1>1, <1>5, <1>6
<1>8. data[Generator] = <<>>
  <2>1. CASE stream = "to_server"
    BY <1>1, <2>1 DEF MaySend
  <2>2. CASE stream # "to_server"
    BY <1>2, <1>6, <2>2 DEF WriterInv
  <2> QED BY <2>1, <2>2
<1>9. q # <<>> => stream = "to_server" /\ t = Generator
  BY <1>1, <1>4, <1>5 DEF MaySend
<1>10. data'[Generator] = q
  BY <1>6, <1>7, <1>8, <1>9
<1>11. Unwritten = 0 /\ Unwritten' = Left(q)
  BY <1>2, <1>8, <1>10, UnwrittenFacts DEF Unwritten
<1>12. Left(q) \in Nat
  BY <1>5, LeftType
<1>13. /\ begun' \in Seq(Msgs) /\ Len(begun') = Len(begun) + 1
       /\ begun'[Len(begun) + 1] = m /\ \A k \in 1..Len(begun) : begun'[k] = begun[k]
  BY <1>1, <1>3, <1>4, AppendProperties
<1>14. Extended(wire, h, wire') /\ wire' \in Seq(Units)
  BY <1>1, <1>3, <1>5, ConcatExtends
<1>15. FramingTypeOK'
  BY <1>1, <1>2, <1>7, <1>13, <1>14 DEF FramingTypeOK
<1>16. WriterInv'
  <2> SUFFICES ASSUME NEW s \in Senders, data'[s] # <<>>
      PROVE  /\ stream' = "to_server" /\ s = Generator
             /\ begun' # <<>> /\ PacketsOf(data'[s], begun'[Len(begun')])
    BY DEF WriterInv
  <2>1. s = t
    <3> SUFFICES ASSUME s # t PROVE FALSE
      OBVIOUS
    <3>1. data[s] # <<>>
      BY <1>7
    <3>2. stream = "to_server" /\ s = Generator
      BY <1>2, <3>1 DEF WriterInv
    <3> QED BY <1>1, <3>2 DEF MaySend
  <2>2. data'[s] = q /\ q # <<>>
    BY <1>7, <2>1
  <2>3. begun' # <<>>
    <3>1. Len(begun') # 0
      BY <1>3, <1>13
    <3>2. Len(<<>>) = 0
      OBVIOUS
    <3> QED BY <3>1, <3>2, Zenon
  <2>4. begun'[Len(begun')] = m
    BY <1>13
  <2> QED BY <1>1, <1>5, <1>9, <2>1, <2>2, <2>3, <2>4
<1>17. OrderInv'
  <2>1. \A k \in 1..Len(begun') : begun'[k].id = k
    <3> SUFFICES ASSUME NEW k \in 1..Len(begun') PROVE begun'[k].id = k
      OBVIOUS
    <3>1. k \in 1..Len(begun) \/ k = Len(begun) + 1
      BY <1>3, <1>13
    <3> QED BY <1>2, <1>4, <1>13, <3>1 DEF OrderInv
  <2>2. Len(delivered) <= Len(begun)
    BY <1>2 DEF OrderInv
  <2>3. Len(delivered') <= Len(begun')
    BY <1>1, <1>3, <1>13, <2>2
  <2>4. ASSUME NEW k \in 1..Len(delivered') PROVE delivered'[k] = begun'[k]
    <3>1. k \in 1..Len(delivered) /\ k \in 1..Len(begun)
      BY <1>1, <1>3, <2>2
    <3> QED BY <1>1, <1>2, <1>13, <3>1 DEF OrderInv
  <2> QED BY <2>1, <2>3, <2>4 DEF OrderInv
<1>18. ASSUME WireInv PROVE WireInv'
  <2>1. NewUnits(wire, begun, Unwritten, h, wire', begun', Unwritten', m)
    BY <1>3, <1>4, <1>5, <1>11, <1>12, <1>13, <1>14 DEF NewUnits
  <2> QED BY <1>1, <1>2, <1>18, <2>1, WireNew
<1> QED BY <1>1, <1>15, <1>16, <1>17, <1>18 DEF FInv, Ended, Closed

LEMMA SendPacketStep ==
  ASSUME FInv, NEW t \in Senders, SendPacket(t)
  PROVE  FInv'
<1> DEFINE p == data[t]
           h == Head(p)
           q == Tail(p)
           m == begun[Len(begun)]
<1>1. /\ p # <<>> /\ wire' = wire \o h /\ data' = [data EXCEPT ![t] = q]
      /\ UNCHANGED <<stream, closing, eof, rcv, rest, msg, begun, delivered>>
  BY DEF SendPacket
<1>2. FramingTypeOK /\ WriterInv /\ OrderInv
  BY DEF FInv
<1>3. wire \in Seq(Units) /\ Len(begun) \in Nat
  BY <1>2, TypeFacts
<1>4. data \in [Senders -> Seq(Seq(Units))] /\ p \in Seq(Seq(Units)) /\ Generator \in Senders
  BY <1>2 DEF FramingTypeOK, Senders
<1>5. stream = "to_server" /\ t = Generator /\ begun # <<>> /\ PacketsOf(p, m)
  BY <1>1, <1>2 DEF WriterInv
<1>6. Unwritten = Left(p)
  BY <1>5 DEF Unwritten
<1> HIDE DEF m, p
<1>7. /\ q \in Seq(Seq(Units)) /\ PacketsOf(q, m)
      /\ h \in Seq(Units) /\ \A k \in 1..Len(h) : h[k] = Payload(m)
      /\ Len(h) + Left(q) = Left(p)
  BY <1>1, <1>4, <1>5, LeftTail
<1> HIDE DEF h, q
<1>8. /\ \A s \in Senders : data'[s] = IF s = t THEN q ELSE data[s]
      /\ data' \in [Senders -> Seq(Seq(Units))]
  BY <1>1, <1>4, <1>7
<1>9. Unwritten' = Left(q)
  BY <1>5, <1>8 DEF Unwritten
<1>10. Left(q) \in Nat /\ Left(p) \in Nat
  BY <1>4, <1>5, <1>7, LeftType
<1>11. Extended(wire, h, wire') /\ wire' \in Seq(Units)
  BY <1>1, <1>3, <1>7, ConcatExtends
<1>12. FramingTypeOK'
  BY <1>1, <1>2, <1>8, <1>11 DEF FramingTypeOK
<1>13. WriterInv'
  <2> SUFFICES ASSUME NEW s \in Senders, data'[s] # <<>>
      PROVE  /\ stream' = "to_server" /\ s = Generator
             /\ begun' # <<>> /\ PacketsOf(data'[s], begun'[Len(begun')])
    BY DEF WriterInv
  <2>1. CASE s = t
    BY <1>1, <1>5, <1>7, <1>8, <2>1 DEF m
  <2>2. CASE s # t
    <3>1. data[s] # <<>>
      BY <1>8, <2>2
    <3> QED BY <1>2, <1>5, <2>2, <3>1 DEF WriterInv
  <2> QED BY <2>1, <2>2
<1>14. OrderInv'
  BY <1>1, <1>2 DEF OrderInv
<1>15. ASSUME WireInv PROVE WireInv'
  <2>1. \A i \in 1..Len(h) : h[i] \in {Payload(begun[Len(begun)]), Close}
    BY <1>7 DEF m
  <2>2. Unwritten \in Nat /\ Unwritten' \in Nat /\ Unwritten = Len(h) + Unwritten'
    BY <1>6, <1>7, <1>9, <1>10
  <2>3. Unwritten <= Len(h) + Unwritten'
    <3> HIDE DEF Unwritten
    <3> QED BY <2>2
  <2>4. ~(Closed') => ~Closed
    BY <1>1 DEF Closed
  <2>5. MoreUnits(wire, begun, Unwritten, Closed, h, wire', Unwritten', Closed')
    BY <1>3, <1>11, <2>1, <2>2, <2>3, <2>4 DEF MoreUnits
  <2> QED BY <1>1, <1>2, <1>15, <2>5, WireMore
<1> QED BY <1>1, <1>12, <1>13, <1>14, <1>15 DEF FInv, Ended, Closed

LEMMA SendCloseStep ==
  ASSUME FInv, NEW l \in Listeners, SendClose(l)
  PROVE  FInv'
<1> DEFINE e == <<Close>>
<1>1. /\ closing' = closing \cup {l} /\ wire' = Append(wire, Close)
      /\ UNCHANGED <<stream, data, eof, rcv, rest, msg, begun, delivered>>
  BY DEF SendClose, Close
<1>2. FramingTypeOK /\ WriterInv /\ OrderInv
  BY DEF FInv
<1>3. wire \in Seq(Units) /\ Len(begun) \in Nat
  BY <1>2, TypeFacts
<1>4. Close \in Units
  BY DEF Units, Close
<1>5. e \in Seq(Units) /\ Len(e) = 1 /\ e[1] = Close
  BY <1>4
<1>6. wire' = wire \o e
  BY <1>1, <1>3, <1>4, AppendIsConcat
<1> HIDE DEF e
<1>7. Extended(wire, e, wire') /\ wire' \in Seq(Units)
  BY <1>3, <1>5, <1>6, ConcatExtends
<1>8. Unwritten' = Unwritten /\ Unwritten \in Nat
  BY <1>1, <1>2, UnwrittenFacts DEF Unwritten
<1>9. FramingTypeOK'
  BY <1>1, <1>2, <1>7 DEF FramingTypeOK
<1>10. WriterInv' /\ OrderInv'
  BY <1>1, <1>2 DEF WriterInv, OrderInv
<1>11. Closed'
  BY <1>1 DEF Closed
<1>12. ASSUME WireInv PROVE WireInv'
  <2>1. \A i \in 1..Len(e) : e[i] \in {Payload(begun[Len(begun)]), Close}
    BY <1>5
  <2>2. Unwritten <= Len(e) + Unwritten'
    <3> HIDE DEF Unwritten
    <3> QED BY <1>5, <1>8
  <2>3. Unwritten' \in Nat
    BY <1>8
  <2>4. MoreUnits(wire, begun, Unwritten, Closed, e, wire', Unwritten', Closed')
    BY <1>3, <1>7, <1>8, <1>11, <2>1, <2>2, <2>3 DEF MoreUnits
  <2> QED BY <1>1, <1>2, <1>12, <2>4, WireMore
<1> QED BY <1>1, <1>9, <1>10, <1>11, <1>12 DEF FInv, Ended

LEMMA IdleStep ==
  ASSUME FInv, UNCHANGED <<stream, data, closing, wire, rcv, rest, msg, begun, delivered>>,
         eof' \in BOOLEAN
  PROVE  FInv'
<1>1. FramingTypeOK' /\ WriterInv' /\ OrderInv'
  BY DEF FInv, FramingTypeOK, WriterInv, OrderInv
<1>2. Unwritten' = Unwritten /\ Closed' = Closed /\ Current' = Current /\ Ended' = Ended
  BY DEF Unwritten, Closed, Current, Ended
<1>3. WireInv => WireInv'
  BY <1>2 DEF WireInv
<1> QED BY <1>1, <1>2, <1>3 DEF FInv

\* The sending side stands still.
LEMMA ReaderFacts ==
  ASSUME FInv, ~Ended, UNCHANGED sideOfSender
  PROVE  /\ FramingTypeOK /\ WriterInv /\ OrderInv /\ WireInv /\ WriterInv'
         /\ begun' = begun /\ Unwritten' = Unwritten /\ Closed' = Closed /\ Unwritten \in Nat
<1>1. FramingTypeOK /\ WriterInv /\ OrderInv /\ WireInv
  BY DEF FInv
<1>2. WriterInv'
  BY <1>1 DEF WriterInv, sideOfSender
<1> QED BY <1>1, <1>2, UnwrittenFacts DEF Unwritten, Closed, sideOfSender

\* Message number k is delivered.
LEMMA DeliverStep ==
  ASSUME FramingTypeOK, OrderInv, Current <= Len(begun), begun' = begun,
         delivered' = Append(delivered, begun[Current])
  PROVE  /\ OrderInv' /\ delivered' \in Seq(Msgs)
         /\ Len(delivered') = Len(delivered) + 1 /\ Current' = Current + 1
<1>1. /\ delivered \in Seq(Msgs) /\ Len(delivered) \in Nat /\ Len(begun) \in Nat
      /\ \A i \in 1..Len(begun) : begun[i] \in Msgs
      /\ Current \in Nat /\ Current >= 1
  BY TypeFacts
<1>2. Current = Len(delivered) + 1
  BY DEF Current
<1>3. begun[Current] \in Msgs
  BY <1>1
<1>4. /\ delivered' \in Seq(Msgs) /\ Len(delivered') = Len(delivered) + 1
      /\ delivered'[Len(delivered) + 1] = begun[Current]
      /\ \A i \in 1..Len(delivered) : delivered'[i] = delivered[i]
  BY <1>1, <1>3, AppendProperties
<1>5. ASSUME NEW i \in 1..Len(delivered') PROVE delivered'[i] = begun'[i]
  <2>1. i \in 1..Len(delivered) \/ i = Len(delivered) + 1
    BY <1>1, <1>4
  <2> QED BY <1>2, <1>4, <2>1 DEF OrderInv
<1>6. OrderInv'
  BY <1>1, <1>2, <1>4, <1>5 DEF OrderInv
<1>7. Current' = Current + 1
  BY <1>1, <1>4 DEF Current
<1> QED BY <1>4, <1>6, <1>7

\* A message has been read to its end: its successor is next.
LEMMA NextMessage ==
  ASSUME NEW W, NEW B, NEW U \in Nat, NEW c, NEW k \in Nat, Len(W) \in Nat, Len(B) \in Nat,
         k <= Len(B), Follow(W, B, U, c, 0, k, 0)
  PROVE  AtHeader(W, B, U, c, k + 1)
<1>1. ~c => /\ k < Len(B) => Len(W) > 0 + 0 /\ IsHeader(W[0 + 0 + 1])
            /\ k = Len(B) => Len(W) + U = 0 + 0
  BY DEF Follow
<1>2. ~c => /\ k < Len(B) => Len(W) > 0 /\ IsHeader(W[1])
            /\ k = Len(B) => Len(W) + U = 0
  BY <1>1
<1>3. /\ k + 1 <= Len(B) => k < Len(B)
      /\ k + 1 > Len(B) => k = Len(B)
  OBVIOUS
<1> QED BY <1>2, <1>3 DEF AtHeader

LEMMA RecvHeaderStep ==
  ASSUME FInv, RecvHeader
  PROVE  FInv'
<1> DEFINE k == Current
           size == begun[k].size
<1>1. /\ rcv = "header" /\ wire # <<>> /\ wire' = Tail(wire)
      /\ rcv' = CASE Head(wire).part = "header" -> "text"
                  [] Head(wire).part = "close" -> "closed"
                  [] OTHER -> "error"
      /\ UNCHANGED <<sideOfSender, rest, msg, delivered>>
  BY DEF RecvHeader
<1>2. ~Ended
  BY <1>1 DEF Ended
<1>3. /\ FramingTypeOK /\ WriterInv /\ OrderInv /\ WireInv /\ WriterInv'
      /\ begun' = begun /\ Unwritten' = Unwritten /\ Closed' = Closed /\ Unwritten \in Nat
  BY <1>1, <1>2, ReaderFacts, Zenon
<1>4. /\ wire \in Seq(Units) /\ Len(wire) \in Nat /\ Len(begun) \in Nat /\ Len(delivered) \in Nat
      /\ \A i \in 1..Len(begun) : begun[i] \in Msgs /\ begun[i].size \in Nat
      /\ k \in Nat /\ k >= 1
  BY <1>3, TypeFacts
<1>5. Dropped(wire, 1, wire') /\ wire' \in Seq(Units) /\ Head(wire) = wire[1] /\ Len(wire) > 0
  <2>1. Len(wire) # 0
    BY <1>1, <1>4, EmptySeq
  <2> QED BY <1>1, <1>4, <2>1, TailDrops
<1>6. FramingTypeOK'
  BY <1>1, <1>3, <1>5 DEF FramingTypeOK, sideOfSender
<1>7. OrderInv'
  BY <1>1, <1>3 DEF OrderInv
<1>8. CASE IsHeader(wire[1])
  <2>1. rcv' = "text"
    BY <1>1, <1>5, <1>8 DEF IsHeader
  <2>2. Opened(Len(delivered), rcv) = Len(delivered) /\ Opened(Len(delivered'), rcv') = Len(delivered) + 1
    BY <1>1, <1>4, <2>1 DEF Opened
  <2>3. HeadersInv(wire, begun, Len(delivered)) /\ MessagesInv(wire, begun, Unwritten, Closed)
    BY <1>3, <2>2 DEF WireInv
  <2>4. k <= Len(begun) /\ wire[1].msg.id = k /\ wire[1].msg = begun[k]
    BY <1>4, <1>5, <1>8, <2>3, FirstHeader DEF Current
  <2>5. HeadersInv(wire', begun, Len(delivered) + 1)
    BY <1>4, <1>5, <1>8, <2>3, HeaderRead
  <2>6. MessagesInv(wire', begun, Unwritten, Closed)
    <3>1. \A i \in 1..Len(begun) : begun[i] \in Msgs
      BY <1>4
    <3>2. 1 \in Nat
      OBVIOUS
    <3> QED BY <1>3, <1>4, <1>5, <2>3, <3>1, <3>2, MessagesDropped, Zenon
  <2>7. /\ 1 < Len(wire) /\ wire[1 + 1] = Text(begun[k])
        /\ Follow(wire, begun, Unwritten, Closed, 1 + 1, k, size)
    <3>1. 1 \in 1..Len(wire)
      BY <1>4, <1>5
    <3>2. /\ 1 < Len(wire) /\ wire[1 + 1] = Text(wire[1].msg)
          /\ Follow(wire, begun, Unwritten, Closed, 1 + 1, wire[1].msg.id, wire[1].msg.size)
      BY <1>8, <2>3, <3>1 DEF MessagesInv
    <3> HIDE DEF k
    <3> QED BY <2>4, <3>2, Zenon
  <2>8. size \in Nat
    <3>1. k \in 1..Len(begun)
      BY <1>4, <2>4
    <3> QED BY <1>4, <3>1
  <2>9. Follow(wire', begun, Unwritten, Closed, 1, k, size)
    <3> HIDE DEF size, k
    <3>1. 1 \in Nat
      OBVIOUS
    <3> QED BY <1>3, <1>5, <2>7, <2>8, <3>1, FollowDropped
  <2>10. Len(wire') > 0 /\ wire'[1] = Text(begun[k])
    <3>1. /\ Len(wire') = Len(wire) - 1 
          /\ \A i \in 1..Len(wire') : wire'[i] = wire[i + 1]
      BY <1>5 DEF Dropped
    <3>2. Len(wire') > 0 /\ 1 \in 1..Len(wire')
      BY <1>4, <2>7, <3>1
    <3> QED BY <2>7, <3>1, <3>2
  <2>11. AtText(wire', begun, Unwritten, Closed, k)
    BY <2>4, <2>9, <2>10 DEF AtText
  <2>12. Current' = k
    BY <1>1 DEF Current
  <2>13. WireInv'
    BY <1>3, <2>1, <2>2, <2>5, <2>6, <2>11, <2>12 DEF WireInv
  <2> QED BY <1>3, <1>6, <1>7, <2>1, <2>13 DEF FInv, Ended
<1>9. CASE ~IsHeader(wire[1])
  <2>1. rcv' \in {"closed", "error"}
    BY <1>1, <1>5, <1>9 DEF IsHeader
  <2>2. AtHeader(wire, begun, Unwritten, Closed, k)
    BY <1>1, <1>3 DEF WireInv
  <2>3. Closed
    <3> SUFFICES ASSUME ~Closed PROVE FALSE
      OBVIOUS
    <3>1. k > Len(begun) /\ Len(wire) + Unwritten = 0
      BY <1>4, <1>9, <2>2 DEF AtHeader
    <3> HIDE DEF Unwritten
    <3> QED BY <1>3, <1>4, <1>5, <3>1
  <2> QED BY <1>3, <1>6, <1>7, <2>1, <2>3 DEF FInv, Ended
<1> QED BY <1>8, <1>9

LEMMA RecvTextStep ==
  ASSUME FInv, RecvText
  PROVE  FInv'
<1> DEFINE k == Current
           m == begun[k]
<1>1. /\ rcv = "text" /\ wire # <<>> /\ wire' = Tail(wire)
      /\ UNCHANGED sideOfSender
  BY DEF RecvText
<1>2. ~Ended
  BY <1>1 DEF Ended
<1>3. /\ FramingTypeOK /\ WriterInv /\ OrderInv /\ WireInv /\ WriterInv'
      /\ begun' = begun /\ Unwritten' = Unwritten /\ Closed' = Closed /\ Unwritten \in Nat
  BY <1>1, <1>2, ReaderFacts, Zenon
<1>4. /\ wire \in Seq(Units) /\ Len(wire) \in Nat /\ Len(begun) \in Nat /\ Len(delivered) \in Nat
      /\ \A i \in 1..Len(begun) : begun[i] \in Msgs /\ begun[i].size \in Nat
      /\ k \in Nat /\ k >= 1
  BY <1>3, TypeFacts
<1>5. Dropped(wire, 1, wire') /\ wire' \in Seq(Units) /\ Head(wire) = wire[1]
  BY <1>1, <1>4, TailDrops
<1>6. /\ k <= Len(begun) /\ wire[1] = Text(m)
      /\ Follow(wire, begun, Unwritten, Closed, 1, k, m.size)
  BY <1>1, <1>3 DEF WireInv, AtText
<1>7. m \in Msgs /\ m.size \in Nat
  <2>1. k \in 1..Len(begun)
    BY <1>4, <1>6
  <2> QED BY <1>4, <2>1
<1> HIDE DEF m
<1>8. Head(wire).part = "text" /\ Head(wire).msg = m /\ ~IsHeader(wire[1])
  BY <1>5, <1>6, PartFacts
<1>9. /\ msg' = m /\ rest' = m.size
      /\ IF m.size > 0 THEN rcv' = "payload" /\ delivered' = delivered
                       ELSE rcv' = "header" /\ delivered' = Append(delivered, m)
  BY <1>8 DEF RecvText, Deliver
<1>10. Opened(Len(delivered), rcv) = Len(delivered) + 1
  BY <1>1 DEF Opened
<1>11. HeadersInv(wire', begun, Len(delivered) + 1)
  <2>1. HeadersInv(wire, begun, Len(delivered) + 1)
    BY <1>3, <1>10 DEF WireInv
  <2>2. \A i \in 1..1 : ~IsHeader(wire[i])
    BY <1>8
  <2>3. 1 \in Nat /\ Len(delivered) + 1 \in Nat
    BY <1>4
  <2> QED BY <1>4, <1>5, <2>1, <2>2, <2>3, HeadersDropped, Zenon
<1>12. MessagesInv(wire', begun, Unwritten, Closed)
  <2>1. /\ HeadersInv(wire, begun, Len(delivered) + 1)
        /\ MessagesInv(wire, begun, Unwritten, Closed)
    BY <1>3, <1>10 DEF WireInv
  <2>2. \A i \in 1..Len(begun) : begun[i] \in Msgs
    BY <1>4
  <2>3. 1 \in Nat /\ Len(delivered) + 1 \in Nat
    BY <1>4
  <2> QED BY <1>3, <1>4, <1>5, <2>1, <2>2, <2>3, MessagesDropped, Zenon
<1>13. Follow(wire', begun, Unwritten, Closed, 0, k, m.size)
  <2>1. Follow(wire, begun, Unwritten, Closed, 0 + 1, k, m.size)
    BY <1>6
  <2> DEFINE n == m.size
  <2>2. n \in Nat /\ Follow(wire, begun, Unwritten, Closed, 0 + 1, k, n)
    BY <1>7, <2>1
  <2> HIDE DEF n, k
  <2>3. 0 \in Nat /\ 1 \in Nat
    OBVIOUS
  <2>4. Follow(wire', begun, Unwritten, Closed, 0, k, n)
    BY <1>3, <1>5, <2>2, <2>3, FollowDropped, Zenon
  <2> QED BY <2>4 DEF n
<1>14. CASE m.size > 0
  <2>1. rcv' = "payload" /\ delivered' = delivered
    BY <1>9, <1>14
  <2>2. FramingTypeOK'
    BY <1>1, <1>3, <1>5, <1>7, <1>9, <2>1 DEF FramingTypeOK, sideOfSender
  <2>3. OrderInv'
    BY <1>3, <2>1 DEF OrderInv
  <2>4. Current' = k /\ Opened(Len(delivered'), rcv') = Len(delivered) + 1
    BY <2>1 DEF Current, Opened
  <2>5. AtPayload(wire', begun, Unwritten, Closed, k, msg', rest')
    BY <1>6, <1>9, <1>13, <1>14 DEF AtPayload, m
  <2>6. WireInv'
    BY <1>3, <1>11, <1>12, <2>1, <2>4, <2>5 DEF WireInv
  <2> QED BY <1>3, <2>1, <2>2, <2>3, <2>6 DEF FInv, Ended
<1>15. CASE ~(m.size > 0)
  <2>1. rcv' = "header" /\ delivered' = Append(delivered, begun[Current]) /\ m.size = 0
    BY <1>7, <1>9, <1>15 DEF m
  <2>2. /\ OrderInv' /\ delivered' \in Seq(Msgs)
        /\ Len(delivered') = Len(delivered) + 1 /\ Current' = k + 1
    BY <1>3, <1>6, <2>1, DeliverStep
  <2>3. FramingTypeOK'
    BY <1>1, <1>3, <1>5, <1>7, <1>9, <2>1, <2>2 DEF FramingTypeOK, sideOfSender
  <2>4. Opened(Len(delivered'), rcv') = Len(delivered) + 1
    BY <1>4, <2>1, <2>2 DEF Opened
  <2>5. AtHeader(wire', begun, Unwritten, Closed, k + 1)
    <3>1. Len(wire') \in Nat
      BY <1>5, LenProperties
    <3>2. Follow(wire', begun, Unwritten, Closed, 0, k, 0)
      BY <1>13, <2>1
    <3> HIDE DEF k
    <3> QED BY <1>3, <1>4, <1>6, <3>1, <3>2, NextMessage, Zenon
  <2>6. WireInv'
    BY <1>3, <1>11, <1>12, <2>1, <2>2, <2>4, <2>5 DEF WireInv
  <2> QED BY <1>3, <2>1, <2>2, <2>3, <2>6 DEF FInv, Ended
<1> QED BY <1>14, <1>15

LEMMA MinOfThree ==
  ASSUME NEW a \in Nat, NEW b \in Nat, NEW c \in Nat
  PROVE  /\ Min({a, b, c}) \in Nat
         /\ Min({a, b, c}) <= a /\ Min({a, b, c}) <= b /\ Min({a, b, c}) <= c
<1> DEFINE S == {a, b, c}
<1>1. S \in SUBSET Nat
  OBVIOUS
<1>2. PICK m \in S : \A x \in S : m <= x
  <2>1. CASE a <= b /\ a <= c
    BY <2>1
  <2>2. CASE b <= a /\ b <= c
    BY <2>2
  <2>3. CASE c <= a /\ c <= b
    BY <2>3
  <2> QED BY <2>1, <2>2, <2>3
<1>3. a \in S /\ b \in S /\ c \in S
  OBVIOUS
<1> HIDE DEF S
<1>4. Min(S) = m
  BY <1>1, <1>2, MinIs
<1> QED BY <1>1, <1>2, <1>3, <1>4 DEF S

LEMMA RecvPayloadStep ==
  ASSUME FInv, RecvPayload
  PROVE  FInv'
<1> DEFINE k == Current
<1>1. rcv = "payload" /\ UNCHANGED sideOfSender /\ msg' = msg
  BY DEF RecvPayload
<1>2. PICK n \in 1..Min({rest, PacketSize, Len(wire)}) :
        /\ wire' = SubSeq(wire, n + 1, Len(wire))
        /\ rest' = rest - n
        /\ IF n < rest THEN rcv' = rcv /\ delivered' = delivered
                       ELSE rcv' = "header" /\ delivered' = Append(delivered, msg)
  BY DEF RecvPayload, Deliver
<1>3. ~Ended
  BY <1>1 DEF Ended
<1>4. /\ FramingTypeOK /\ WriterInv /\ OrderInv /\ WireInv /\ WriterInv'
      /\ begun' = begun /\ Unwritten' = Unwritten /\ Closed' = Closed /\ Unwritten \in Nat
  BY <1>1, <1>3, ReaderFacts, Zenon
<1>5. /\ wire \in Seq(Units) /\ Len(wire) \in Nat /\ Len(begun) \in Nat /\ Len(delivered) \in Nat
      /\ \A i \in 1..Len(begun) : begun[i] \in Msgs /\ begun[i].size \in Nat
      /\ k \in Nat /\ k >= 1 /\ rest \in Nat
  BY <1>4, TypeFacts
<1>6. n \in Nat /\ n >= 1 /\ n <= rest /\ n <= Len(wire)
  <2>1. PacketSize \in Nat
    BY PacketSizeAssumption
  <2> DEFINE x == Min({rest, PacketSize, Len(wire)})
  <2>2. x \in Nat /\ x <= rest /\ x <= Len(wire)
    BY <1>5, <2>1, MinOfThree
  <2>3. n \in 1..x
    OBVIOUS
  <2> HIDE DEF x
  <2> QED BY <1>5, <2>2, <2>3
<1>7. Dropped(wire, n, wire') /\ wire' \in Seq(Units)
  <2>1. n \in 0..Len(wire)
    BY <1>5, <1>6
  <2> QED BY <1>2, <1>5, <2>1, SuffixDrops, Zenon
<1>8. k <= Len(begun) /\ msg = begun[k] /\ Follow(wire, begun, Unwritten, Closed, 0, k, rest)
  BY <1>1, <1>4 DEF WireInv, AtPayload
<1>9. \A i \in 1..n : ~IsHeader(wire[i])
  <2> SUFFICES ASSUME NEW i \in 1..n PROVE ~IsHeader(wire[i])
    OBVIOUS
  <2>1. i \in (0 + 1)..(0 + rest) /\ i <= Len(wire)
    BY <1>5, <1>6
  <2>2. wire[i] \in {Payload(begun[k]), Close}
    BY <1>8, <2>1 DEF Follow
  <2> QED BY <2>2, PartFacts
<1>10. Opened(Len(delivered), rcv) = Len(delivered) + 1
  BY <1>1 DEF Opened
<1>11. /\ HeadersInv(wire, begun, Len(delivered) + 1)
       /\ MessagesInv(wire, begun, Unwritten, Closed)
       /\ Len(delivered) + 1 \in Nat
  BY <1>4, <1>5, <1>10 DEF WireInv
<1>12. HeadersInv(wire', begun, Len(delivered) + 1)
  BY <1>5, <1>6, <1>7, <1>9, <1>11, HeadersDropped, Zenon
<1>13. MessagesInv(wire', begun, Unwritten, Closed)
  <2>1. \A i \in 1..Len(begun) : begun[i] \in Msgs
    BY <1>5
  <2> QED BY <1>4, <1>5, <1>6, <1>7, <1>11, <2>1, MessagesDropped, Zenon
<1>14. Follow(wire', begun, Unwritten, Closed, 0, k, rest - n)
  <2> HIDE DEF k
  <2> QED BY <1>4, <1>5, <1>6, <1>7, <1>8, FollowRead, Zenon
<1>15. rest' \in Nat /\ msg' \in Msgs
  <2>1. msg \in Msgs
    BY <1>4 DEF FramingTypeOK
  <2> QED BY <1>1, <1>2, <1>5, <1>6, <2>1
<1>16. CASE n < rest
  <2>1. rcv' = "payload" /\ delivered' = delivered
    BY <1>1, <1>2, <1>16
  <2>2. FramingTypeOK'
    BY <1>1, <1>4, <1>7, <1>15, <2>1 DEF FramingTypeOK, sideOfSender
  <2>3. OrderInv'
    BY <1>4, <2>1 DEF OrderInv
  <2>4. Current' = k /\ Opened(Len(delivered'), rcv') = Len(delivered) + 1
    BY <2>1 DEF Current, Opened
  <2>5. rest' > 0
    BY <1>2, <1>5, <1>6, <1>16
  <2>6. AtPayload(wire', begun, Unwritten, Closed, k, msg', rest')
    BY <1>1, <1>2, <1>8, <1>14, <2>5 DEF AtPayload
  <2>7. WireInv'
    BY <1>4, <1>12, <1>13, <2>1, <2>4, <2>6 DEF WireInv
  <2> QED BY <1>4, <2>1, <2>2, <2>3, <2>7 DEF FInv, Ended
<1>17. CASE ~(n < rest)
  <2>1. rcv' = "header" /\ delivered' = Append(delivered, begun[Current])
    BY <1>2, <1>8, <1>17
  <2>2. /\ OrderInv' /\ delivered' \in Seq(Msgs)
        /\ Len(delivered') = Len(delivered) + 1 /\ Current' = k + 1
    BY <1>4, <1>8, <2>1, DeliverStep
  <2>3. FramingTypeOK'
    BY <1>1, <1>4, <1>7, <1>15, <2>1, <2>2 DEF FramingTypeOK, sideOfSender
  <2>4. Opened(Len(delivered'), rcv') = Len(delivered) + 1
    BY <1>5, <2>1, <2>2 DEF Opened
  <2>5. AtHeader(wire', begun, Unwritten, Closed, k + 1)
    <3>1. Len(wire') \in Nat
      BY <1>7, LenProperties
    <3>2. rest - n = 0
      BY <1>5, <1>6, <1>17
    <3>3. Follow(wire', begun, Unwritten, Closed, 0, k, 0)
      BY <1>14, <3>2
    <3> HIDE DEF k
    <3> QED BY <1>4, <1>5, <1>8, <3>1, <3>3, NextMessage, Zenon
  <2>6. WireInv'
    BY <1>4, <1>12, <1>13, <2>1, <2>2, <2>4, <2>5 DEF WireInv
  <2> QED BY <1>4, <2>1, <2>2, <2>3, <2>6 DEF FInv, Ended
<1> QED BY <1>16, <1>17

-----------------------------------------------------------------------------
LEMMA FInit_FInv == FInit => FInv
<1> SUFFICES ASSUME FInit PROVE FInv
  OBVIOUS
<1> USE DEF FInit
<1>1. FramingTypeOK
  <2>1. NoMsg \in Msgs
    BY DEF NoMsg, Msgs
  <2>2. \A S : <<>> \in Seq(S)
    OBVIOUS
  <2>3. \A t \in Senders : <<>> \in Seq(Seq(Units))
    BY <2>2
  <2>4. data \in [Senders -> Seq(Seq(Units))]
    BY <2>3
  <2> QED BY <2>1, <2>2, <2>4 DEF FramingTypeOK
<1>2. WriterInv
  BY DEF WriterInv
<1>3. Len(wire) = 0 /\ Len(begun) = 0 /\ Len(delivered) = 0
  OBVIOUS
<1>4. OrderInv
  BY <1>3 DEF OrderInv
<1>5. Unwritten = 0
  BY <1>1, <1>2, UnwrittenFacts DEF Senders
<1>6. WireInv
  <2>1. Opened(Len(delivered), rcv) = 0 /\ Current = 1
    BY <1>3 DEF Opened, Current
  <2>2. HeadersInv(wire, begun, 0)
    BY <1>3 DEF HeadersInv
  <2>3. MessagesInv(wire, begun, Unwritten, Closed)
    BY <1>3 DEF MessagesInv
  <2>4. AtHeader(wire, begun, Unwritten, Closed, 1)
    BY <1>3, <1>5 DEF AtHeader
  <2> QED BY <2>1, <2>2, <2>3, <2>4 DEF WireInv
<1> QED BY <1>1, <1>2, <1>4, <1>6 DEF FInv, Ended

LEMMA FNext_FInv == FInv /\ [FNext]_frVars => FInv'
<1> SUFFICES ASSUME FInv, [FNext]_frVars PROVE FInv'
  OBVIOUS
<1>1. ASSUME NEW t \in Senders, SendPacket(t) PROVE FInv'
  BY <1>1, SendPacketStep
<1>2. ASSUME NEW t \in Senders, NEW size \in Payloads, SendMsg(t, size) PROVE FInv'
  BY <1>2, SendMsgStep
<1>3. ASSUME NEW l \in Listeners, SendClose(l) PROVE FInv'
  BY <1>3, SendCloseStep
<1>4. ASSUME PeerEnds PROVE FInv'
  BY <1>4, IdleStep DEF PeerEnds
<1>5. ASSUME Recv PROVE FInv'
  BY <1>5, RecvHeaderStep, RecvTextStep, RecvPayloadStep DEF Recv
<1>6. CASE UNCHANGED frVars
  <2>1. eof' \in BOOLEAN
    BY <1>6 DEF FInv, FramingTypeOK, frVars
  <2> QED BY <1>6, <2>1, IdleStep DEF frVars
<1> QED BY <1>1, <1>2, <1>3, <1>4, <1>5, <1>6 DEF FNext

\* What is on the wire is what the reader waits for, until a close header is sent.
THEOREM FInvAlways == FSpec => []FInv
  BY FInit_FInv, FNext_FInv, PTL DEF FSpec

\* The state of the stream keeps its type.
THEOREM FramingTypes == FSpec => []FramingTypeOK
<1>1. FInv => FramingTypeOK
  BY DEF FInv
<1> QED BY <1>1, FInvAlways, PTL

\* However the threads write and however recv() splits the stream, messages are
\* handed to handle_msg() once each and in the order they were begun.
THEOREM InOrder == FSpec => []DeliveredInOrder
<1>1. FInv => DeliveredInOrder
  <2> SUFFICES ASSUME FInv PROVE DeliveredInOrder
    OBVIOUS
  <2>1. /\ delivered \in Seq(Msgs) /\ begun \in Seq(Msgs)
        /\ Len(delivered) \in Nat /\ Len(begun) \in Nat
    BY TypeFacts DEF FInv
  <2>2. Len(delivered) <= Len(begun) /\ \A k \in 1..Len(delivered) : delivered[k] = begun[k]
    BY DEF FInv, OrderInv
  <2> DEFINE s == SubSeq(delivered, 1, Len(delivered))
             t == SubSeq(begun, 1, Len(delivered))
             n == Len(delivered)
  <2>3. s = [i \in 1..n |-> delivered[i]] /\ t = [i \in 1..n |-> begun[i]]
    BY <2>1, <2>2
  <2>4. s = t
    BY <2>2, <2>3
  <2> QED BY <2>2, <2>4 DEF DeliveredInOrder, IsPrefix
<1> QED BY <1>1, FInvAlways, PTL

\* As long as no close header was sent, the reader never meets anything but what
\* it waits for, and delivers no message before its last packet was written.
THEOREM GarbledExplained == FSpec => []GarbledOnlyByClose
<1>1. FInv => GarbledOnlyByClose
  <2> DEFINE busy == {t \in Senders : data[t] # <<>>}
  <2> SUFFICES ASSUME FInv, closing = {}
               PROVE  rcv # "error" /\ Len(delivered) + Cardinality(busy) <= Len(begun)
    BY DEF GarbledOnlyByClose
  <2>1. ~Ended
    BY DEF FInv, Closed
  <2>2. FramingTypeOK /\ WriterInv /\ OrderInv /\ WireInv
    BY <2>1 DEF FInv
  <2>3. /\ Len(wire) \in Nat /\ Len(begun) \in Nat /\ Len(delivered) \in Nat
        /\ Unwritten \in Nat /\ (data[Generator] # <<>> => Unwritten > 0)
        /\ Len(delivered) <= Len(begun)
    BY <2>2, TypeFacts, UnwrittenFacts DEF OrderInv
  <2>4. CASE busy = {}
    <3>1. Cardinality(busy) = 0
      BY <2>4, FS_EmptySet
    <3> HIDE DEF busy
    <3> QED BY <2>1, <2>3, <3>1 DEF Ended
  <2>5. CASE busy # {}
    <3>1. busy = {Generator}
      BY <2>2, <2>5 DEF WriterInv
    <3>2. Cardinality(busy) = 1
      BY <3>1, FS_Singleton
    <3>3. Unwritten > 0
      BY <2>3, <3>1
    <3>4. Current <= Len(begun)
      <4>1. rcv \in {"header", "text", "payload"}
        BY <2>1, <2>2 DEF FramingTypeOK, Ended
      <4>2. CASE rcv = "header"
        <5>1. AtHeader(wire, begun, Unwritten, Closed, Current)
          BY <2>2, <4>2 DEF WireInv
        <5>2. Current > Len(begun) => Len(wire) + Unwritten = 0
          BY <5>1 DEF AtHeader, Closed
        <5>3. Current \in Nat
          BY <2>3 DEF Current
        <5> HIDE DEF Unwritten
        <5> QED BY <2>3, <3>3, <5>2, <5>3
      <4>3. CASE rcv = "text"
        BY <2>2, <4>3 DEF WireInv, AtText
      <4>4. CASE rcv = "payload"
        BY <2>2, <4>4 DEF WireInv, AtPayload
      <4> QED BY <4>1, <4>2, <4>3, <4>4
    <3> HIDE DEF busy
    <3> QED BY <2>1, <2>3, <3>2, <3>4 DEF Current, Ended
  <2> QED BY <2>4, <2>5
<1> QED BY <1>1, FInvAlways, PTL
=============================================================================
