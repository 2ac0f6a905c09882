------------------------------- MODULE Framing -------------------------------
(***************************************************************************)
(* How commer.py sends messages over a TCP stream: send_msg cuts header,   *)
(* text and payload into packets and writes them without a lock; recv_msg  *)
(* reads a header, then the text, then counts the bytes of the payload.    *)
(*                                                                         *)
(* Two streams are told apart.  To the server: one generator thread sends  *)
(* jobs of any size, and the listeners of the client may write the close   *)
(* header at any time.  To the client: the handler threads of the server   *)
(* send results, which carry no payload.                                   *)
(*                                                                         *)
(* The stream is a sequence of units.  A header and a text are a unit each *)
(* (ten bytes, and some hundred); a payload is any number of units, and a  *)
(* packet takes PacketSize of them.  The text fits into the first packet.  *)
(***************************************************************************)
EXTENDS Naturals, Sequences, FiniteSets, SequencesExt, FiniteSetsExt

CONSTANTS Generator,   \* the thread that sends jobs
          Handlers,    \* threads that send results
          Listeners,   \* threads that may send the close header
          Payloads,    \* sizes of payloads, in units
          PacketSize,  \* units per packet
          MaxMsgs      \* bound: messages sent

ASSUME ThreadsAssumption == Generator \notin Handlers
ASSUME PacketSizeAssumption == PacketSize \in Nat /\ PacketSize >= 2
ASSUME PayloadsAssumption == Payloads \subseteq Nat /\ MaxMsgs \in Nat

Streams == {"to_server", "to_client"}
Senders == Handlers \cup {Generator}
Msgs == [id : Nat, size : Nat]
Units == [part : {"header", "text", "payload"}, msg : Msgs] \cup {[part |-> "close"]}

VARIABLES
  stream,     \* which of the two streams this is
  data,       \* sender -> packets of its message that are not written yet
  closing,    \* listeners that have written the close header
  eof,        \* has the sending process ended?
  wire,       \* units written and not read
  rcv,        \* reader: "header", "text", "payload", "closed" or "error"
  rest,       \* units of payload the reader still waits for
  msg,        \* message the reader is in
  begun,      \* history: messages in the order of their first packets
  delivered   \* messages given to handle_msg

frVars == <<stream, data, closing, eof, wire, rcv, rest, msg, begun, delivered>>

NoMsg == [id |-> 0, size |-> 0]

FInit ==
  /\ stream \in Streams
  /\ data = [t \in Senders |-> <<>>]
  /\ closing = {}
  /\ eof = FALSE
  /\ wire = <<>>
  /\ rcv = "header" /\ rest = 0 /\ msg = NoMsg
  /\ begun = <<>> /\ delivered = <<>>

-----------------------------------------------------------------------------
(* The sending side.                                                       *)

\* data = header_ba + msg_ba + payload_ba
Data(m) ==
  <<[part |-> "header", msg |-> m], [part |-> "text", msg |-> m]>>
    \o [i \in 1..m.size |-> [part |-> "payload", msg |-> m]]

\* Variant: what follows the last full packet is not sent.
PacketsFullOnly(d) ==
  [i \in 1..Max({1, Len(d) \div PacketSize}) |->
     SubSeq(d, (i - 1) * PacketSize + 1, Min({i * PacketSize, Len(d)}))]

\* Variant: the header is sent on its own, as it is over UDP.
PacketsHeaderApart(d) == <<SubSeq(d, 1, 1), SubSeq(d, 2, Len(d))>>

\* for i in range(0, total_size, PACKET_SIZE): data[i:min(i + PACKET_SIZE, total_size)]
Packets(d) ==
  [i \in 1..((Len(d) + PacketSize - 1) \div PacketSize) |->
     SubSeq(d, (i - 1) * PacketSize + 1, Min({i * PacketSize, Len(d)}))]

\* A thread sends on one of the streams, and only jobs have a payload.
MaySend(t, size) ==
  IF stream = "to_server" THEN t = Generator ELSE t \in Handlers /\ size = 0

\* send_msg() up to the first packet.
SendMsg(t, size) ==
  /\ ~eof /\ MaySend(t, size)
  /\ data[t] = <<>>
  /\ Len(begun) < MaxMsgs
  /\ LET m == [id |-> Len(begun) + 1, size |-> size]
         packets == Packets(Data(m))
     IN /\ data' = [data EXCEPT ![t] = Tail(packets)]
        /\ wire' = wire \o Head(packets)
        /\ begun' = Append(begun, m)
  /\ UNCHANGED <<stream, closing, eof, rcv, rest, msg, delivered>>

\* The next packet.
SendPacket(t) ==
  /\ ~eof /\ data[t] # <<>>
  /\ wire' = wire \o Head(data[t])
  /\ data' = [data EXCEPT ![t] = Tail(@)]
  /\ UNCHANGED <<stream, closing, eof, rcv, rest, msg, begun, delivered>>

\* send_msg(None): a header with length 0.
SendClose(l) ==
  /\ ~eof /\ stream = "to_server"
  /\ l \notin closing
  /\ closing' = closing \cup {l}
  /\ wire' = Append(wire, [part |-> "close"])
  /\ UNCHANGED <<stream, data, eof, rcv, rest, msg, begun, delivered>>

\* The sending process ends.  From then on recv() returns no bytes at once,
\* and the loops of the reader turn without effect.
PeerEnds ==
  /\ ~eof
  /\ eof' = TRUE
  /\ UNCHANGED <<stream, data, closing, wire, rcv, rest, msg, begun, delivered>>

-----------------------------------------------------------------------------
(* The reading side: recv_msg in the loop of start_listening_client and    *)
(* start_listening_server.                                                 *)

sideOfSender == <<stream, data, closing, eof, begun>>

Deliver(m) == delivered' = Append(delivered, m)

\* Variant: the listener goes on after a close header.
RecvHeaderGoOn ==
  /\ rcv = "header" /\ wire # <<>>
  /\ wire' = Tail(wire)
  /\ rcv' = CASE Head(wire).part = "header" -> "text"
              [] Head(wire).part = "close" -> "header"
              [] OTHER -> "error"
  /\ UNCHANGED <<sideOfSender, rest, msg, delivered>>

\* The header says how long the text is; 0 closes.  On anything else int()
\* raises ValueError and the listener thread ends.
RecvHeader ==
  /\ rcv = "header" /\ wire # <<>>
  /\ wire' = Tail(wire)
  /\ rcv' = CASE Head(wire).part = "header" -> "text"
              [] Head(wire).part = "close" -> "closed"
              [] OTHER -> "error"
  /\ UNCHANGED <<sideOfSender, rest, msg, delivered>>

\* The text says how long the payload is; without a payload the message is
\* complete.  Anything but a text cannot be decoded.
RecvText ==
  /\ rcv = "text" /\ wire # <<>>
  /\ wire' = Tail(wire)
  /\ IF Head(wire).part = "text"
     THEN LET m == Head(wire).msg
          IN /\ msg' = m
             /\ rest' = m.size
             /\ IF m.size > 0
                THEN rcv' = "payload" /\ UNCHANGED delivered
                ELSE rcv' = "header" /\ Deliver(m)
     ELSE rcv' = "error" /\ UNCHANGED <<msg, rest, delivered>>
  /\ UNCHANGED sideOfSender

\* Variant: recv() is asked for a packet whatever is left.
RecvPayloadPacket ==
  /\ rcv = "payload"
  /\ \E n \in 1..Min({PacketSize, Len(wire)}) :
       /\ wire' = SubSeq(wire, n + 1, Len(wire))
       /\ rest' = rest - n
       /\ IF n < rest THEN UNCHANGED <<rcv, delivered>>
                      ELSE rcv' = "header" /\ Deliver(msg)
  /\ UNCHANGED <<sideOfSender, msg>>

\* The payload is counted and thrown away, whatever the units are.
RecvPayload ==
  /\ rcv = "payload"
  /\ \E n \in 1..Min({rest, PacketSize, Len(wire)}) :
       /\ wire' = SubSeq(wire, n + 1, Len(wire))
       /\ rest' = rest - n
       /\ IF n < rest THEN UNCHANGED <<rcv, delivered>>
                      ELSE rcv' = "header" /\ Deliver(msg)
  /\ UNCHANGED <<sideOfSender, msg>>

Recv == RecvHeader \/ RecvText \/ RecvPayload

-----------------------------------------------------------------------------
FNext ==
  \/ \E t \in Senders : SendPacket(t) \/ \E size \in Payloads : SendMsg(t, size)
  \/ \E l \in Listeners : SendClose(l)
  \/ PeerEnds
  \/ Recv

\* A message that was begun is written to its end, and the reader reads.
FSpec ==
  /\ FInit /\ [][FNext]_frVars
  /\ WF_frVars(Recv)
  /\ \A t \in Senders : WF_frVars(SendPacket(t))

-----------------------------------------------------------------------------
FramingTypeOK ==
  /\ stream \in Streams
  /\ data \in [Senders -> Seq(Seq(Units))]
  /\ closing \subseteq Listeners
  /\ eof \in BOOLEAN
  /\ wire \in Seq(Units)
  /\ rcv \in {"header", "text", "payload", "closed", "error"}
  /\ rest \in Nat
  /\ msg \in Msgs
  /\ begun \in Seq(Msgs)
  /\ delivered \in Seq(Msgs)

Ended == rcv \in {"closed", "error"}

\* However recv() splits the stream, whoever writes a result or a close header
\* in between: messages are delivered once and in the order of their first
\* packets, without a gap.
DeliveredInOrder == IsPrefix(delivered, begun)

\* A reader finds something else than a header only when a close header has
\* landed inside a job: concurrent results never garble each other.  Until then
\* only messages that were written to their last packet are delivered, also when
\* the sender ends in the middle of one.
GarbledOnlyByClose ==
  closing = {} =>
    /\ rcv # "error"
    /\ Len(delivered) + Cardinality({t \in Senders : data[t] # <<>>}) <= Len(begun)

\* What was written before the close is delivered, even if the close follows
\* at once or the sender ends.
WrittenIsDelivered ==
  \A i \in 1..MaxMsgs :
    (Len(begun) >= i /\ closing = {} /\ \A t \in Senders : data[t] = <<>>)
      ~> Len(delivered) >= i

\* A close header ends the listener thread wherever it lands, by the signal or
\* by the ValueError, also when the client exits right after it.  Only a client
\* that ends in the middle of a job leaves the reader turning at the end of file,
\* where recv() returns no bytes for ever.
CloseEndsListener ==
  closing # {} ~> (Ended \/ (eof /\ \E t \in Senders : data[t] # <<>>))
=============================================================================
