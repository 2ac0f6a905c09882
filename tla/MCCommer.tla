------------------------------ MODULE MCCommer ------------------------------
(***************************************************************************)
(* The two halves of commer.py between a client and a master side by side: *)
(* how they connect, for two clients, and the framing of messages on a     *)
(* stream, with payloads that end in the first, second or third packet.    *)
(* They share nothing, and a behaviour is one of a single part.            *)
(***************************************************************************)
EXTENDS ConnSetup, Framing

VARIABLE part  \* "connect" or "frame": the part that runs

allVars == <<part, connVars, frVars>>

Init ==
  /\ part \in {"connect", "frame"}
  /\ ConnInit /\ FInit
  /\ part = "connect" => stream = "to_server"

Connecting(A) == part = "connect" /\ A /\ UNCHANGED <<part, frVars>>

Framed(A) == part = "frame" /\ A /\ UNCHANGED <<part, connVars>>

Next == Connecting(ConnNext) \/ Framed(FNext)

\* The fairness of ConnSpec and of FSpec.
Spec ==
  /\ Init /\ [][Next]_allVars
  /\ WF_allVars(Connecting(Construct))
  /\ \A c \in Clients : /\ WF_allVars(Connecting(Client(c)))
                        /\ WF_allVars(Connecting(ClientListen(c)))
                        /\ WF_allVars(Connecting(Handler(c)))
                        /\ WF_allVars(Connecting(ServerListen(c)))
                        /\ WF_allVars(Connecting(Accept(c)))
  /\ WF_allVars(Framed(Recv))
  /\ \A t \in Senders : WF_allVars(Framed(SendPacket(t)))
=============================================================================
