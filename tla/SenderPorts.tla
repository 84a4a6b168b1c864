---------------------------- MODULE SenderPorts ----------------------------
(***************************************************************************)
(* SenderApplication.cc over the UDP of ns-3.  SendPacket opens a socket   *)
(* for every packet; Close only marks it shut down, UdpL4Protocol keeps it *)
(* in m_sockets and its end point stays in the demultiplexer, so no        *)
(* ephemeral port is ever free again.  The return codes of Bind and Send   *)
(* are ignored and the packet is traced whether or not it was sent.        *)
(***************************************************************************)
EXTENDS Integers, Sequences, FiniteSetsExt, Functions

CONSTANTS
  Hosts,        \* the nodes with a sender application
  First, Last,  \* ephemeral ports (m_portFirst, m_portLast)
  MaxPackets    \* bound: packets a host sends

ASSUME PortsAssumption ==
  /\ First \in Nat \ {0} /\ Last \in Nat /\ First <= Last
  /\ MaxPackets \in Nat

VARIABLES
  ephemeral,    \* Ipv4EndPointDemux::m_ephemeral of each host
  endPoints,    \* local ports of Ipv4EndPointDemux::m_endPoints, oldest first
  traced,       \* packets m_txPacket was called with, and the logger wrote down
  transmitted   \* packets handed to IP

vars == <<ephemeral, endPoints, traced, transmitted>>

Ports == First .. Last
Size  == Last - First + 1

Init ==
  /\ ephemeral   = [h \in Hosts |-> First]
  /\ endPoints   = [h \in Hosts |-> <<>>]
  /\ traced      = [h \in Hosts |-> 0]
  /\ transmitted = [h \in Hosts |-> 0]

LookupPortLocal(h, port) == port \in Range(endPoints[h])

(* Seeded fault: the last port of the range is never looked at. *)
ProbeShort(h, k) == First + ((ephemeral[h] - First + k) % (Last - First))

(* The k-th port the loop of AllocateEphemeralPort looks at: it starts     *)
(* after the last one allocated and goes round once.                       *)
Probe(h, k) == First + ((ephemeral[h] - First + k) % Size)

(* Seeded fault: the port is not looked up. *)
UncheckedProbes(h) == 1 .. Size

FreeProbes(h) == {k \in 1 .. Size : ~LookupPortLocal(h, Probe(h, k))}

(* SendPacket with BindToAddress: with no port left Bind and Send both     *)
(* return -1.                                                              *)
SendPacket(h) ==
  /\ traced[h] < MaxPackets
  /\ traced' = [traced EXCEPT ![h] = @ + 1]
  /\ \/ /\ FreeProbes(h) # {}
        /\ LET port == Probe(h, Min(FreeProbes(h)))
           IN  /\ ephemeral' = [ephemeral EXCEPT ![h] = port]
               /\ endPoints' = [endPoints EXCEPT ![h] = Append(@, port)]
        /\ transmitted' = [transmitted EXCEPT ![h] = @ + 1]
     \/ /\ FreeProbes(h) = {}
        /\ UNCHANGED <<ephemeral, endPoints, transmitted>>

Next == \E h \in Hosts : SendPacket(h)

Spec == Init /\ [][Next]_vars
-----------------------------------------------------------------------------
(* Every host's sockets have ephemeral ports, all of them different, and a *)
(* reply can only reach the socket that asked: Allocate looks a port up    *)
(* before it hands it out.                                                 *)
PortsAreDistinct ==
  \A h \in Hosts : endPoints[h] \in Seq(Ports) /\ IsInjective(endPoints[h])

(* The search misses no free port, at either end of the range included: a  *)
(* host's first Size packets are transmitted, and not one after them.      *)
SilentOnceExhausted ==
  \A h \in Hosts : transmitted[h] = Min({traced[h], Size})

(* The trace source AppTx (SenderApplication.cc:5) is documented as "When  *)
(* Sending a packet": what is traced is sent.                              *)
TracedIsTransmitted == \A h \in Hosts : traced[h] = transmitted[h]
=============================================================================
