----------------------------- MODULE PacketPath -----------------------------
(***************************************************************************)
(* The way of a packet from SenderApplication::SendPacket of one node to   *)
(* ReceiverApplication::Receive of the other, in simulated time: socket    *)
(* and port (SenderPorts), the transmit queue and the transmitter of       *)
(* PointToPointNetDevice, the channel, and Ipv4EndPoint, which schedules   *)
(* one more event before the application sees the packet.                  *)
(*                                                                         *)
(* The applications may send at any time.  Packets are known by their      *)
(* number, in the order in which a host hands them to IP; all are small    *)
(* enough for one frame.                                                   *)
(***************************************************************************)
EXTENDS SenderPorts, EventQueue

CONSTANTS
  TxTimes,     \* possible transmission times of a packet
  Delays,      \* possible delays of the channel
  QueueLimit,  \* DropTailQueue::m_maxPackets
  StopTimes    \* possible times of Simulator::Stop, besides one never reached

ASSUME PathAssumption ==
  /\ TxTimes \subseteq Nat /\ Delays \subseteq Nat /\ StopTimes \subseteq Nat
  /\ QueueLimit \in Nat \ {0}

VARIABLES
  events,       \* the simulator's event queue
  transmitter,  \* m_txMachineState of each host's device
  queue,        \* DropTailQueue::m_packets of each host's device
  received,     \* numbers of the packets of each host the other has received
  delay,        \* PointToPointChannel::m_delay
  stopped       \* DefaultSimulatorImpl::m_stop

pathVars == <<vars, events, transmitter, queue, received, delay, stopped>>

Stop               == [type |-> "Stop"]
TransmitComplete(h) == [type |-> "TransmitComplete", host |-> h]
Receive(h, n)       == [type |-> "Receive", host |-> h, n |-> n]
ForwardUp(h, n)     == [type |-> "ForwardUp", host |-> h, n |-> n]

PathInit ==
  /\ Init
  /\ events \in {<<>>} \cup {<<Event(t, Stop)>> : t \in StopTimes}
  /\ transmitter = [h \in Hosts |-> "READY"]
  /\ queue       = [h \in Hosts |-> <<>>]
  /\ received    = [h \in Hosts |-> <<>>]
  /\ delay \in Delays
  /\ stopped = FALSE

-----------------------------------------------------------------------------
(* PointToPointNetDevice::TransmitStart and PointToPointChannel::          *)
(* TransmitStart: the packet arrives delay after its transmission.         *)
TransmitStart(h, n, agenda) ==
  /\ transmitter' = [transmitter EXCEPT ![h] = "BUSY"]
  /\ \E txTime \in TxTimes :
       events' = Schedule(Schedule(agenda, txTime, TransmitComplete(h)),
                          txTime + delay, Receive(h, n))

(* Seeded fault: the queue takes one packet more than its limit. *)
HasRoomAtLimit(packets) == Len(packets) <= QueueLimit

(* DropTailQueue::DoEnqueue.                                               *)
HasRoom(packets) == Len(packets) < QueueLimit

(* PointToPointNetDevice::Send: the packet is sent at once, queued while   *)
(* another is being sent, or dropped.                                      *)
DeviceSend(h, n) ==
  \/ /\ transmitter[h] = "READY" /\ HasRoom(queue[h])
     /\ TransmitStart(h, Head(Append(queue[h], n)), events)
     /\ queue' = [queue EXCEPT ![h] = Tail(Append(@, n))]
  \/ /\ transmitter[h] = "BUSY" /\ HasRoom(queue[h])
     /\ queue' = [queue EXCEPT ![h] = Append(@, n)]
     /\ UNCHANGED <<events, transmitter>>
  \/ /\ ~HasRoom(queue[h])
     /\ UNCHANGED <<events, transmitter, queue>>

(* SenderApplication::SendPacket and all it calls.                         *)
Transmit(h) ==
  /\ ~stopped
  /\ SendPacket(h)
  /\ \/ /\ transmitted'[h] > transmitted[h]
        /\ DeviceSend(h, transmitted'[h])
     \/ /\ transmitted'[h] = transmitted[h]
        /\ UNCHANGED <<events, transmitter, queue>>
  /\ UNCHANGED <<received, delay, stopped>>

(* Seeded fault: the next packet waits for the next Send. *)
CompleteWithoutNext(h) ==
  /\ ~stopped
  /\ IsNext(events, TransmitComplete(h))
  /\ transmitter' = [transmitter EXCEPT ![h] = "READY"]
  /\ events' = Tail(events)
  /\ UNCHANGED <<vars, queue, received, delay, stopped>>

(* PointToPointNetDevice::TransmitComplete: on with the queue.             *)
Complete(h) ==
  /\ ~stopped
  /\ IsNext(events, TransmitComplete(h))
  /\ \/ /\ queue[h] # <<>>
        /\ TransmitStart(h, Head(queue[h]), Tail(events))
        /\ queue' = [queue EXCEPT ![h] = Tail(@)]
     \/ /\ queue[h] = <<>>
        /\ transmitter' = [transmitter EXCEPT ![h] = "READY"]
        /\ events' = Tail(events)
        /\ UNCHANGED queue
  /\ UNCHANGED <<vars, received, delay, stopped>>

(* PointToPointNetDevice::Receive up to Ipv4EndPoint::ForwardUp.           *)
Arrive(h) ==
  /\ ~stopped
  /\ \E n \in 1 .. transmitted[h] :
       /\ IsNext(events, Receive(h, n))
       /\ events' = Schedule(Tail(events), 0, ForwardUp(h, n))
  /\ UNCHANGED <<vars, transmitter, queue, received, delay, stopped>>

(* Ipv4EndPoint::DoForwardUp, UdpSocketImpl::ForwardUp and the loop of     *)
(* ReceiverApplication::Receive, which leaves no packet in the socket.     *)
HandOn(h) ==
  /\ ~stopped
  /\ \E n \in 1 .. transmitted[h] :
       /\ IsNext(events, ForwardUp(h, n))
       /\ received' = [received EXCEPT ![h] = Append(@, n)]
  /\ events' = Tail(events)
  /\ UNCHANGED <<vars, transmitter, queue, delay, stopped>>

(* Simulator::Stop, after which Run processes no event.                    *)
StopSimulation ==
  /\ ~stopped
  /\ IsNext(events, Stop)
  /\ events' = Tail(events)
  /\ stopped' = TRUE
  /\ UNCHANGED <<vars, transmitter, queue, received, delay>>

Pass ==
  /\ ~stopped
  /\ events # <<>> /\ Head(events).wait > 0
  /\ events' = Elapse(events)
  /\ UNCHANGED <<vars, transmitter, queue, received, delay, stopped>>

ProcessOneEvent ==
  StopSimulation \/ \E h \in Hosts : Complete(h) \/ Arrive(h) \/ HandOn(h)

PathNext ==
  \/ \E h \in Hosts : Transmit(h)
  \/ ProcessOneEvent
  \/ Pass

PathSpec == PathInit /\ [][PathNext]_pathVars

(* Run goes on as long as there are events.                                *)
FairPathSpec == PathSpec /\ WF_pathVars(ProcessOneEvent \/ Pass)

-----------------------------------------------------------------------------
(* Properties                                                              *)

Whats ==
  {Stop} \cup {TransmitComplete(h) : h \in Hosts}
    \cup {Receive(h, n) : h \in Hosts, n \in 1 .. MaxPackets}
    \cup {ForwardUp(h, n) : h \in Hosts, n \in 1 .. MaxPackets}

(* The events are in the order of their times, none of them in the past,   *)
(* and the queues keep their limit.                                        *)
PathTypeOK ==
  /\ events \in Seq([wait : Nat, what : Whats])
  /\ \A i, j \in DOMAIN events : i < j => events[i].wait <= events[j].wait
  /\ \A h \in Hosts :
       /\ transmitter[h] \in {"READY", "BUSY"}
       /\ queue[h] \in Seq(1 .. transmitted[h]) /\ Len(queue[h]) <= QueueLimit
       /\ received[h] \in Seq(1 .. transmitted[h])
  /\ delay \in Delays /\ stopped \in BOOLEAN

(* The packets of a host on their way: those in the channel or about to be *)
(* handed to the other host's application, and those in the transmit queue.*)
OnTheWay(h) ==
  {n \in 1 .. transmitted[h] :
     {Receive(h, n), ForwardUp(h, n)} \cap Range(Agenda(events)) # {}}

InFlight == [h \in Hosts |-> OnTheWay(h) \cup Range(queue[h])]

(* The path implements the link the negotiations assume: packets that      *)
(* arrive at the same time, or find the transmitter busy, keep their order,*)
(* and none is lost unless a whole queue and one more are on their way.    *)
Link == INSTANCE LossyFifo
          WITH handed <- transmitted, channel <- InFlight, Capacity <- QueueLimit + 1

ImplementsLossyFifo == Link!Init /\ [][Link!Next]_Link!vars

(* What the devices have taken is transmitted and handed to the other      *)
(* application unless the simulation is stopped: the transmitter never     *)
(* leaves a packet behind in the queue.                                    *)
DrainsUnlessStopped == []<>(stopped \/ \A h \in Hosts : InFlight[h] = {})
=============================================================================
