----------------------------- MODULE LossyFifo ------------------------------
(***************************************************************************)
(* What the negotiations rely on: each direction of the link delivers the  *)
(* packets handed to IP in their order, each at most once, and loses one   *)
(* only while at least Capacity others are on their way.  Packets are      *)
(* known by their number in the order in which they are handed over.       *)
(***************************************************************************)
EXTENDS Naturals, Sequences, FiniteSets

CONSTANTS Hosts, Capacity

VARIABLES
  handed,   \* packets handed over by each host
  channel,  \* numbers of those on their way
  received  \* numbers of those that have arrived

vars == <<handed, channel, received>>

Init ==
  /\ handed   = [h \in Hosts |-> 0]
  /\ channel  = [h \in Hosts |-> {}]
  /\ received = [h \in Hosts |-> <<>>]

Accept(h) ==
  /\ handed' = [handed EXCEPT ![h] = @ + 1]
  /\ channel' = [channel EXCEPT ![h] = @ \cup {handed[h] + 1}]
  /\ UNCHANGED received

Drop(h) ==
  /\ Cardinality(channel[h]) >= Capacity
  /\ handed' = [handed EXCEPT ![h] = @ + 1]
  /\ UNCHANGED <<channel, received>>

(* The one that was handed over before all others.                         *)
Deliver(h) ==
  \E n \in channel[h] :
    /\ \A m \in channel[h] : n <= m
    /\ received' = [received EXCEPT ![h] = Append(@, n)]
    /\ channel' = [channel EXCEPT ![h] = @ \ {n}]
    /\ UNCHANGED handed

Next == \E h \in Hosts : Accept(h) \/ Drop(h) \/ Deliver(h)

Spec == Init /\ [][Next]_vars
=============================================================================
