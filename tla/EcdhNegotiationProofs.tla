----------------------- MODULE EcdhNegotiationProofs -----------------------
(***************************************************************************)
(* Theorems about EcdhNegotiation, for every delay of the link, every      *)
(* refresh time and every delay of the MSG, as long as GenerateKeyPair     *)
(* finds a pair that is not in use.                                        *)
(***************************************************************************)
EXTENDS EcdhNegotiation, SequenceTheorems, FiniteSetTheorems, TLAPS

(* GenerateKeyPair draws a pair that is named nowhere in the system.       *)
UnusedPair == \E pair \in KeyPairs : pair \notin InUse

(* The time since the last UpdateKey.                                      *)
Age == refreshTime - refresh

(* Where the ECDH packets and the MSGs are in a queue.                     *)
Ecdhs(queue) == {i \in DOMAIN queue : queue[i].packet.type = "ECDH"}
Msgs(queue)  == {i \in DOMAIN queue : queue[i].packet.type = "MSG"}

-----------------------------------------------------------------------------
(* The inductive invariants, those without time first.                     *)

(* What is sent later arrives later.                                       *)
Sorted(queue) == \A i, j \in DOMAIN queue : i <= j => queue[i].wait <= queue[j].wait

InOrder ==
  /\ Sorted(toServer) /\ Sorted(toClient)
  /\ \A i, j \in DOMAIN timers : i <= j => timers[i] <= timers[j]

(* Every packet, timer and secret has a cause, and what it is caused by    *)
(* has left its trace in m_ecdh.                                           *)
Causes ==
  /\ toServer # <<>> => client # NULL
  /\ timers # <<>> \/ toClient # <<>> => client # NULL /\ server # NULL
  /\ Msgs(toServer) # {} => server # NULL
  /\ Keyed(client) => server # NULL

TypeInv == TypeOK /\ InOrder /\ Causes

(* A public key in flight is that of one negotiation and of one side.      *)
DistinctPubs ==
  /\ \A i, j \in Ecdhs(toServer) :
       toServer[i].packet.pub = toServer[j].packet.pub => i = j
  /\ \A i, j \in Ecdhs(toClient) :
       toClient[i].packet.pub = toClient[j].packet.pub => i = j
  /\ \A i \in Ecdhs(toServer), j \in Ecdhs(toClient) :
       toServer[i].packet.pub \notin {toClient[j].packet.pub, toClient[j].packet.origin}
  /\ client # NULL => \A j \in Ecdhs(toClient) : toClient[j].packet.pub # client.pair
  /\ client # NULL /\ server # NULL => client.pair # server.pair

(* A side's secret is made with its own pair; a FINAL with the public key  *)
(* the server still has carries what the server's secret was made of.      *)
OwnSecrets ==
  /\ Keyed(client) => client.pair \in client.secret
  /\ server # NULL => Keyed(server) /\ server.pair \in server.secret
  /\ server # NULL => \A j \in Ecdhs(toClient) :
       toClient[j].packet.pub = server.pair =>
         server.secret = {toClient[j].packet.pub, toClient[j].packet.origin}

(* The row without a partner: the public key of a FINAL in flight is not   *)
(* in a client's row, and in a server's row only if the FINAL is that of   *)
(* the negotiation the row was written for.                                *)
RowNames ==
  keyFile.row # NoRow => \A j \in Ecdhs(toClient) :
    toClient[j].packet.pub \in keyFile.row.key =>
      /\ keyFile.row.node = "server"
      /\ keyFile.row.key = {toClient[j].packet.pub, toClient[j].packet.origin}

(* Hence two equal keys are not those of one node.                         *)
NamesInv == DistinctPubs /\ OwnSecrets /\ RowNames /\ SuccessIsOfTwoNodes

-----------------------------------------------------------------------------
(* The packets of the negotiation the client is in are where its age says. *)
OnTime ==
  client # NULL =>
    /\ \A i \in Ecdhs(toServer) :
         toServer[i].packet.pub = client.pair => toServer[i].wait = delay - Age
    /\ \A j \in Ecdhs(toClient) :
         toClient[j].packet.origin = client.pair => toClient[j].wait = 2 * delay - Age

(* Answers that come too late.                                             *)
SlowInv == SecretsNeverAgree /\ NoFalseSuccess

(* Answers that come in time: all ECDH packets are of the negotiation the  *)
(* client is in, and it is over when the client has its secret.            *)
OneNegotiation ==
  /\ client # NULL =>
       /\ \A i \in Ecdhs(toServer) : toServer[i].packet.pub = client.pair
       /\ \A j \in Ecdhs(toClient) :
            toClient[j].packet.origin = client.pair /\ toClient[j].packet.pub = server.pair
  /\ Keyed(client) =>
       /\ Ecdhs(toServer) = {} /\ Ecdhs(toClient) = {}
       /\ client.secret = server.secret

(* The row without a partner is the server's, until FINAL arrives.         *)
RowAwaitsFinal ==
  /\ keyFile.row # NoRow <=> Ecdhs(toClient) # {}
  /\ keyFile.row # NoRow =>
       keyFile.row.node = "server" /\ keyFile.row.key = server.secret

FastInv ==
  2 * delay < refreshTime =>
    /\ OneNegotiation
    /\ ~lossy => RowAwaitsFinal
    /\ ScriptCountsExchanges

(* The refresh leaves time for the MSG: its timer runs under the secret.   *)
TimedMsg ==
  /\ \A i \in DOMAIN timers : timers[i] = 2 * delay + MsgDelay - Age
  /\ timers # <<>> => Keyed(client)
  /\ \A i \in DOMAIN toServer :
       /\ toServer[i].packet # EmptyPacket
       /\ toServer[i].packet.type = "MSG" => toServer[i].packet.key # NoKey

(* The row of the trace without a partner is that of a BEGIN, as old as    *)
(* the negotiation, or of a FINAL whose BEGIN has found another partner.   *)
TraceRowAge ==
  trace.row # NoRow =>
    /\ trace.row.state \in {"BEGIN", "FINAL"}
    /\ trace.row.state = "BEGIN" => client # NULL /\ trace.row.age = Age

TraceRowAwaitsFinal ==
  /\ trace.row # NoRow <=> Ecdhs(toServer) # {} \/ Ecdhs(toClient) # {}
  /\ trace.row # NoRow => trace.row.state = "BEGIN"

MsgInv ==
  2 * delay + MsgDelay < refreshTime =>
    /\ TimedMsg
    /\ TraceRowAge
    /\ ~lossy => TraceRowAwaitsFinal
    /\ PlotTimesNegotiations

(* The server has no key pair before a BEGIN has reached it.               *)
FirstBegin == ~lossy /\ client # NULL /\ server = NULL => Ecdhs(toServer) # {}

(* The refresh leaves time for the MSG to arrive, or for the reply too.    *)
MsgsInTime ==
  3 * delay + MsgDelay < refreshTime =>
    \A i \in Msgs(toServer) :
      /\ toServer[i].wait = 3 * delay + MsgDelay - Age
      /\ Keyed(client) /\ toServer[i].packet.key = client.secret

RepliesInTime ==
  4 * delay + MsgDelay < refreshTime =>
    \A i \in Msgs(toClient) :
      /\ toClient[i].wait = 4 * delay + MsgDelay - Age
      /\ Keyed(client) /\ toClient[i].packet.key = client.secret

(* Between BEGIN and FINAL no other packet is created.                     *)
CountedPackets ==
  3 * delay + MsgDelay < refreshTime /\ ~lossy =>
    /\ \A i \in Ecdhs(toServer) : trace.row.newer = 0
    /\ \A j \in Ecdhs(toClient) : trace.row.newer = toClient[j].newer + 1
    /\ PlotCountsTwoPackets

ReplyInv == MsgsInTime /\ RepliesInTime /\ CountedPackets

-----------------------------------------------------------------------------
(* Queues.                                                                 *)

ToServerPackets == EcdhPackets("BEGIN") \cup MsgPackets \cup {EmptyPacket}
ToClientPackets == EcdhPackets("FINAL") \cup MsgPackets

(* r is q without its first k entries, n packets and t units of time later.*)
Shifted(q, r, k, n, t) ==
  \A i \in 1 .. Len(q) - k :
    /\ r[i].packet = q[i + k].packet
    /\ r[i].wait = q[i + k].wait - t
    /\ r[i].newer = q[i + k].newer + n

Becomes(q, r, k, n, t) == Len(r) = Len(q) - k /\ Shifted(q, r, k, n, t)

(* The same with a packet sent.                                            *)
BecomesWith(q, r, packet) ==
  /\ Len(r) = Len(q) + 1 /\ Shifted(q, r, 0, 1, 0)
  /\ r[Len(r)].packet = packet /\ r[Len(r)].wait = delay /\ r[Len(r)].newer = 0

(* An entry one packet later, and one unit of time later.                  *)
LEMMA EntryOlder ==
  ASSUME NEW P, NEW W, NEW e \in [packet : P, wait : W, newer : Nat]
  PROVE  [e EXCEPT !.newer = @ + 1] \in [packet : P, wait : W, newer : Nat]
OBVIOUS

LEMMA EntryCloser ==
  ASSUME NEW P, NEW W, NEW V, NEW e \in [packet : P, wait : W, newer : Nat],
         e.wait - 1 \in V
  PROVE  [e EXCEPT !.wait = @ - 1] \in [packet : P, wait : V, newer : Nat]
OBVIOUS

LEMMA SequenceFacts ==
  ASSUME NEW S, NEW q \in Seq(S)
  PROVE  /\ DOMAIN q = 1 .. Len(q) /\ Len(q) \in Nat /\ (q = <<>> <=> Len(q) = 0)
         /\ \A i \in DOMAIN q : q[i] \in S
         /\ Head(q) = q[1]
OBVIOUS

LEMMA FunctionIsSequence ==
  ASSUME NEW S, NEW n \in Nat, NEW f \in [1 .. n -> S]
  PROVE  f \in Seq(S) /\ Len(f) = n
OBVIOUS

LEMMA EntryFacts ==
  ASSUME NEW P, NEW q \in Seq(Entries(P))
  PROVE  /\ DOMAIN q = 1 .. Len(q) /\ Len(q) \in Nat /\ (q = <<>> <=> Len(q) = 0)
         /\ \A i \in DOMAIN q :
              /\ q[i] \in Entries(P)
              /\ q[i].packet \in P /\ q[i].wait \in 0 .. delay /\ q[i].newer \in Nat
<1>1. DOMAIN q = 1 .. Len(q) /\ Len(q) \in Nat /\ (q = <<>> <=> Len(q) = 0)
  OBVIOUS
<1>2. \A i \in DOMAIN q : q[i] \in Entries(P)
  OBVIOUS
<1>3. \A e \in Entries(P) : e.packet \in P /\ e.wait \in 0 .. delay /\ e.newer \in Nat
  BY DEF Entries
<1> QED
  BY <1>1, <1>2, <1>3

LEMMA OlderQueue ==
  ASSUME NEW P, NEW q \in Seq(Entries(P))
  PROVE  Older(q) \in Seq(Entries(P)) /\ Becomes(q, Older(q), 0, 1, 0)
<1>1. DOMAIN q = 1 .. Len(q) /\ Len(q) \in Nat /\ \A i \in DOMAIN q : q[i] \in Entries(P)
  OBVIOUS
<1>2. \A i \in DOMAIN q : [q[i] EXCEPT !.newer = @ + 1] \in Entries(P)
  BY <1>1, EntryOlder DEF Entries
<1>3. Older(q) \in [1 .. Len(q) -> Entries(P)]
  BY <1>1, <1>2 DEF Older
<1>4. Older(q) \in Seq(Entries(P)) /\ Len(Older(q)) = Len(q)
  BY <1>1, <1>3
<1>5. ASSUME NEW i \in 1 .. Len(q)
      PROVE  /\ Older(q)[i].packet = q[i + 0].packet
             /\ Older(q)[i].wait = q[i + 0].wait - 0
             /\ Older(q)[i].newer = q[i + 0].newer + 1
  <2>1. i + 0 = i /\ q[i] \in Entries(P) /\ q[i].wait - 0 = q[i].wait
    BY <1>1 DEF Entries
  <2>2. Older(q)[i] = [q[i] EXCEPT !.newer = @ + 1]
    BY <1>1 DEF Older
  <2> QED
    BY <2>1, <2>2 DEF Entries
<1>6. Len(q) - 0 = Len(q)
  BY <1>1
<1> QED
  BY <1>4, <1>5, <1>6 DEF Becomes, Shifted

LEMMA TailQueue ==
  ASSUME NEW P, NEW q \in Seq(Entries(P)), q # <<>>
  PROVE  /\ Tail(q) \in Seq(Entries(P)) /\ Becomes(q, Tail(q), 1, 0, 0)
         /\ Head(q) = q[1] /\ 1 \in DOMAIN q
         /\ Becomes(q, Older(Tail(q)), 1, 1, 0)
<1>1. /\ Tail(q) \in Seq(Entries(P)) /\ Len(Tail(q)) = Len(q) - 1
      /\ Head(q) = q[1] /\ 1 \in DOMAIN q
      /\ \A i \in 1 .. Len(q) - 1 : Tail(q)[i] = q[i + 1]
  OBVIOUS
<1>2. \A i \in 1 .. Len(q) - 1 : i + 1 \in DOMAIN q /\ q[i + 1] \in Entries(P)
  OBVIOUS
<1>3. Becomes(q, Tail(q), 1, 0, 0)
  BY <1>1, <1>2 DEF Becomes, Shifted, Entries
<1>4. Becomes(Tail(q), Older(Tail(q)), 0, 1, 0)
  BY <1>1, OlderQueue
<1>5. Becomes(q, Older(Tail(q)), 1, 1, 0)
  <2> DEFINE r == Older(Tail(q))
  <2>1. Len(r) = Len(q) - 1
    <3>1. Len(r) = Len(Tail(q)) - 0
      BY <1>4 DEF Becomes
    <3>2. Len(Tail(q)) = Len(q) - 1 /\ Len(q) \in Nat
      BY <1>1
    <3> QED
      BY <3>1, <3>2
  <2>2. ASSUME NEW i \in 1 .. Len(q) - 1
        PROVE  /\ r[i].packet = q[i + 1].packet /\ r[i].wait = q[i + 1].wait
               /\ r[i].newer = q[i + 1].newer + 1
    <3>1. /\ r[i].packet = Tail(q)[i].packet /\ r[i].wait = Tail(q)[i].wait - 0
          /\ r[i].newer = Tail(q)[i].newer + 1
      BY <1>1, <1>4 DEF Becomes, Shifted
    <3>2. i + 1 \in DOMAIN q /\ Tail(q)[i] = q[i + 1]
      BY <1>1, <1>2
    <3> QED
      BY <3>1, <3>2, EntryFacts
  <2>3. \A i \in 1 .. Len(q) - 1 : q[i + 1].wait \in Int
    BY <1>2, EntryFacts
  <2> QED
    BY <2>1, <2>2, <2>3 DEF Becomes, Shifted
<1> QED
  BY <1>1, <1>2, <1>3, <1>5

LEMMA SentQueue ==
  ASSUME NEW P, NEW q \in Seq(Entries(P)), NEW packet \in P, delay \in Nat
  PROVE  Send(q, packet) \in Seq(Entries(P)) /\ BecomesWith(q, Send(q, packet), packet)
<1> DEFINE e == [packet |-> packet, wait |-> delay, newer |-> 0]
<1>1. Older(q) \in Seq(Entries(P)) /\ Becomes(q, Older(q), 0, 1, 0)
  BY OlderQueue
<1>2. e \in Entries(P)
  BY DEF Entries
<1>3. /\ Append(Older(q), e) \in Seq(Entries(P))
      /\ Len(Append(Older(q), e)) = Len(Older(q)) + 1
      /\ Append(Older(q), e)[Len(Older(q)) + 1] = e
      /\ \A i \in 1 .. Len(Older(q)) : Append(Older(q), e)[i] = Older(q)[i]
  BY <1>1, <1>2
<1> QED
  BY <1>1, <1>3 DEF Send, Becomes, BecomesWith, Shifted

LEMMA CloserQueue ==
  ASSUME NEW P, NEW q \in Seq(Entries(P)), Sorted(q), ~Due(q), delay \in Nat
  PROVE  Closer(q) \in Seq(Entries(P)) /\ Becomes(q, Closer(q), 0, 0, 1)
<1>1. DOMAIN q = 1 .. Len(q) /\ Len(q) \in Nat /\ \A i \in DOMAIN q : q[i] \in Entries(P)
  OBVIOUS
<1>2. \A i \in DOMAIN q : q[i].wait > 0
  <2>1. CASE q = <<>>
    BY <2>1, <1>1
  <2>2. CASE q # <<>>
    <3>1. 1 \in DOMAIN q /\ Head(q) = q[1]
      BY <2>2
    <3>2. q[1].wait > 0
      BY <2>2, <3>1, <1>1 DEF Due, Entries
    <3> QED
      BY <3>1, <3>2, <1>1 DEF Sorted, Entries
  <2> QED
    BY <2>1, <2>2
<1>3. ASSUME NEW i \in DOMAIN q
      PROVE  [q[i] EXCEPT !.wait = @ - 1] \in Entries(P)
  <2>1. q[i].wait - 1 \in 0 .. delay
    BY <1>1, <1>2 DEF Entries
  <2> QED
    BY <1>1, <2>1, EntryCloser DEF Entries
<1>4. Closer(q) \in [1 .. Len(q) -> Entries(P)]
  BY <1>1, <1>3 DEF Closer
<1>5. Closer(q) \in Seq(Entries(P)) /\ Len(Closer(q)) = Len(q)
  BY <1>1, <1>4
<1>6. ASSUME NEW i \in 1 .. Len(q)
      PROVE  /\ Closer(q)[i].packet = q[i + 0].packet
             /\ Closer(q)[i].wait = q[i + 0].wait - 1
             /\ Closer(q)[i].newer = q[i + 0].newer + 0
  <2>1. i + 0 = i /\ q[i] \in Entries(P) /\ q[i].newer + 0 = q[i].newer
    BY <1>1 DEF Entries
  <2>2. Closer(q)[i] = [q[i] EXCEPT !.wait = @ - 1]
    BY <1>1 DEF Closer
  <2> QED
    BY <2>1, <2>2 DEF Entries
<1>7. DOMAIN Closer(q) = 1 .. Len(q) /\ Len(q) - 0 = Len(q)
  BY <1>1, <1>5
<1> QED
  BY <1>5, <1>6, <1>7 DEF Becomes, Shifted

(* Queues stay sorted: nothing in them is further away than delay.         *)
LEMMA StaysSorted ==
  ASSUME NEW P, NEW q \in Seq(Entries(P)), NEW r \in Seq(Entries(P)), Sorted(q),
         NEW k \in {0, 1}, NEW n \in Nat, NEW t \in Nat, NEW packet,
         Becomes(q, r, k, n, t) \/ BecomesWith(q, r, packet),
         delay \in Nat, k = 1 => q # <<>>
  PROVE  Sorted(r)
<1>1. /\ DOMAIN q = 1 .. Len(q) /\ Len(q) \in Nat /\ (k = 1 => Len(q) > 0)
      /\ DOMAIN r = 1 .. Len(r) /\ Len(r) \in Nat
      /\ \A i \in DOMAIN q : q[i].wait \in 0 .. delay
      /\ \A i \in DOMAIN r : r[i].wait \in 0 .. delay
  BY EntryFacts
<1>2. CASE Becomes(q, r, k, n, t)
  <2> SUFFICES ASSUME NEW i \in DOMAIN r, NEW j \in DOMAIN r, i <= j
               PROVE  r[i].wait <= r[j].wait
    BY DEF Sorted
  <2>1. i \in 1 .. Len(q) - k /\ j \in 1 .. Len(q) - k
    BY <1>1, <1>2 DEF Becomes
  <2>2. i + k \in DOMAIN q /\ j + k \in DOMAIN q /\ i + k <= j + k
    BY <2>1, <1>1
  <2>3. q[i + k].wait <= q[j + k].wait
    BY <2>2 DEF Sorted
  <2>4. r[i].wait = q[i + k].wait - t /\ r[j].wait = q[j + k].wait - t
    BY <2>1, <1>2 DEF Becomes, Shifted
  <2> QED
    BY <2>2, <2>3, <2>4, <1>1
<1>3. CASE BecomesWith(q, r, packet)
  <2> SUFFICES ASSUME NEW i \in DOMAIN r, NEW j \in DOMAIN r, i <= j
               PROVE  r[i].wait <= r[j].wait
    BY DEF Sorted
  <2>1. CASE j = Len(r)
    BY <2>1, <1>1, <1>3 DEF BecomesWith
  <2>2. CASE j # Len(r)
    <3>1. i \in 1 .. Len(q) - 0 /\ j \in 1 .. Len(q) - 0 /\ i + 0 = i /\ j + 0 = j
      BY <2>2, <1>1, <1>3 DEF BecomesWith
    <3>2. i \in DOMAIN q /\ j \in DOMAIN q
      BY <3>1, <1>1
    <3>3. q[i].wait <= q[j].wait
      BY <3>2 DEF Sorted
    <3>4. r[i].wait = q[i].wait - 0 /\ r[j].wait = q[j].wait - 0
      BY <3>1, <1>3 DEF BecomesWith, Shifted
    <3> QED
      BY <3>2, <3>3, <3>4, <1>1
  <2> QED
    BY <2>1, <2>2
<1> QED
  BY <1>2, <1>3
-----------------------------------------------------------------------------
(* What each handler does to the two queues.                               *)

LEMMA Settings ==
  ASSUME TypeOK
  PROVE  /\ delay \in Nat \ {0} /\ refreshTime \in Nat \ {0} /\ MsgDelay \in Nat \ {0}
         /\ refresh \in 0 .. refreshTime /\ Age \in 0 .. refreshTime
         /\ toServer \in Seq(Entries(ToServerPackets))
         /\ toClient \in Seq(Entries(ToClientPackets))
BY EcdhAssumption DEF TypeOK, Age, ToServerPackets, ToClientPackets

LEMMA TimesAreNumbers ==
  ASSUME TypeOK
  PROVE  /\ delay \in Nat /\ MsgDelay \in Nat \ {0} /\ refreshTime \in Nat
         /\ Age \in Nat /\ refresh \in Nat
<1>1. /\ delay \in Nat \ {0} /\ refreshTime \in Nat \ {0} /\ MsgDelay \in Nat \ {0}
      /\ refresh \in 0 .. refreshTime /\ Age \in 0 .. refreshTime
  BY Settings
<1> QED
  BY <1>1

LEMMA FreshPairIsUnused ==
  ASSUME UnusedPair
  PROVE  FreshPair \in KeyPairs /\ FreshPair \notin InUse
BY DEF UnusedPair, FreshPair

LEMMA UpdateKeyQueues ==
  ASSUME TypeOK, UnusedPair, UpdateKey
  PROVE  /\ toServer' \in Seq(Entries(ToServerPackets))
         /\ BecomesWith(toServer, toServer', EcdhPacket("BEGIN", FreshPair, FreshPair))
         /\ toClient' \in Seq(Entries(ToClientPackets))
         /\ Becomes(toClient, toClient', 0, 1, 0)
<1>1. EcdhPacket("BEGIN", FreshPair, FreshPair) \in ToServerPackets
  BY FreshPairIsUnused DEF EcdhPacket, ToServerPackets, EcdhPackets
<1>2. /\ toServer' = Send(toServer, EcdhPacket("BEGIN", FreshPair, FreshPair))
      /\ toClient' = Older(toClient)
  BY DEF UpdateKey, Restart, NewECDH
<1> QED
  BY <1>1, <1>2, Settings, SentQueue, OlderQueue

LEMMA ClientReadQueues ==
  ASSUME TypeOK, toClient # <<>>, toClient' = Tail(toClient)
  PROVE  /\ toClient' \in Seq(Entries(ToClientPackets))
         /\ Becomes(toClient, toClient', 1, 0, 0)
         /\ Head(toClient) = toClient[1] /\ 1 \in DOMAIN toClient
BY Settings, TailQueue

LEMMA ServerReadQueues ==
  ASSUME TypeOK, toServer # <<>>, toServer' = Tail(toServer)
  PROVE  /\ toServer' \in Seq(Entries(ToServerPackets))
         /\ Becomes(toServer, toServer', 1, 0, 0)
         /\ Head(toServer) = toServer[1] /\ 1 \in DOMAIN toServer
BY Settings, TailQueue

LEMMA ClientSendQueues ==
  ASSUME TypeOK, NEW m \in ToServerPackets,
         toServer' = Send(toServer, m), toClient' = Older(toClient)
  PROVE  /\ toServer' \in Seq(Entries(ToServerPackets))
         /\ BecomesWith(toServer, toServer', m)
         /\ toClient' \in Seq(Entries(ToClientPackets))
         /\ Becomes(toClient, toClient', 0, 1, 0)
BY Settings, SentQueue, OlderQueue

LEMMA ServerAnswerQueues ==
  ASSUME TypeOK, toServer # <<>>, NEW m \in ToClientPackets,
         toClient' = Send(toClient, m), toServer' = Older(Tail(toServer))
  PROVE  /\ toServer' \in Seq(Entries(ToServerPackets))
         /\ Becomes(toServer, toServer', 1, 1, 0)
         /\ toClient' \in Seq(Entries(ToClientPackets))
         /\ BecomesWith(toClient, toClient', m)
         /\ Head(toServer) = toServer[1] /\ 1 \in DOMAIN toServer
<1>1. Tail(toServer) \in Seq(Entries(ToServerPackets))
  BY Settings, TailQueue
<1>2. toServer' \in Seq(Entries(ToServerPackets))
  BY <1>1, OlderQueue
<1> QED
  BY <1>2, Settings, SentQueue, TailQueue

LEMMA TickQueues ==
  ASSUME TypeOK, InOrder, Tick
  PROVE  /\ toServer' \in Seq(Entries(ToServerPackets))
         /\ Becomes(toServer, toServer', 0, 0, 1)
         /\ toClient' \in Seq(Entries(ToClientPackets))
         /\ Becomes(toClient, toClient', 0, 0, 1)
BY Settings, CloserQueue DEF Tick, Advance, InOrder

-----------------------------------------------------------------------------
(* Type correctness, the order of the queues and what causes what.         *)

LEMMA InitTypeInv == Init => TypeInv
<1> SUFFICES ASSUME Init
             PROVE  TypeInv
  OBVIOUS
<1>1. TypeOK
  BY EcdhAssumption DEF Init, TypeOK, NewFile
<1>2. InOrder
  BY DEF Init, InOrder, Sorted
<1>3. Causes
  BY DEF Init, Causes, Msgs, Keyed
<1> QED
  BY <1>1, <1>2, <1>3 DEF TypeInv

KeyFiles   == [row : KeyRows \cup {NoRow}, pair : KeyRowPairs \cup {NoRow}]
TraceFiles == [row : TraceRows \cup {NoRow}, pair : TraceRowPairs \cup {NoRow}]

LEMMA ReadType ==
  ASSUME NEW R, NEW P, NEW file \in [row : R \cup {NoRow}, pair : P \cup {NoRow}],
         NEW row \in R, NEW pair, file.row # NoRow => pair \in P
  PROVE  Read(file, row, pair) \in [row : R \cup {NoRow}, pair : P \cup {NoRow}]
BY DEF Read

LEMMA LogKeyType ==
  ASSUME NEW file \in KeyFiles, NEW node \in Nodes, NEW key \in Secrets
  PROVE  LogKey(file, node, key) \in KeyFiles
<1> DEFINE pair == [nodes |-> <<file.row.node, node>>, same |-> file.row.key = key]
<1>1. [node |-> node, key |-> key] \in KeyRows
  BY DEF KeyRows
<1>2. file.row # NoRow => pair \in KeyRowPairs
  BY DEF KeyFiles, KeyRows, KeyRowPairs
<1>3. ASSUME NEW p, file.row # NoRow => p \in KeyRowPairs
      PROVE  Read(file, [node |-> node, key |-> key], p) \in KeyFiles
  BY <1>1, <1>3, ReadType DEF KeyFiles
<1>4. Read(file, [node |-> node, key |-> key], pair) \in KeyFiles
  BY <1>2, <1>3, Zenon
<1> QED
  BY <1>4, Zenon DEF LogKey, ReadKey

LEMMA ReadPacketRowType ==
  ASSUME NEW file \in TraceFiles, NEW packet, NEW comment, NEW newer \in Nat,
         PacketState(packet) \in KeptStates
  PROVE  ReadPacketRow(file, packet, comment, newer) \in TraceFiles
<1> DEFINE row == [state |-> PacketState(packet), age |-> 0, newer |-> newer]
           pair == [states |-> <<file.row.state, PacketState(packet)>>,
                    time |-> file.row.age, packets |-> file.row.newer - newer + 1]
<1>1. row \in TraceRows
  BY DEF TraceRows
<1>2. file.row # NoRow => pair \in TraceRowPairs
  <2> SUFFICES ASSUME file.row # NoRow
               PROVE  pair \in TraceRowPairs
    OBVIOUS
  <2>1. file.row.state \in KeptStates /\ file.row.age \in Nat /\ file.row.newer \in Nat
    BY DEF TraceFiles, TraceRows
  <2>2. file.row.newer - newer + 1 \in Int
    BY <2>1
  <2> QED
    BY <2>1, <2>2 DEF TraceRowPairs
<1>3. Read(file, row, pair) \in TraceFiles
  BY <1>1, <1>2, ReadType DEF TraceFiles
<1> QED
  BY <1>3 DEF ReadPacketRow

LEMMA TraceTypes ==
  ASSUME NEW file \in TraceFiles, NEW packet \in ToServerPackets \cup ToClientPackets
  PROVE  /\ TraceTransmitPacket(file, packet) \in TraceFiles
         /\ \A newer \in Nat : TraceReceivePacket(file, packet, newer) \in TraceFiles
<1>1. PacketState(packet) \in KeptStates
  <2>1. packet.type = "ECDH" => packet.state \in {"BEGIN", "FINAL"}
    BY DEF ToServerPackets, ToClientPackets, EcdhPackets, MsgPackets, EmptyPacket
  <2> QED
    BY <2>1 DEF PacketState, KeptStates
<1>2. (IF file.row = NoRow THEN file ELSE [file EXCEPT !.row.newer = @ + 1]) \in TraceFiles
  <2>1. CASE file.row # NoRow
    <3>1. file.row \in TraceRows
      BY <2>1 DEF TraceFiles
    <3>2. [file.row EXCEPT !.newer = @ + 1] \in TraceRows
      BY <3>1 DEF TraceRows
    <3>3. [file EXCEPT !.row.newer = @ + 1] = [file EXCEPT !.row = [file.row EXCEPT !.newer = @ + 1]]
      BY <3>1 DEF TraceFiles, TraceRows
    <3> QED
      BY <2>1, <3>2, <3>3 DEF TraceFiles
  <2> QED
    BY <2>1
<1> QED
  BY <1>1, <1>2, ReadPacketRowType DEF TraceTransmitPacket, TraceReceivePacket

LEMMA LaterTypes ==
  ASSUME NEW file \in TraceFiles, NEW other \in KeyFiles
  PROVE  Later(file) \in TraceFiles /\ Forget(other) \in KeyFiles
<1>1. Forget(other) \in KeyFiles
  BY DEF Forget, KeyFiles
<1>2. (IF file.row = NoRow THEN file ELSE [file EXCEPT !.row.age = @ + 1]) \in TraceFiles
  <2>1. CASE file.row # NoRow
    <3>1. file.row \in TraceRows
      BY <2>1 DEF TraceFiles
    <3>2. [file.row EXCEPT !.age = @ + 1] \in TraceRows
      BY <3>1 DEF TraceRows
    <3>3. [file EXCEPT !.row.age = @ + 1] = [file EXCEPT !.row = [file.row EXCEPT !.age = @ + 1]]
      BY <3>1 DEF TraceFiles, TraceRows
    <3> QED
      BY <2>1, <3>2, <3>3 DEF TraceFiles
  <2> QED
    BY <2>1
<1> QED
  BY <1>1, <1>2 DEF Later, Forget, TraceFiles

(* The machines of ECDH.cc.                                                *)
LEMMA NewMachine ==
  ASSUME NEW pair \in KeyPairs
  PROVE  /\ NewECDH(pair) \in ECDHs /\ NewECDH(pair) # NULL
         /\ NewECDH(pair).pair = pair /\ ~Keyed(NewECDH(pair))
<1>1. NewECDH(pair) \in ECDHs /\ NewECDH(pair).pair = pair /\ NewECDH(pair).secret = NoKey
  BY DEF NewECDH, ECDHs
<1> QED
  BY <1>1, NothingAssumption DEF Keyed

LEMMA SecretMachine ==
  ASSUME NEW ecdh \in ECDHs, NEW pub \in KeyPairs
  PROVE  /\ GenerateSecret(ecdh, pub) \in ECDHs /\ GenerateSecret(ecdh, pub) # NULL
         /\ GenerateSecret(ecdh, pub).pair = ecdh.pair /\ ecdh.pair \in KeyPairs
         /\ GenerateSecret(ecdh, pub).secret = {ecdh.pair, pub}
         /\ GenerateSecret(ecdh, pub).secret \in Secrets /\ Keyed(GenerateSecret(ecdh, pub))
<1>1. {ecdh.pair, pub} \in Secrets /\ ecdh.pair \in KeyPairs
  BY DEF Secrets, ECDHs
<1>2. /\ GenerateSecret(ecdh, pub) \in ECDHs /\ GenerateSecret(ecdh, pub).pair = ecdh.pair
      /\ GenerateSecret(ecdh, pub).secret = {ecdh.pair, pub}
  BY <1>1 DEF GenerateSecret, ECDHs
<1> QED
  BY <1>1, <1>2, NothingAssumption DEF Keyed

(* The packet a handler reads.                                             *)
LEMMA HeadPackets ==
  ASSUME TypeOK
  PROVE  /\ toServer # <<>> =>
              /\ 1 \in DOMAIN toServer /\ Head(toServer) = toServer[1]
              /\ Head(toServer).packet \in ToServerPackets /\ Head(toServer).newer \in Nat
         /\ toClient # <<>> =>
              /\ 1 \in DOMAIN toClient /\ Head(toClient) = toClient[1]
              /\ Head(toClient).packet \in ToClientPackets /\ Head(toClient).newer \in Nat
BY Settings, EntryFacts, TailQueue

LEMMA PacketFields ==
  /\ \A p \in ToServerPackets :
       /\ p.type \in {"ECDH", "MSG", "EMPTY"}
       /\ p.type = "ECDH" => p.pub \in KeyPairs /\ p.origin \in KeyPairs /\ p.state = "BEGIN"
       /\ p.type = "MSG" => p.key \in Secrets \cup {NoKey}
       /\ p.type = "EMPTY" => p = EmptyPacket
  /\ \A p \in ToClientPackets :
       /\ p.type \in {"ECDH", "MSG"}
       /\ p.type = "ECDH" => p.pub \in KeyPairs /\ p.origin \in KeyPairs /\ p.state = "FINAL"
       /\ p.type = "MSG" => p.key \in Secrets \cup {NoKey}
BY DEF ToServerPackets, ToClientPackets, EcdhPackets, MsgPackets, EmptyPacket

-----------------------------------------------------------------------------
(* Type correctness of each handler.                                       *)

LEMMA UpdateKeyType ==
  ASSUME TypeOK, UnusedPair, UpdateKey
  PROVE  TypeOK'
<1>1. client' \in ECDHs /\ UNCHANGED <<server, delay, refreshTime, lossy, running, keyFile, timers>>
  BY FreshPairIsUnused, NewMachine DEF UpdateKey, Restart, settings
<1>2. /\ toServer' \in Seq(Entries(ToServerPackets))
      /\ toClient' \in Seq(Entries(ToClientPackets))
  BY UpdateKeyQueues
<1>3. EcdhPacket("BEGIN", FreshPair, FreshPair) \in ToServerPackets
  BY FreshPairIsUnused DEF EcdhPacket, ToServerPackets, EcdhPackets
<1>4. trace' \in TraceFiles
  BY <1>3, TraceTypes DEF TypeOK, TraceFiles, UpdateKey, Restart, NewECDH
<1>5. refresh' \in 0 .. refreshTime'
  BY <1>1, Settings DEF UpdateKey, Restart
<1>6. updates' \in 0 .. MaxUpdates + 1
  BY EcdhAssumption DEF TypeOK, UpdateKey, Restart
<1> QED
  BY <1>1, <1>2, <1>4, <1>5, <1>6
     DEF TypeOK, Entries, ToServerPackets, ToClientPackets, TraceFiles

LEMMA ClientFinalType ==
  ASSUME TypeOK, ClientFinal
  PROVE  TypeOK'
<1>1. /\ client \in ECDHs /\ toClient # <<>> /\ toClient' = Tail(toClient)
      /\ client' = GenerateSecret(client, Head(toClient).packet.pub)
      /\ UNCHANGED <<server, toServer, refresh, delay, refreshTime, lossy, running, updates>>
  BY DEF ClientFinal, TypeOK, Arrives, Due, settings
<1>2. Head(toClient).packet.pub \in KeyPairs
  BY <1>1, HeadPackets, PacketFields DEF ClientFinal, Arrives
<1>3. client' \in ECDHs /\ client'.secret \in Secrets
  BY <1>1, <1>2, SecretMachine
<1>4. toClient' \in Seq(Entries(ToClientPackets))
  BY <1>1, ClientReadQueues
<1>5. keyFile' \in KeyFiles
  BY <1>3, LogKeyType DEF ClientFinal, TypeOK, KeyFiles, Nodes
<1>6. trace' \in TraceFiles
  BY <1>1, HeadPackets, TraceTypes DEF ClientFinal, TypeOK, TraceFiles
<1>7. timers' \in Seq(0 .. MsgDelay)
  BY Settings DEF ClientFinal, TypeOK
<1> QED
  BY <1>1, <1>3, <1>4, <1>5, <1>6, <1>7
     DEF TypeOK, Entries, ToServerPackets, ToClientPackets, TraceFiles, KeyFiles

LEMMA SendEncryptedMessageType ==
  ASSUME TypeOK, Causes, SendEncryptedMessage
  PROVE  TypeOK'
<1>1. /\ timers # <<>> /\ timers' = Tail(timers) /\ client \in ECDHs
      /\ UNCHANGED <<client, server, refresh, delay, refreshTime, lossy, keyFile, updates>>
  BY DEF SendEncryptedMessage, TypeOK, Causes, settings
<1>2. PICK m \in EncryptedMessages(client.secret) :
        /\ toServer' = Send(toServer, m)
        /\ \/ running' = TRUE /\ trace' = TraceTransmitPacket(trace, m)
           \/ m = EmptyPacket /\ running' = FALSE /\ UNCHANGED trace
  BY DEF SendEncryptedMessage
<1>3. m \in ToServerPackets
  BY <1>1 DEF EncryptedMessages, Msg, ToServerPackets, MsgPackets, ECDHs
<1>4. /\ toServer' \in Seq(Entries(ToServerPackets))
      /\ toClient' \in Seq(Entries(ToClientPackets))
  BY <1>2, <1>3, ClientSendQueues DEF SendEncryptedMessage
<1>5. trace' \in TraceFiles /\ running' \in BOOLEAN
  BY <1>2, <1>3, TraceTypes DEF TypeOK, TraceFiles
<1>6. timers' \in Seq(0 .. MsgDelay)
  BY <1>1 DEF TypeOK
<1> QED
  BY <1>1, <1>4, <1>5, <1>6
     DEF TypeOK, Entries, ToServerPackets, ToClientPackets, TraceFiles

LEMMA ServerBeginType ==
  ASSUME TypeOK, UnusedPair, ServerBegin
  PROVE  TypeOK'
<1> DEFINE p == Head(toServer)
           final == EcdhPacket("FINAL", server'.pair, p.packet.pub)
<1>1. /\ toServer # <<>> /\ server' = GenerateSecret(NewECDH(FreshPair), p.packet.pub)
      /\ p.packet.type = "ECDH" /\ keyFile' = LogKey(keyFile, "server", server'.secret)
      /\ toServer' = Older(Tail(toServer)) /\ toClient' = Send(toClient, final)
      /\ trace' = TraceTransmitPacket(TraceReceivePacket(trace, p.packet, p.newer), final)
      /\ UNCHANGED <<client, timers, refresh, delay, refreshTime, lossy, running, updates>>
  BY DEF ServerBegin, AnswerBegin, Arrives, Due, settings
<1>2. p.packet \in ToServerPackets /\ p.packet.pub \in KeyPairs /\ p.newer \in Nat
  BY <1>1, HeadPackets, PacketFields
<1>3. server' \in ECDHs /\ server'.secret \in Secrets /\ server'.pair \in KeyPairs
  <2>1. NewECDH(FreshPair) \in ECDHs
    BY FreshPairIsUnused, NewMachine
  <2> QED
    BY <1>1, <1>2, <2>1, SecretMachine
<1>4. final \in ToClientPackets
  BY <1>2, <1>3 DEF EcdhPacket, ToClientPackets, EcdhPackets
<1>5. /\ toServer' \in Seq(Entries(ToServerPackets))
      /\ toClient' \in Seq(Entries(ToClientPackets))
  BY <1>1, <1>4, ServerAnswerQueues
<1>6. keyFile' \in KeyFiles
  BY <1>1, <1>3, LogKeyType DEF TypeOK, KeyFiles, Nodes
<1>7. trace' \in TraceFiles
  <2>1. TraceReceivePacket(trace, p.packet, p.newer) \in TraceFiles
    BY <1>2, TraceTypes DEF TypeOK, TraceFiles
  <2> QED
    BY <1>1, <1>4, <2>1, TraceTypes
<1> QED
  BY <1>1, <1>3, <1>5, <1>6, <1>7
     DEF TypeOK, Entries, ToServerPackets, ToClientPackets, TraceFiles, KeyFiles
LEMMA ServerDecryptMSGType ==
  ASSUME TypeOK, ServerDecryptMSG
  PROVE  TypeOK'
<1> DEFINE p        == Head(toServer)
           received == TraceReceivePacket(trace, p.packet, p.newer)
<1>1. /\ toServer # <<>> /\ server \in ECDHs
      /\ UNCHANGED <<client, server, timers, refresh, delay, refreshTime, lossy, running,
                      keyFile, updates>>
  BY DEF ServerDecryptMSG, Arrives, Due, settings, TypeOK
<1>2. p.packet \in ToServerPackets /\ p.newer \in Nat
  BY <1>1, HeadPackets
<1>3. received \in TraceFiles
  BY <1>2, TraceTypes DEF TypeOK, TraceFiles
<1>4. Msg(server.secret) \in ToClientPackets
  BY <1>1 DEF Msg, ToClientPackets, MsgPackets, ECDHs
<1>5. \/ /\ toClient' = Send(toClient, Msg(server.secret))
         /\ toServer' = Older(Tail(toServer))
         /\ trace' = TraceTransmitPacket(received, Msg(server.secret))
      \/ /\ toServer' = Tail(toServer) /\ UNCHANGED toClient
         /\ trace' = received
  BY DEF ServerDecryptMSG
<1>6. /\ toServer' \in Seq(Entries(ToServerPackets))
      /\ toClient' \in Seq(Entries(ToClientPackets))
  BY <1>1, <1>4, <1>5, Settings, ServerAnswerQueues, ServerReadQueues
<1>7. trace' \in TraceFiles
  BY <1>3, <1>4, <1>5, TraceTypes
<1> QED
  BY <1>1, <1>6, <1>7 DEF TypeOK, Entries, ToServerPackets, ToClientPackets, TraceFiles

(* The handlers and the loss that only take a packet out of a queue.       *)
LEMMA ReadOnlyType ==
  ASSUME TypeOK, ClientDecryptMSG \/ ServerReadEmpty \/ Lose
  PROVE  TypeOK'
<1>1. UNCHANGED <<client, server, timers, refresh, delay, refreshTime, lossy, keyFile, updates>>
  BY DEF ClientDecryptMSG, ServerReadEmpty, Lose, settings, files
<1>2. \/ toServer # <<>> /\ toServer' = Tail(toServer) /\ UNCHANGED toClient
      \/ toClient # <<>> /\ toClient' = Tail(toClient) /\ UNCHANGED toServer
  BY DEF ClientDecryptMSG, ServerReadEmpty, Lose, Arrives, Due
<1>3. /\ toServer' \in Seq(Entries(ToServerPackets))
      /\ toClient' \in Seq(Entries(ToClientPackets))
  BY <1>2, Settings, ServerReadQueues, ClientReadQueues
<1>4. trace' \in TraceFiles /\ running' \in BOOLEAN
  <2>1. CASE ClientDecryptMSG
    <3>1. Head(toClient).packet \in ToClientPackets /\ Head(toClient).newer \in Nat
      BY <2>1, HeadPackets DEF ClientDecryptMSG, Arrives, Due
    <3> QED
      BY <2>1, <3>1, TraceTypes DEF ClientDecryptMSG, TypeOK, TraceFiles
  <2>2. CASE ServerReadEmpty
    <3>1. Head(toServer).packet \in ToServerPackets /\ Head(toServer).newer \in Nat
      BY <2>2, HeadPackets DEF ServerReadEmpty, Arrives, Due
    <3>2. /\ \/ trace' = TraceReceivePacket(trace, Head(toServer).packet, Head(toServer).newer)
             \/ UNCHANGED trace
          /\ running' \in BOOLEAN
      BY <2>2 DEF ServerReadEmpty
    <3>3. trace \in TraceFiles
      BY DEF TypeOK, TraceFiles
    <3>4. TraceReceivePacket(trace, Head(toServer).packet, Head(toServer).newer) \in TraceFiles
      BY <3>1, <3>3, TraceTypes
    <3> QED
      BY <3>2, <3>3, <3>4
  <2>3. CASE Lose
    BY <2>3 DEF Lose, files, TypeOK, TraceFiles
  <2> QED
    BY <2>1, <2>2, <2>3
<1> QED
  BY <1>1, <1>3, <1>4 DEF TypeOK, Entries, ToServerPackets, ToClientPackets, TraceFiles

LEMMA TickType ==
  ASSUME TypeOK, InOrder, Tick
  PROVE  TypeOK'
<1>1. UNCHANGED <<client, server, delay, refreshTime, lossy, running, updates>>
  BY DEF Tick, Advance, settings
<1>2. /\ toServer' \in Seq(Entries(ToServerPackets))
      /\ toClient' \in Seq(Entries(ToClientPackets))
  BY TickQueues
<1>3. timers' \in Seq(0 .. MsgDelay)
  <2>0. /\ DOMAIN timers = 1 .. Len(timers) /\ Len(timers) \in Nat
        /\ \A i \in DOMAIN timers : timers[i] \in 0 .. MsgDelay
        /\ Head(timers) = timers[1] /\ (timers = <<>> <=> Len(timers) = 0)
    BY SequenceFacts DEF TypeOK
  <2>1. \A i \in DOMAIN timers : timers[i] \in 0 .. MsgDelay /\ timers[i] > 0
    <3>1. \A i \in DOMAIN timers : 1 \in DOMAIN timers /\ 1 <= i
      BY <2>0
    <3>2. timers # <<>> => timers[1] > 0
      BY <2>0 DEF Tick
    <3> QED
      BY <2>0, <3>1, <3>2, Settings DEF InOrder
  <2>2. timers' = [i \in DOMAIN timers |-> timers[i] - 1]
    BY DEF Tick, Advance
  <2>3. timers' \in [1 .. Len(timers) -> 0 .. MsgDelay]
    BY <2>0, <2>1, <2>2, Settings
  <2> QED
    BY <2>0, <2>3, FunctionIsSequence
<1>4. refresh' \in 0 .. refreshTime
  BY Settings DEF Tick, Advance
<1>5. trace' \in TraceFiles /\ keyFile' \in KeyFiles
  BY LaterTypes DEF Tick, Advance, TypeOK, TraceFiles, KeyFiles
<1> QED
  BY <1>1, <1>2, <1>3, <1>4, <1>5
     DEF TypeOK, Entries, ToServerPackets, ToClientPackets, TraceFiles, KeyFiles

LEMMA StepType ==
  ASSUME TypeInv, UnusedPair, Next
  PROVE  TypeOK'
BY UpdateKeyType, ClientFinalType, SendEncryptedMessageType, ServerBeginType,
   ServerDecryptMSGType, ReadOnlyType, TickType DEF Next, TypeInv

(* A queue without its head, or with a packet more, or later.              *)
LEMMA QueueStaysSorted ==
  ASSUME TypeOK, NEW P, NEW q \in Seq(Entries(P)), Sorted(q)
  PROVE  /\ Sorted(Older(q))
         /\ q # <<>> => Sorted(Tail(q)) /\ Sorted(Older(Tail(q)))
         /\ \A m \in P : Sorted(Send(q, m))
         /\ ~Due(q) => Sorted(Closer(q))
<1>0. delay \in Nat
  BY Settings
<1>1. ASSUME NEW s \in Seq(Entries(P)), Sorted(s) PROVE Sorted(Older(s))
  BY <1>0, <1>1, OlderQueue, StaysSorted
<1>2. ASSUME q # <<>> PROVE Sorted(Tail(q)) /\ Sorted(Older(Tail(q)))
  <2>1. Tail(q) \in Seq(Entries(P)) /\ Becomes(q, Tail(q), 1, 0, 0)
    BY <1>2, TailQueue
  <2>2. Sorted(Tail(q))
    BY <1>0, <1>2, <2>1, StaysSorted
  <2> QED
    BY <1>1, <2>1, <2>2
<1>3. ASSUME NEW m \in P PROVE Sorted(Send(q, m))
  <2>1. Send(q, m) \in Seq(Entries(P)) /\ BecomesWith(q, Send(q, m), m)
    BY <1>0, SentQueue
  <2> QED
    BY <1>0, <2>1, StaysSorted
<1>4. ASSUME ~Due(q) PROVE Sorted(Closer(q))
  BY <1>0, <1>4, CloserQueue, StaysSorted
<1> QED
  BY <1>1, <1>2, <1>3, <1>4

LEMMA StepInOrder ==
  ASSUME TypeInv, UnusedPair, Next
  PROVE  InOrder'
<1>0. /\ TypeOK /\ Sorted(toServer) /\ Sorted(toClient) /\ Causes
      /\ toServer \in Seq(Entries(ToServerPackets))
      /\ toClient \in Seq(Entries(ToClientPackets))
  BY Settings DEF TypeInv, InOrder
<1>1. Sorted(toServer')
  <2>1. CASE toServer' = toServer \/ (toServer # <<>> /\ toServer' \in {Tail(toServer), Older(Tail(toServer))})
    BY <1>0, <2>1, QueueStaysSorted
  <2>2. CASE UpdateKey
    <3>1. EcdhPacket("BEGIN", FreshPair, FreshPair) \in ToServerPackets
      BY FreshPairIsUnused DEF EcdhPacket, ToServerPackets, EcdhPackets
    <3>2. toServer' = Send(toServer, EcdhPacket("BEGIN", FreshPair, FreshPair))
      BY <2>2 DEF UpdateKey, Restart, NewECDH
    <3> QED
      BY <1>0, <3>1, <3>2, QueueStaysSorted
  <2>3. CASE SendEncryptedMessage
    <3>1. \E m \in EncryptedMessages(client.secret) : toServer' = Send(toServer, m)
      BY <2>3 DEF SendEncryptedMessage
    <3>2. client \in ECDHs
      BY <1>0, <2>3 DEF SendEncryptedMessage, Causes, TypeOK
    <3>3. EncryptedMessages(client.secret) \subseteq ToServerPackets
      BY <3>2 DEF EncryptedMessages, Msg, ToServerPackets, MsgPackets, ECDHs
    <3> QED
      BY <1>0, <3>1, <3>3, QueueStaysSorted
  <2>4. CASE Tick
    BY <1>0, <2>4, QueueStaysSorted DEF Tick, Advance
  <2> QED
    BY <2>1, <2>2, <2>3, <2>4
       DEF Next, ClientFinal, ClientDecryptMSG, ServerBegin, AnswerBegin, ServerDecryptMSG,
           ServerReadEmpty, Lose, Arrives, Due
<1>2. Sorted(toClient')
  <2>1. CASE toClient' = toClient \/ (toClient # <<>> /\ toClient' = Tail(toClient))
             \/ toClient' = Older(toClient)
    BY <1>0, <2>1, QueueStaysSorted
  <2>2. CASE ServerBegin
    <3>1. PICK m \in ToClientPackets : toClient' = Send(toClient, m)
      <4>1. /\ toServer # <<>> /\ Head(toServer).packet.type = "ECDH"
            /\ server' = GenerateSecret(NewECDH(FreshPair), Head(toServer).packet.pub)
            /\ toClient' = Send(toClient, EcdhPacket("FINAL", server'.pair, Head(toServer).packet.pub))
        BY <2>2 DEF ServerBegin, AnswerBegin, Arrives, Due
      <4>2. Head(toServer).packet.pub \in KeyPairs
        BY <1>0, <4>1, HeadPackets, PacketFields
      <4>3. server'.pair \in KeyPairs
        BY <4>1, <4>2, FreshPairIsUnused, NewMachine, SecretMachine
      <4> QED
        BY <4>1, <4>2, <4>3 DEF EcdhPacket, ToClientPackets, EcdhPackets
    <3> QED
      BY <1>0, <3>1, QueueStaysSorted
  <2>3. CASE ServerDecryptMSG
    <3>1. Msg(server.secret) \in ToClientPackets
      BY <1>0, <2>3 DEF ServerDecryptMSG, TypeOK, Msg, ToClientPackets, MsgPackets, ECDHs
    <3>2. toClient' = Send(toClient, Msg(server.secret)) \/ UNCHANGED toClient
      BY <2>3 DEF ServerDecryptMSG
    <3> QED
      BY <1>0, <3>1, <3>2, QueueStaysSorted
  <2>4. CASE Tick
    BY <1>0, <2>4, QueueStaysSorted DEF Tick, Advance
  <2> QED
    BY <2>1, <2>2, <2>3, <2>4
       DEF Next, UpdateKey, Restart, SendEncryptedMessage, ClientFinal, ClientDecryptMSG,
           ServerReadEmpty, Lose, Arrives, Due
<1>3. \A i, j \in DOMAIN timers' : i <= j => timers'[i] <= timers'[j]
  <2>0. /\ timers \in Seq(0 .. MsgDelay) /\ MsgDelay \in Nat
        /\ DOMAIN timers = 1 .. Len(timers) /\ Len(timers) \in Nat
        /\ \A i \in DOMAIN timers : timers[i] \in 0 .. MsgDelay
        /\ \A i, j \in DOMAIN timers : i <= j => timers[i] <= timers[j]
    BY <1>0, Settings, SequenceFacts DEF TypeOK, TypeInv, InOrder
  <2>1. CASE timers' = timers
    BY <2>0, <2>1
  <2>2. CASE ClientFinal
    <3>1. timers' = Append(timers, MsgDelay)
      BY <2>2 DEF ClientFinal
    <3>2. /\ DOMAIN timers' = 1 .. Len(timers) + 1 /\ timers'[Len(timers) + 1] = MsgDelay
          /\ \A i \in 1 .. Len(timers) : timers'[i] = timers[i]
      BY <2>0, <3>1
    <3>3. \A i \in DOMAIN timers' : timers'[i] <= MsgDelay
      BY <2>0, <3>2
    <3>4. \A i, j \in 1 .. Len(timers) : i <= j => timers'[i] <= timers'[j]
      BY <2>0, <3>2
    <3>5. ASSUME NEW i \in DOMAIN timers', NEW j \in DOMAIN timers', i <= j
          PROVE  timers'[i] <= timers'[j]
      BY <2>0, <3>2, <3>3, <3>4, <3>5
    <3> QED
      BY <3>5
  <2>3. CASE SendEncryptedMessage
    <3>1. timers # <<>> /\ timers' = Tail(timers)
      BY <2>3 DEF SendEncryptedMessage
    <3>2. DOMAIN timers' = 1 .. Len(timers) - 1 /\ \A i \in 1 .. Len(timers) - 1 : timers'[i] = timers[i + 1]
      BY <2>0, <3>1
    <3>3. ASSUME NEW i \in DOMAIN timers', NEW j \in DOMAIN timers', i <= j
          PROVE  timers'[i] <= timers'[j]
      <4>1. i + 1 \in DOMAIN timers /\ j + 1 \in DOMAIN timers /\ i + 1 <= j + 1
        BY <2>0, <3>2, <3>3
      <4> QED
        BY <2>0, <3>2, <4>1
    <3> QED
      BY <3>3
  <2>4. CASE Tick
    BY <2>0, <2>4 DEF Tick, Advance
  <2> QED
    BY <2>1, <2>2, <2>3, <2>4
       DEF Next, UpdateKey, ServerBegin, AnswerBegin, ServerDecryptMSG, ClientDecryptMSG,
           ServerReadEmpty, Lose
<1> QED
  BY <1>1, <1>2, <1>3 DEF InOrder, Sorted

LEMMA StepCauses ==
  ASSUME TypeInv, UnusedPair, Next
  PROVE  Causes'
<1>0. /\ TypeOK /\ Causes
      /\ toServer \in Seq(Entries(ToServerPackets))
      /\ toClient \in Seq(Entries(ToClientPackets))
  BY Settings DEF TypeInv
<1>1. CASE UpdateKey
  <2>1. /\ client' # NULL /\ ~Keyed(client') /\ UNCHANGED <<server, timers>>
        /\ client = NULL => timers = <<>> /\ toClient = <<>>
    BY <1>0, <1>1, FreshPairIsUnused, NewMachine DEF UpdateKey, Restart, Causes
  <2>2. toClient' # <<>> => toClient # <<>>
    BY <1>0, <1>1, UpdateKeyQueues, EntryFacts DEF Becomes
  <2>3. Msgs(toServer') # {} => Msgs(toServer) # {}
    <3>1. /\ BecomesWith(toServer, toServer', EcdhPacket("BEGIN", FreshPair, FreshPair))
          /\ DOMAIN toServer' = 1 .. Len(toServer') /\ Len(toServer') \in Nat
          /\ DOMAIN toServer = 1 .. Len(toServer) /\ Len(toServer) \in Nat
      BY <1>0, <1>1, UpdateKeyQueues, EntryFacts, SequenceFacts
    <3>2. EcdhPacket("BEGIN", FreshPair, FreshPair).type = "ECDH"
      BY DEF EcdhPacket
    <3> QED
      BY <3>1, <3>2 DEF BecomesWith, Shifted, Msgs
  <2> QED
    BY <1>0, <2>1, <2>2, <2>3 DEF Causes
<1>2. CASE ClientFinal
  <2>1. /\ client # NULL /\ server # NULL /\ server' = server /\ toServer' = toServer
    BY <1>0, <1>2 DEF ClientFinal, Causes, Arrives, Due
  <2>2. client' # NULL
    <3>1. /\ client \in ECDHs /\ toClient # <<>> /\ Head(toClient).packet.type = "ECDH"
          /\ client' = GenerateSecret(client, Head(toClient).packet.pub)
      BY <1>0, <1>2 DEF ClientFinal, TypeOK, Arrives, Due
    <3>2. Head(toClient).packet.pub \in KeyPairs
      BY <1>0, <3>1, HeadPackets, PacketFields
    <3> QED
      BY <3>1, <3>2, SecretMachine
  <2> QED
    BY <1>0, <2>1, <2>2 DEF Causes
<1>3. CASE SendEncryptedMessage
  <2>1. client # NULL /\ server # NULL /\ UNCHANGED <<client, server>>
    BY <1>0, <1>3 DEF SendEncryptedMessage, Causes
  <2> QED
    BY <2>1 DEF Causes
<1>4. CASE ServerBegin
  <2>1. /\ toServer # <<>> /\ client # NULL /\ client' = client
        /\ server' = GenerateSecret(NewECDH(FreshPair), Head(toServer).packet.pub)
        /\ Head(toServer).packet.type = "ECDH"
    BY <1>0, <1>4 DEF ServerBegin, AnswerBegin, Causes, Arrives, Due
  <2>2. server' # NULL
    <3>1. Head(toServer).packet.pub \in KeyPairs
      BY <1>0, <2>1, HeadPackets, PacketFields
    <3>2. NewECDH(FreshPair) \in ECDHs
      BY FreshPairIsUnused, NewMachine
    <3> QED
      BY <2>1, <3>1, <3>2, SecretMachine
  <2> QED
    BY <2>1, <2>2 DEF Causes
<1>5. CASE ServerDecryptMSG
  <2>1. /\ toServer # <<>> /\ client # NULL /\ server # NULL
        /\ UNCHANGED <<client, server>>
    BY <1>0, <1>5 DEF ServerDecryptMSG, Causes, Arrives, Due
  <2> QED
    BY <2>1 DEF Causes
<1>6. CASE ClientDecryptMSG \/ ServerReadEmpty \/ Lose
  <2>1. UNCHANGED <<client, server, timers>>
    BY <1>6 DEF ClientDecryptMSG, ServerReadEmpty, Lose
  <2>2. \/ toServer # <<>> /\ toServer' = Tail(toServer) /\ UNCHANGED toClient
        \/ toClient # <<>> /\ toClient' = Tail(toClient) /\ UNCHANGED toServer
    BY <1>6 DEF ClientDecryptMSG, ServerReadEmpty, Lose, Arrives, Due
  <2>3. CASE toServer # <<>> /\ toServer' = Tail(toServer) /\ UNCHANGED toClient
    <3>1. \A i \in DOMAIN toServer' : i + 1 \in DOMAIN toServer /\ toServer'[i] = toServer[i + 1]
      BY <1>0, <2>3
    <3>2. Msgs(toServer') # {} => Msgs(toServer) # {}
      BY <3>1 DEF Msgs
    <3> QED
      BY <1>0, <2>1, <2>3, <3>2 DEF Causes
  <2>4. CASE toClient # <<>> /\ toClient' = Tail(toClient) /\ UNCHANGED toServer
    BY <1>0, <2>1, <2>4 DEF Causes
  <2> QED
    BY <2>2, <2>3, <2>4
<1>7. CASE Tick
  <2>1. UNCHANGED <<client, server>>
    BY <1>7 DEF Tick, Advance
  <2>2. /\ timers' # <<>> => timers # <<>>
        /\ toServer' # <<>> => toServer # <<>>
        /\ toClient' # <<>> => toClient # <<>>
    BY <1>7 DEF Tick, Advance, Closer
  <2>3. Msgs(toServer') # {} => Msgs(toServer) # {}
    <3>1. Becomes(toServer, toServer', 0, 0, 1) /\ toServer' \in Seq(Entries(ToServerPackets))
      BY <1>7, TickQueues DEF TypeInv
    <3>2. /\ DOMAIN toServer' = 1 .. Len(toServer') /\ Len(toServer') \in Nat
          /\ DOMAIN toServer = 1 .. Len(toServer) /\ Len(toServer) \in Nat
      BY <1>0, <3>1, SequenceFacts
    <3> QED
      BY <3>1, <3>2 DEF Becomes, Shifted, Msgs
  <2> QED
    BY <1>0, <2>1, <2>2, <2>3 DEF Causes
<1> QED
  BY <1>1, <1>2, <1>3, <1>4, <1>5, <1>6, <1>7 DEF Next

LEMMA StutterTypeInv ==
  ASSUME TypeInv, UNCHANGED vars
  PROVE  TypeInv'
BY DEF TypeInv, TypeOK, InOrder, Causes, vars, settings, files, Entries, Sorted, Msgs, Keyed

LEMMA StepTypeInv == TypeInv /\ UnusedPair /\ [Next]_vars => TypeInv'
BY StepType, StepInOrder, StepCauses, StutterTypeInv DEF TypeInv

(* Every handler leaves m_ecdh, the packets, the timers and both files what*)
(* they are, for as long as key pairs do not repeat: the packets wait in   *)
(* the order in which they were sent, so that none is ever overdue.        *)
THEOREM TypeCorrect == Spec /\ []UnusedPair => []TypeOK
<1>1. TypeInv => TypeOK
  BY DEF TypeInv
<1> QED
  BY <1>1, InitTypeInv, StepTypeInv, PTL DEF Spec

(* No handler reads m_ecdh before there is one: what makes SendEncrypted-  *)
(* Message and DecryptMSG run has gone through both sides before.          *)
THEOREM NullSafety == Spec /\ []UnusedPair => []NoNullDereference
<1>1. TypeInv => NoNullDereference
  <2> SUFFICES ASSUME TypeInv
               PROVE  NoNullDereference
    OBVIOUS
  <2>1. ASSUME Arrives(toServer, "MSG") PROVE server # NULL
    <3>1. toServer # <<>> /\ Head(toServer).packet.type = "MSG"
      BY <2>1 DEF Arrives, Due
    <3>2. 1 \in Msgs(toServer)
      BY <3>1, HeadPackets DEF TypeInv, Msgs
    <3> QED
      BY <3>2 DEF TypeInv, Causes
  <2> QED
    BY <2>1 DEF TypeInv, Causes, NoNullDereference
<1> QED
  BY <1>1, InitTypeInv, StepTypeInv, PTL DEF Spec
-----------------------------------------------------------------------------
(* The ECDH packets of a queue, one step later.                            *)

(* Those in r were in q, k places further back and due t later.            *)
NoNewEcdh(q, r, k, t) ==
  \A i \in Ecdhs(r) :
    /\ i + k \in Ecdhs(q) /\ r[i].packet = q[i + k].packet
    /\ r[i].wait = q[i + k].wait - t /\ r[i].newer >= q[i + k].newer

(* Those in q, k of them apart, are in r.                                  *)
NoEcdhLost(q, r, k) == \A i \in Ecdhs(q) : i - k \in Ecdhs(r)

LEMMA EcdhsKept ==
  ASSUME NEW P, NEW q \in Seq(Entries(P)), NEW r \in Seq(Entries(P)),
         NEW k \in {0, 1}, NEW n \in {0, 1}, NEW t \in {0, 1}, Becomes(q, r, k, n, t)
  PROVE  /\ NoNewEcdh(q, r, k, t)
         /\ k = 0 \/ 1 \notin Ecdhs(q) => NoEcdhLost(q, r, k)
<1>1. /\ DOMAIN q = 1 .. Len(q) /\ Len(q) \in Nat /\ DOMAIN r = 1 .. Len(r) /\ Len(r) \in Nat
      /\ \A i \in DOMAIN q : q[i].newer \in Nat
  BY EntryFacts
<1>2. ASSUME NEW i \in DOMAIN r
      PROVE  /\ i + k \in DOMAIN q /\ r[i].packet = q[i + k].packet
             /\ r[i].wait = q[i + k].wait - t /\ r[i].newer = q[i + k].newer + n
  BY <1>1 DEF Becomes, Shifted
<1>3. NoNewEcdh(q, r, k, t)
  BY <1>1, <1>2 DEF NoNewEcdh, Ecdhs
<1>4. ASSUME k = 0 \/ 1 \notin Ecdhs(q), NEW i \in Ecdhs(q)
      PROVE  i - k \in Ecdhs(r)
  <2>1. i \in DOMAIN q /\ q[i].packet.type = "ECDH" /\ (k = 1 => i # 1)
    BY <1>4 DEF Ecdhs
  <2>2. i - k \in DOMAIN r /\ (i - k) + k = i
    BY <1>1, <2>1 DEF Becomes
  <2> QED
    BY <1>2, <2>1, <2>2 DEF Ecdhs
<1> QED
  BY <1>3, <1>4 DEF NoEcdhLost

LEMMA EcdhsSent ==
  ASSUME NEW P, NEW q \in Seq(Entries(P)), NEW r \in Seq(Entries(P)),
         NEW m, BecomesWith(q, r, m)
  PROVE  /\ m.type # "ECDH" => NoNewEcdh(q, r, 0, 0)
         /\ \A i \in Ecdhs(r) \ {Len(r)} :
              /\ i \in Ecdhs(q) /\ r[i].packet = q[i].packet
              /\ r[i].wait = q[i].wait /\ r[i].newer >= q[i].newer
         /\ m.type = "ECDH" => Len(r) \in Ecdhs(r)
         /\ NoEcdhLost(q, r, 0)
<1>1. /\ DOMAIN q = 1 .. Len(q) /\ Len(q) \in Nat /\ DOMAIN r = 1 .. Len(r) /\ Len(r) \in Nat
      /\ \A i \in DOMAIN q : q[i].newer \in Nat /\ q[i].wait \in 0 .. delay
      /\ \A i \in DOMAIN r : r[i].wait \in 0 .. delay
  BY EntryFacts
<1>2. ASSUME NEW i \in DOMAIN r, i # Len(r)
      PROVE  /\ i \in DOMAIN q /\ r[i].packet = q[i].packet
             /\ r[i].wait = q[i].wait - 0 /\ r[i].newer = q[i].newer + 1
  <2>1. i \in 1 .. Len(q) - 0 /\ i + 0 = i
    BY <1>1, <1>2 DEF BecomesWith
  <2> QED
    BY <1>1, <2>1 DEF BecomesWith, Shifted
<1>3. r[Len(r)].packet = m
  BY DEF BecomesWith
<1>4. \A i \in Ecdhs(r) \ {Len(r)} :
        /\ i \in Ecdhs(q) /\ r[i].packet = q[i].packet
        /\ r[i].wait = q[i].wait - 0 /\ r[i].newer >= q[i].newer
  BY <1>1, <1>2 DEF Ecdhs
<1>5. m.type # "ECDH" => NoNewEcdh(q, r, 0, 0)
  BY <1>1, <1>3, <1>4 DEF NoNewEcdh, Ecdhs
<1>6. m.type = "ECDH" => Len(r) \in Ecdhs(r)
  <2>1. Len(r) \in DOMAIN r
    BY <1>1 DEF BecomesWith
  <2> QED
    BY <1>3, <2>1 DEF Ecdhs
<1>7. ASSUME NEW i \in Ecdhs(q) PROVE i - 0 \in Ecdhs(r)
  <2>1. i \in DOMAIN q /\ i \in DOMAIN r /\ i # Len(r)
    BY <1>1, <1>7 DEF BecomesWith, Ecdhs
  <2> QED
    BY <1>2, <1>7, <2>1 DEF Ecdhs
<1>8. \A i \in Ecdhs(r) \ {Len(r)} : i \in DOMAIN q /\ q[i].wait - 0 = q[i].wait
  BY <1>1, <1>4 DEF Ecdhs
<1> QED
  BY <1>4, <1>5, <1>6, <1>7, <1>8 DEF NoEcdhLost

(* The steps that neither create nor read an ECDH packet.                  *)
OtherStep ==
  \/ SendEncryptedMessage \/ ClientDecryptMSG \/ ServerDecryptMSG \/ ServerReadEmpty
  \/ Lose \/ Tick

EcdhsUntouched ==
  /\ UNCHANGED <<client, server, delay, refreshTime, lossy>>
  /\ keyFile'.row = keyFile.row /\ keyFile'.pair \in {keyFile.pair, NoRow}
  /\ refresh - refresh' \in {0, 1}
  /\ \E k, l \in {0, 1} :
       /\ NoNewEcdh(toServer, toServer', k, refresh - refresh')
       /\ NoNewEcdh(toClient, toClient', l, refresh - refresh')
       /\ ~lossy => NoEcdhLost(toServer, toServer', k) /\ NoEcdhLost(toClient, toClient', l)

LEMMA OtherSteps ==
  ASSUME TypeInv, OtherStep
  PROVE  EcdhsUntouched
<1>0. /\ TypeOK /\ InOrder /\ Causes /\ refresh \in Nat
      /\ toServer \in Seq(Entries(ToServerPackets))
      /\ toClient \in Seq(Entries(ToClientPackets))
      /\ keyFile = [row |-> keyFile.row, pair |-> keyFile.pair]
  BY Settings DEF TypeInv, TypeOK
<1>1. UNCHANGED <<client, server, delay, refreshTime, lossy>>
  BY DEF OtherStep, SendEncryptedMessage, ClientDecryptMSG, ServerDecryptMSG, ServerReadEmpty,
         Lose, Tick, Advance, settings
<1>2. keyFile'.row = keyFile.row /\ keyFile'.pair \in {keyFile.pair, NoRow}
  BY <1>0 DEF OtherStep, SendEncryptedMessage, ClientDecryptMSG, ServerDecryptMSG,
              ServerReadEmpty, Lose, Tick, Advance, files, Forget
<1>3. Becomes(toServer, toServer, 0, 0, 0) /\ Becomes(toClient, toClient, 0, 0, 0)
  BY <1>0, EntryFacts DEF Becomes, Shifted
<1>4. /\ NoNewEcdh(toServer, toServer, 0, 0) /\ NoEcdhLost(toServer, toServer, 0)
      /\ NoNewEcdh(toClient, toClient, 0, 0) /\ NoEcdhLost(toClient, toClient, 0)
  BY <1>0, <1>3, EcdhsKept
<1>5. toServer # <<>> /\ Head(toServer).packet.type # "ECDH" => 1 \notin Ecdhs(toServer)
  BY <1>0, HeadPackets DEF Ecdhs
<1>6. toClient # <<>> /\ Head(toClient).packet.type # "ECDH" => 1 \notin Ecdhs(toClient)
  BY <1>0, HeadPackets DEF Ecdhs
<1>7. CASE SendEncryptedMessage
  <2>1. refresh - refresh' = 0
    BY <1>0, <1>7 DEF SendEncryptedMessage
  <2>2. PICK m \in EncryptedMessages(client.secret) : toServer' = Send(toServer, m)
    BY <1>7 DEF SendEncryptedMessage
  <2>3. m \in ToServerPackets /\ m.type # "ECDH"
    <3>1. client \in ECDHs
      BY <1>0, <1>7 DEF SendEncryptedMessage, Causes, TypeOK
    <3> QED
      BY <3>1 DEF EncryptedMessages, Msg, EmptyPacket, ToServerPackets, MsgPackets, ECDHs
  <2>4. /\ toServer' \in Seq(Entries(ToServerPackets)) /\ BecomesWith(toServer, toServer', m)
        /\ toClient' \in Seq(Entries(ToClientPackets)) /\ Becomes(toClient, toClient', 0, 1, 0)
    BY <1>0, <1>7, <2>2, <2>3, ClientSendQueues DEF SendEncryptedMessage
  <2>5. NoNewEcdh(toServer, toServer', 0, 0) /\ NoEcdhLost(toServer, toServer', 0)
    BY <1>0, <2>3, <2>4, EcdhsSent
  <2>6. NoNewEcdh(toClient, toClient', 0, 0) /\ NoEcdhLost(toClient, toClient', 0)
    BY <1>0, <2>4, EcdhsKept
  <2> QED
    BY <1>1, <1>2, <2>1, <2>5, <2>6 DEF EcdhsUntouched
<1>8. CASE ServerDecryptMSG
  <2>1. /\ refresh - refresh' = 0
        /\ toServer # <<>> /\ Head(toServer).packet.type # "ECDH" /\ server \in ECDHs
    BY <1>0, <1>8 DEF ServerDecryptMSG, Arrives, Due, TypeOK
  <2>2. Msg(server.secret) \in ToClientPackets /\ Msg(server.secret).type # "ECDH"
    BY <2>1 DEF Msg, ToClientPackets, MsgPackets, ECDHs
  <2>3. CASE toClient' = Send(toClient, Msg(server.secret)) /\ toServer' = Older(Tail(toServer))
    <3>1. /\ toServer' \in Seq(Entries(ToServerPackets)) /\ Becomes(toServer, toServer', 1, 1, 0)
          /\ toClient' \in Seq(Entries(ToClientPackets))
          /\ BecomesWith(toClient, toClient', Msg(server.secret))
      BY <1>0, <2>1, <2>2, <2>3, ServerAnswerQueues
    <3>2. NoNewEcdh(toServer, toServer', 1, 0) /\ NoEcdhLost(toServer, toServer', 1)
      BY <1>0, <1>5, <2>1, <3>1, EcdhsKept
    <3>3. NoNewEcdh(toClient, toClient', 0, 0) /\ NoEcdhLost(toClient, toClient', 0)
      BY <1>0, <2>2, <3>1, EcdhsSent
    <3> QED
      BY <1>1, <1>2, <2>1, <3>2, <3>3 DEF EcdhsUntouched
  <2>4. CASE toServer' = Tail(toServer) /\ UNCHANGED toClient
    <3>1. toServer' \in Seq(Entries(ToServerPackets)) /\ Becomes(toServer, toServer', 1, 0, 0)
      BY <1>0, <2>1, <2>4, ServerReadQueues
    <3>2. NoNewEcdh(toServer, toServer', 1, 0) /\ NoEcdhLost(toServer, toServer', 1)
      BY <1>0, <1>5, <2>1, <3>1, EcdhsKept
    <3> QED
      BY <1>1, <1>2, <1>4, <2>1, <2>4, <3>2 DEF EcdhsUntouched
  <2> QED
    BY <1>8, <2>3, <2>4 DEF ServerDecryptMSG
<1>9. CASE ClientDecryptMSG \/ ServerReadEmpty \/ Lose
  <2>1. refresh - refresh' = 0
    BY <1>0, <1>9 DEF ClientDecryptMSG, ServerReadEmpty, Lose
  <2>2. \/ /\ toServer # <<>> /\ toServer' = Tail(toServer) /\ UNCHANGED toClient
           /\ ~lossy => Head(toServer).packet.type # "ECDH"
        \/ /\ toClient # <<>> /\ toClient' = Tail(toClient) /\ UNCHANGED toServer
           /\ ~lossy => Head(toClient).packet.type # "ECDH"
    BY <1>9 DEF ClientDecryptMSG, ServerReadEmpty, Lose, Arrives, Due
  <2>3. CASE /\ toServer # <<>> /\ toServer' = Tail(toServer) /\ UNCHANGED toClient
             /\ ~lossy => Head(toServer).packet.type # "ECDH"
    <3>1. toServer' \in Seq(Entries(ToServerPackets)) /\ Becomes(toServer, toServer', 1, 0, 0)
      BY <1>0, <2>3, ServerReadQueues
    <3>2. NoNewEcdh(toServer, toServer', 1, 0) /\ (~lossy => NoEcdhLost(toServer, toServer', 1))
      BY <1>0, <1>5, <2>3, <3>1, EcdhsKept
    <3> QED
      BY <1>1, <1>2, <1>4, <2>1, <2>3, <3>2 DEF EcdhsUntouched
  <2>4. CASE /\ toClient # <<>> /\ toClient' = Tail(toClient) /\ UNCHANGED toServer
             /\ ~lossy => Head(toClient).packet.type # "ECDH"
    <3>1. toClient' \in Seq(Entries(ToClientPackets)) /\ Becomes(toClient, toClient', 1, 0, 0)
      BY <1>0, <2>4, ClientReadQueues
    <3>2. NoNewEcdh(toClient, toClient', 1, 0) /\ (~lossy => NoEcdhLost(toClient, toClient', 1))
      BY <1>0, <1>6, <2>4, <3>1, EcdhsKept
    <3> QED
      BY <1>1, <1>2, <1>4, <2>1, <2>4, <3>2 DEF EcdhsUntouched
  <2> QED
    BY <2>2, <2>3, <2>4
<1>10. CASE Tick
  <2>1. refresh - refresh' = 1
    BY <1>0, <1>10 DEF Tick, Advance
  <2>2. /\ toServer' \in Seq(Entries(ToServerPackets)) /\ Becomes(toServer, toServer', 0, 0, 1)
        /\ toClient' \in Seq(Entries(ToClientPackets)) /\ Becomes(toClient, toClient', 0, 0, 1)
    BY <1>0, <1>10, TickQueues
  <2>3. /\ NoNewEcdh(toServer, toServer', 0, 1) /\ NoEcdhLost(toServer, toServer', 0)
        /\ NoNewEcdh(toClient, toClient', 0, 1) /\ NoEcdhLost(toClient, toClient', 0)
    BY <1>0, <2>2, EcdhsKept
  <2> QED
    BY <1>1, <1>2, <2>1, <2>3 DEF EcdhsUntouched
<1> QED
  BY <1>7, <1>8, <1>9, <1>10 DEF OtherStep

(* The pair GenerateKeyPair draws is none of those in use.                 *)
LEMMA FreshFacts ==
  ASSUME UnusedPair
  PROVE  /\ FreshPair \in KeyPairs
         /\ client # NULL => FreshPair # client.pair /\ (Keyed(client) => FreshPair \notin client.secret)
         /\ server # NULL => FreshPair # server.pair /\ (Keyed(server) => FreshPair \notin server.secret)
         /\ \A i \in Ecdhs(toServer) :
              FreshPair \notin {toServer[i].packet.pub, toServer[i].packet.origin}
         /\ \A j \in Ecdhs(toClient) :
              FreshPair \notin {toClient[j].packet.pub, toClient[j].packet.origin}
         /\ keyFile.row # NoRow => FreshPair \notin keyFile.row.key
<1>1. FreshPair \in KeyPairs /\ FreshPair \notin InUse
  BY FreshPairIsUnused
<1>2. FreshPair \notin PairsOf(client) /\ FreshPair \notin PairsOf(server)
  BY <1>1 DEF InUse
<1>3. ASSUME NEW i \in Ecdhs(toServer)
      PROVE  FreshPair \notin {toServer[i].packet.pub, toServer[i].packet.origin}
  <2>1. toServer[i] \in Range(toServer)
    BY <1>3 DEF Range, Ecdhs
  <2>2. FreshPair \notin PairsIn(toServer[i].packet)
    BY <1>1, <2>1 DEF InUse
  <2> QED
    BY <1>3, <2>2 DEF PairsIn, Ecdhs
<1>4. ASSUME NEW i \in Ecdhs(toClient)
      PROVE  FreshPair \notin {toClient[i].packet.pub, toClient[i].packet.origin}
  <2>1. toClient[i] \in Range(toClient)
    BY <1>4 DEF Range, Ecdhs
  <2>2. FreshPair \notin PairsIn(toClient[i].packet)
    BY <1>1, <2>1 DEF InUse
  <2> QED
    BY <1>4, <2>2 DEF PairsIn, Ecdhs
<1>5. FreshPair \notin (IF keyFile.row = NoRow THEN {} ELSE keyFile.row.key)
  BY <1>1, Zenon DEF InUse
<1>6. ASSUME NEW ecdh, ecdh # NULL, FreshPair \notin PairsOf(ecdh)
      PROVE  FreshPair # ecdh.pair /\ (Keyed(ecdh) => FreshPair \notin ecdh.secret)
  BY <1>6 DEF PairsOf, Keyed
<1>7. keyFile.row # NoRow => FreshPair \notin keyFile.row.key
  BY <1>5, Zenon
<1>8. client # NULL => FreshPair # client.pair /\ (Keyed(client) => FreshPair \notin client.secret)
  BY <1>2, <1>6, Zenon
<1>9. server # NULL => FreshPair # server.pair /\ (Keyed(server) => FreshPair \notin server.secret)
  BY <1>2, <1>6, Zenon
<1> QED
  BY <1>1, <1>3, <1>4, <1>7, <1>8, <1>9, Zenon

(* What the three handlers of ECDH packets do to both sides and packets.   *)
LEMMA EcdhIndices ==
  ASSUME NEW P, NEW q \in Seq(Entries(P))
  PROVE  Ecdhs(q) \subseteq Nat
BY EntryFacts DEF Ecdhs

(* In r is what was in q, and m, due after the delay.                      *)
OneSent(q, r, m) ==
  /\ \A i \in Ecdhs(r) \ {Len(r)} :
       i \in Ecdhs(q) /\ r[i].packet = q[i].packet /\ r[i].wait = q[i].wait
  /\ Len(r) \in Ecdhs(r) /\ r[Len(r)].packet = m /\ r[Len(r)].wait = delay
  /\ r[Len(r)].newer = 0

LEMMA UpdateKeyEcdhs ==
  ASSUME TypeInv, UnusedPair, UpdateKey
  PROVE  /\ client' # NULL /\ client'.pair = FreshPair /\ ~Keyed(client')
         /\ UNCHANGED <<server, timers, delay, refreshTime, lossy, keyFile>>
         /\ refresh = 0 /\ refresh' = refreshTime
         /\ NoNewEcdh(toClient, toClient', 0, 0) /\ NoEcdhLost(toClient, toClient', 0)
         /\ OneSent(toServer, toServer', EcdhPacket("BEGIN", FreshPair, FreshPair))
         /\ Ecdhs(toServer) \subseteq Nat /\ Ecdhs(toServer') \subseteq Nat
         /\ Ecdhs(toClient) \subseteq Nat /\ Ecdhs(toClient') \subseteq Nat
<1>0. /\ TypeOK
      /\ toServer \in Seq(Entries(ToServerPackets))
      /\ toClient \in Seq(Entries(ToClientPackets))
  BY Settings DEF TypeInv
<1>1. client' = NewECDH(FreshPair) /\ FreshPair \in KeyPairs
  BY FreshPairIsUnused DEF UpdateKey, Restart
<1>2. /\ UNCHANGED <<server, timers, delay, refreshTime, lossy, keyFile>>
      /\ refresh = 0 /\ refresh' = refreshTime
  BY DEF UpdateKey, Restart, settings
<1>3. /\ toServer' \in Seq(Entries(ToServerPackets))
      /\ BecomesWith(toServer, toServer', EcdhPacket("BEGIN", FreshPair, FreshPair))
      /\ toClient' \in Seq(Entries(ToClientPackets))
      /\ Becomes(toClient, toClient', 0, 1, 0)
  BY <1>0, UpdateKeyQueues
<1>4. NoNewEcdh(toClient, toClient', 0, 0) /\ NoEcdhLost(toClient, toClient', 0)
  BY <1>0, <1>3, EcdhsKept
<1>5. EcdhPacket("BEGIN", FreshPair, FreshPair).type = "ECDH"
  BY DEF EcdhPacket
<1>6. OneSent(toServer, toServer', EcdhPacket("BEGIN", FreshPair, FreshPair))
  BY <1>0, <1>3, <1>5, EcdhsSent DEF OneSent, BecomesWith
<1>7. /\ Ecdhs(toServer) \subseteq Nat /\ Ecdhs(toServer') \subseteq Nat
      /\ Ecdhs(toClient) \subseteq Nat /\ Ecdhs(toClient') \subseteq Nat
  BY <1>0, <1>3, EcdhIndices
<1> QED
  BY <1>1, <1>2, <1>4, <1>6, <1>7, NewMachine

LEMMA ServerBeginEcdhs ==
  ASSUME TypeInv, UnusedPair, ServerBegin
  PROVE  /\ 1 \in Ecdhs(toServer) /\ toServer[1].wait = 0 /\ client # NULL
         /\ server' # NULL /\ Keyed(server') /\ server'.pair = FreshPair
         /\ server'.secret = {FreshPair, toServer[1].packet.pub}
         /\ keyFile' = LogKey(keyFile, "server", server'.secret)
         /\ UNCHANGED <<client, timers, refresh, delay, refreshTime, lossy>>
         /\ NoNewEcdh(toServer, toServer', 1, 0)
         /\ OneSent(toClient, toClient', EcdhPacket("FINAL", FreshPair, toServer[1].packet.pub))
         /\ Ecdhs(toServer) \subseteq Nat /\ Ecdhs(toServer') \subseteq Nat
         /\ Ecdhs(toClient) \subseteq Nat /\ Ecdhs(toClient') \subseteq Nat
<1>0. /\ TypeOK /\ Causes
      /\ toServer \in Seq(Entries(ToServerPackets))
      /\ toClient \in Seq(Entries(ToClientPackets))
  BY Settings DEF TypeInv
<1>1. /\ toServer # <<>> /\ server' = GenerateSecret(NewECDH(FreshPair), Head(toServer).packet.pub)
      /\ Head(toServer).packet.type = "ECDH" /\ Head(toServer).wait = 0
      /\ keyFile' = LogKey(keyFile, "server", server'.secret)
      /\ toServer' = Older(Tail(toServer))
      /\ toClient' = Send(toClient, EcdhPacket("FINAL", server'.pair, Head(toServer).packet.pub))
      /\ UNCHANGED <<client, timers, refresh, delay, refreshTime, lossy>>
  BY DEF ServerBegin, AnswerBegin, Arrives, Due, settings
<1>2. /\ 1 \in Ecdhs(toServer) /\ Head(toServer) = toServer[1]
      /\ toServer[1].packet.pub \in KeyPairs
  BY <1>0, <1>1, HeadPackets, PacketFields DEF Ecdhs
<1>3. /\ server' # NULL /\ Keyed(server') /\ server'.pair = FreshPair
      /\ server'.secret = {FreshPair, toServer[1].packet.pub} /\ FreshPair \in KeyPairs
  <2>1. /\ FreshPair \in KeyPairs
        /\ NewECDH(FreshPair) \in ECDHs /\ NewECDH(FreshPair).pair = FreshPair
    BY FreshPairIsUnused, NewMachine
  <2>2. server' = GenerateSecret(NewECDH(FreshPair), toServer[1].packet.pub)
    BY <1>1, <1>2
  <2> QED
    BY <1>2, <2>1, <2>2, SecretMachine
<1>4. EcdhPacket("FINAL", FreshPair, toServer[1].packet.pub) \in ToClientPackets
  BY <1>2, <1>3 DEF EcdhPacket, ToClientPackets, EcdhPackets
<1>5. /\ toServer' \in Seq(Entries(ToServerPackets)) /\ Becomes(toServer, toServer', 1, 1, 0)
      /\ toClient' \in Seq(Entries(ToClientPackets))
      /\ BecomesWith(toClient, toClient', EcdhPacket("FINAL", FreshPair, toServer[1].packet.pub))
  BY <1>0, <1>1, <1>2, <1>3, <1>4, ServerAnswerQueues
<1>6. NoNewEcdh(toServer, toServer', 1, 0)
  BY <1>0, <1>5, EcdhsKept
<1>7. EcdhPacket("FINAL", FreshPair, toServer[1].packet.pub).type = "ECDH"
  BY DEF EcdhPacket
<1>8. OneSent(toClient, toClient', EcdhPacket("FINAL", FreshPair, toServer[1].packet.pub))
  BY <1>0, <1>5, <1>7, EcdhsSent DEF OneSent, BecomesWith
<1>9. /\ Ecdhs(toServer) \subseteq Nat /\ Ecdhs(toServer') \subseteq Nat
      /\ Ecdhs(toClient) \subseteq Nat /\ Ecdhs(toClient') \subseteq Nat
  BY <1>0, <1>5, EcdhIndices
<1>10. client # NULL
  BY <1>0, <1>1 DEF Causes
<1> QED
  BY <1>1, <1>2, <1>3, <1>6, <1>8, <1>9, <1>10

LEMMA ClientFinalEcdhs ==
  ASSUME TypeInv, ClientFinal
  PROVE  /\ 1 \in Ecdhs(toClient) /\ toClient[1].wait = 0
         /\ client # NULL /\ server # NULL
         /\ client' # NULL /\ Keyed(client') /\ client'.pair = client.pair
         /\ client'.secret = {client.pair, toClient[1].packet.pub}
         /\ keyFile' = LogKey(keyFile, "client", client'.secret)
         /\ timers' = Append(timers, MsgDelay)
         /\ UNCHANGED <<server, toServer, refresh, delay, refreshTime, lossy>>
         /\ NoNewEcdh(toClient, toClient', 1, 0)
         /\ Ecdhs(toServer) \subseteq Nat
         /\ Ecdhs(toClient) \subseteq Nat /\ Ecdhs(toClient') \subseteq Nat
<1>0. /\ TypeOK /\ Causes
      /\ toServer \in Seq(Entries(ToServerPackets))
      /\ toClient \in Seq(Entries(ToClientPackets))
  BY Settings DEF TypeInv
<1>1. /\ toClient # <<>> /\ client \in ECDHs /\ client # NULL /\ server # NULL
      /\ client' = GenerateSecret(client, Head(toClient).packet.pub)
      /\ Head(toClient).packet.type = "ECDH" /\ Head(toClient).wait = 0
      /\ keyFile' = LogKey(keyFile, "client", client'.secret)
      /\ timers' = Append(timers, MsgDelay)
      /\ toClient' = Tail(toClient)
      /\ UNCHANGED <<server, toServer, refresh, delay, refreshTime, lossy>>
  BY <1>0 DEF ClientFinal, Arrives, Due, settings, TypeOK, Causes
<1>2. /\ 1 \in Ecdhs(toClient) /\ Head(toClient) = toClient[1]
      /\ toClient[1].packet.pub \in KeyPairs
  BY <1>0, <1>1, HeadPackets, PacketFields DEF Ecdhs
<1>3. /\ client' # NULL /\ Keyed(client') /\ client'.pair = client.pair
      /\ client'.secret = {client.pair, toClient[1].packet.pub}
  BY <1>1, <1>2, SecretMachine
<1>4. toClient' \in Seq(Entries(ToClientPackets)) /\ Becomes(toClient, toClient', 1, 0, 0)
  BY <1>0, <1>1, ClientReadQueues
<1>5. NoNewEcdh(toClient, toClient', 1, 0)
  BY <1>0, <1>4, EcdhsKept
<1>6. /\ Ecdhs(toServer) \subseteq Nat
      /\ Ecdhs(toClient) \subseteq Nat /\ Ecdhs(toClient') \subseteq Nat
  BY <1>0, <1>4, EcdhIndices
<1> QED
  BY <1>1, <1>2, <1>3, <1>5, <1>6

-----------------------------------------------------------------------------
(* Names: a public key in flight belongs to one negotiation and one side.  *)

LEMMA InitNamesInv == Init => NamesInv
BY DEF Init, NamesInv, DistinctPubs, OwnSecrets, RowNames, SuccessIsOfTwoNodes, Ecdhs, Keyed, NewFile

LEMMA OtherStepsNames ==
  ASSUME TypeInv, TypeOK', EcdhsUntouched, NamesInv
  PROVE  NamesInv'
<1>1. PICK k \in {0, 1}, l \in {0, 1} :
        /\ NoNewEcdh(toServer, toServer', k, refresh - refresh')
        /\ NoNewEcdh(toClient, toClient', l, refresh - refresh')
  BY DEF EcdhsUntouched
<1>2. /\ Ecdhs(toServer') \subseteq Nat /\ Ecdhs(toClient') \subseteq Nat
  BY EntryFacts DEF TypeOK, Ecdhs
<1>3. \A i \in Ecdhs(toServer') :
        i + k \in Ecdhs(toServer) /\ toServer'[i].packet = toServer[i + k].packet
  BY <1>1 DEF NoNewEcdh
<1>4. \A i \in Ecdhs(toClient') :
        i + l \in Ecdhs(toClient) /\ toClient'[i].packet = toClient[i + l].packet
  BY <1>1 DEF NoNewEcdh
<1>5. client' = client /\ server' = server /\ keyFile'.row = keyFile.row
      /\ keyFile'.pair \in {keyFile.pair, NoRow}
  BY DEF EcdhsUntouched
<1>6. DistinctPubs'
  <2>1. ASSUME NEW i \in Ecdhs(toServer'), NEW j \in Ecdhs(toServer'),
               toServer'[i].packet.pub = toServer'[j].packet.pub
        PROVE  i = j
    <3>1. i + k = j + k
      BY <1>3, <2>1 DEF NamesInv, DistinctPubs
    <3> QED
      BY <1>2, <3>1
  <2>2. ASSUME NEW i \in Ecdhs(toClient'), NEW j \in Ecdhs(toClient'),
               toClient'[i].packet.pub = toClient'[j].packet.pub
        PROVE  i = j
    <3>1. i + l = j + l
      BY <1>4, <2>2 DEF NamesInv, DistinctPubs
    <3> QED
      BY <1>2, <3>1
  <2>3. \A i \in Ecdhs(toServer'), j \in Ecdhs(toClient') :
          toServer'[i].packet.pub \notin {toClient'[j].packet.pub, toClient'[j].packet.origin}
    BY <1>3, <1>4 DEF NamesInv, DistinctPubs
  <2>4. client # NULL => \A j \in Ecdhs(toClient') : toClient'[j].packet.pub # client.pair
    BY <1>4 DEF NamesInv, DistinctPubs
  <2> QED
    BY <1>5, <2>1, <2>2, <2>3, <2>4 DEF NamesInv, DistinctPubs
<1>7. OwnSecrets'
  <2>1. server # NULL => \A j \in Ecdhs(toClient') :
          toClient'[j].packet.pub = server.pair =>
            server.secret = {toClient'[j].packet.pub, toClient'[j].packet.origin}
    BY <1>4 DEF NamesInv, OwnSecrets
  <2> QED
    BY <1>5, <2>1 DEF NamesInv, OwnSecrets, Keyed
<1>8. RowNames'
  BY <1>4, <1>5 DEF NamesInv, RowNames
<1>9. SuccessIsOfTwoNodes'
  BY <1>5 DEF NamesInv, SuccessIsOfTwoNodes
<1> QED
  BY <1>6, <1>7, <1>8, <1>9 DEF NamesInv

LEMMA UpdateKeyNames ==
  ASSUME TypeInv, UnusedPair, UpdateKey, NamesInv
  PROVE  NamesInv'
<1>1. /\ client' # NULL /\ client'.pair = FreshPair /\ ~Keyed(client')
      /\ server' = server /\ keyFile' = keyFile
      /\ Ecdhs(toServer') \subseteq Nat
  BY UpdateKeyEcdhs
<1>2. \A i \in Ecdhs(toServer') :
        \/ i \in Ecdhs(toServer) /\ toServer'[i].packet = toServer[i].packet
        \/ i = Len(toServer') /\ toServer'[i].packet.pub = FreshPair
  BY UpdateKeyEcdhs DEF OneSent, EcdhPacket
<1>3. \A i \in Ecdhs(toClient') :
        i \in Ecdhs(toClient) /\ toClient'[i].packet = toClient[i].packet
  <2>1. \A i \in Ecdhs(toClient') : i + 0 = i
    BY UpdateKeyEcdhs
  <2> QED
    BY <2>1, UpdateKeyEcdhs DEF NoNewEcdh
<1>4. DistinctPubs'
  <2>1. ASSUME NEW i \in Ecdhs(toServer'), NEW j \in Ecdhs(toServer'),
               toServer'[i].packet.pub = toServer'[j].packet.pub
        PROVE  i = j
    BY <1>2, <2>1, FreshFacts DEF NamesInv, DistinctPubs
  <2>2. \A i, j \in Ecdhs(toClient') :
          toClient'[i].packet.pub = toClient'[j].packet.pub => i = j
    BY <1>3 DEF NamesInv, DistinctPubs
  <2>3. ASSUME NEW i \in Ecdhs(toServer'), NEW j \in Ecdhs(toClient')
        PROVE  toServer'[i].packet.pub \notin {toClient'[j].packet.pub, toClient'[j].packet.origin}
    BY <1>2, <1>3, FreshFacts DEF NamesInv, DistinctPubs
  <2>4. \A j \in Ecdhs(toClient') : toClient'[j].packet.pub # client'.pair
    BY <1>1, <1>3, FreshFacts
  <2>5. server # NULL => client'.pair # server.pair
    BY <1>1, FreshFacts
  <2> QED
    BY <1>1, <2>1, <2>2, <2>3, <2>4, <2>5 DEF DistinctPubs
<1>5. OwnSecrets'
  <2>1. server # NULL => \A j \in Ecdhs(toClient') :
          toClient'[j].packet.pub = server.pair =>
            server.secret = {toClient'[j].packet.pub, toClient'[j].packet.origin}
    BY <1>3 DEF NamesInv, OwnSecrets
  <2> QED
    BY <1>1, <2>1 DEF NamesInv, OwnSecrets, Keyed
<1>6. RowNames'
  BY <1>1, <1>3 DEF NamesInv, RowNames
<1>7. SuccessIsOfTwoNodes'
  BY <1>1 DEF NamesInv, SuccessIsOfTwoNodes
<1> QED
  BY <1>4, <1>5, <1>6, <1>7 DEF NamesInv

LEMMA ServerBeginNames ==
  ASSUME TypeInv, UnusedPair, ServerBegin, NamesInv
  PROVE  NamesInv'
<1> DEFINE b == toServer[1].packet
<1>1. /\ 1 \in Ecdhs(toServer) /\ client # NULL /\ client' = client
      /\ server' # NULL /\ Keyed(server') /\ server'.pair = FreshPair
      /\ server'.secret = {FreshPair, b.pub}
      /\ keyFile' = LogKey(keyFile, "server", server'.secret)
      /\ Ecdhs(toServer') \subseteq Nat /\ Ecdhs(toClient') \subseteq Nat
  BY ServerBeginEcdhs
<1>2. \A i \in Ecdhs(toServer') :
        i + 1 \in Ecdhs(toServer) /\ toServer'[i].packet = toServer[i + 1].packet /\ i + 1 # 1
  <2>1. \A i \in Ecdhs(toServer') :
          i + 1 \in Ecdhs(toServer) /\ toServer'[i].packet = toServer[i + 1].packet
    BY ServerBeginEcdhs DEF NoNewEcdh
  <2>2. \A i \in Ecdhs(toServer') : i # 0
    BY EntryFacts, ServerBeginType DEF TypeInv, TypeOK, Ecdhs
  <2> QED
    BY <1>1, <2>1, <2>2
<1>3. \A i \in Ecdhs(toClient') :
        \/ i \in Ecdhs(toClient) /\ toClient'[i].packet = toClient[i].packet
        \/ /\ i = Len(toClient')
           /\ toClient'[i].packet.pub = FreshPair /\ toClient'[i].packet.origin = b.pub
  BY ServerBeginEcdhs DEF OneSent, EcdhPacket
<1>4. DistinctPubs'
  <2>1. ASSUME NEW i \in Ecdhs(toServer'), NEW j \in Ecdhs(toServer'),
               toServer'[i].packet.pub = toServer'[j].packet.pub
        PROVE  i = j
    <3>1. i + 1 = j + 1
      BY <1>2, <2>1 DEF NamesInv, DistinctPubs
    <3> QED
      BY <1>1, <3>1
  <2>2. ASSUME NEW i \in Ecdhs(toClient'), NEW j \in Ecdhs(toClient'),
               toClient'[i].packet.pub = toClient'[j].packet.pub
        PROVE  i = j
    BY <1>3, <2>2, FreshFacts DEF NamesInv, DistinctPubs
  <2>3. ASSUME NEW i \in Ecdhs(toServer'), NEW j \in Ecdhs(toClient')
        PROVE  toServer'[i].packet.pub \notin {toClient'[j].packet.pub, toClient'[j].packet.origin}
    <3>1. toServer[i + 1].packet.pub # b.pub /\ toServer[i + 1].packet.pub # FreshPair
      BY <1>1, <1>2, FreshFacts DEF NamesInv, DistinctPubs
    <3> QED
      BY <1>2, <1>3, <3>1 DEF NamesInv, DistinctPubs
  <2>4. \A j \in Ecdhs(toClient') : toClient'[j].packet.pub # client.pair
    BY <1>1, <1>3, FreshFacts DEF NamesInv, DistinctPubs
  <2>5. client.pair # server'.pair
    BY <1>1, FreshFacts
  <2> QED
    BY <1>1, <2>1, <2>2, <2>3, <2>4, <2>5 DEF DistinctPubs
<1>5. OwnSecrets'
  <2>1. \A j \in Ecdhs(toClient') :
          toClient'[j].packet.pub = FreshPair =>
            {FreshPair, b.pub} = {toClient'[j].packet.pub, toClient'[j].packet.origin}
    BY <1>3, FreshFacts
  <2> QED
    BY <1>1, <2>1 DEF NamesInv, OwnSecrets, Keyed
<1>6. /\ keyFile.row = NoRow =>
           /\ keyFile'.row = [node |-> "server", key |-> {FreshPair, b.pub}]
           /\ keyFile'.pair = keyFile.pair
      /\ keyFile.row # NoRow =>
           /\ keyFile'.row = NoRow
           /\ keyFile'.pair.nodes = <<keyFile.row.node, "server">>
           /\ keyFile'.pair.same <=> keyFile.row.key = {FreshPair, b.pub}
  <2>1. keyFile \in KeyFiles
    BY DEF TypeInv, TypeOK, KeyFiles
  <2>2. keyFile' = LogKey(keyFile, "server", {FreshPair, b.pub})
    BY <1>1
  <2> QED
    BY <2>1, <2>2 DEF LogKey, ReadKey, Read, KeyFiles
<1>7. RowNames'
  <2>1. CASE keyFile.row = NoRow
    <3>1. keyFile'.row.node = "server" /\ keyFile'.row.key = {FreshPair, b.pub}
      BY <1>6, <2>1
    <3>2. \A j \in Ecdhs(toClient) : toClient[j].packet.pub \notin {FreshPair, b.pub}
      BY <1>1, FreshFacts DEF NamesInv, DistinctPubs
    <3> QED
      BY <1>3, <3>1, <3>2 DEF RowNames
  <2>2. CASE keyFile.row # NoRow
    BY <1>6, <2>2 DEF RowNames
  <2> QED
    BY <2>1, <2>2
<1>8. SuccessIsOfTwoNodes'
  <2>1. CASE keyFile.row = NoRow
    BY <1>6, <2>1 DEF NamesInv, SuccessIsOfTwoNodes
  <2>2. CASE keyFile.row # NoRow
    <3>1. ~keyFile'.pair.same
      BY <1>6, <2>2, FreshFacts
    <3> QED
      BY <3>1 DEF SuccessIsOfTwoNodes
  <2> QED
    BY <2>1, <2>2
<1> QED
  BY <1>4, <1>5, <1>7, <1>8 DEF NamesInv

LEMMA ClientFinalNames ==
  ASSUME TypeInv, TypeOK', ClientFinal, NamesInv
  PROVE  NamesInv'
<1> DEFINE f == toClient[1].packet
<1>1. /\ 1 \in Ecdhs(toClient) /\ client # NULL /\ server # NULL
      /\ client' # NULL /\ Keyed(client') /\ client'.pair = client.pair
      /\ client'.secret = {client.pair, f.pub}
      /\ keyFile' = LogKey(keyFile, "client", client'.secret)
      /\ server' = server /\ toServer' = toServer
      /\ Ecdhs(toClient') \subseteq Nat
  BY ClientFinalEcdhs
<1>2. \A i \in Ecdhs(toClient') :
        i + 1 \in Ecdhs(toClient) /\ toClient'[i].packet = toClient[i + 1].packet /\ i + 1 # 1
  <2>1. \A i \in Ecdhs(toClient') :
          i + 1 \in Ecdhs(toClient) /\ toClient'[i].packet = toClient[i + 1].packet
    BY ClientFinalEcdhs DEF NoNewEcdh
  <2>2. \A i \in Ecdhs(toClient') : i # 0
    BY EntryFacts DEF TypeOK, Ecdhs
  <2> QED
    BY <1>1, <2>1, <2>2
<1>3. DistinctPubs'
  <2>1. ASSUME NEW i \in Ecdhs(toClient'), NEW j \in Ecdhs(toClient'),
               toClient'[i].packet.pub = toClient'[j].packet.pub
        PROVE  i = j
    <3>1. i + 1 = j + 1
      BY <1>2, <2>1 DEF NamesInv, DistinctPubs
    <3> QED
      BY <1>1, <3>1
  <2>2. \A i \in Ecdhs(toServer), j \in Ecdhs(toClient') :
          toServer[i].packet.pub \notin {toClient'[j].packet.pub, toClient'[j].packet.origin}
    BY <1>2 DEF NamesInv, DistinctPubs
  <2>3. \A j \in Ecdhs(toClient') : toClient'[j].packet.pub # client.pair
    BY <1>1, <1>2 DEF NamesInv, DistinctPubs
  <2> QED
    BY <1>1, <2>1, <2>2, <2>3 DEF NamesInv, DistinctPubs
<1>4. OwnSecrets'
  <2>1. \A j \in Ecdhs(toClient') :
          toClient'[j].packet.pub = server.pair =>
            server.secret = {toClient'[j].packet.pub, toClient'[j].packet.origin}
    BY <1>1, <1>2 DEF NamesInv, OwnSecrets
  <2> QED
    BY <1>1, <2>1 DEF NamesInv, OwnSecrets, Keyed
<1>5. /\ keyFile.row = NoRow =>
           /\ keyFile'.row = [node |-> "client", key |-> {client.pair, f.pub}]
           /\ keyFile'.pair = keyFile.pair
      /\ keyFile.row # NoRow =>
           /\ keyFile'.row = NoRow
           /\ keyFile'.pair.nodes = <<keyFile.row.node, "client">>
           /\ keyFile'.pair.same <=> keyFile.row.key = {client.pair, f.pub}
  <2>1. keyFile \in KeyFiles
    BY DEF TypeInv, TypeOK, KeyFiles
  <2>2. keyFile' = LogKey(keyFile, "client", {client.pair, f.pub})
    BY <1>1
  <2> QED
    BY <2>1, <2>2 DEF LogKey, ReadKey, Read, KeyFiles
<1>6. RowNames'
  <2>1. CASE keyFile.row = NoRow
    <3>1. keyFile'.row.key = {client.pair, f.pub}
      BY <1>5, <2>1
    <3>2. \A j \in Ecdhs(toClient') : toClient'[j].packet.pub \notin {client.pair, f.pub}
      BY <1>1, <1>2 DEF NamesInv, DistinctPubs
    <3> QED
      BY <3>1, <3>2 DEF RowNames
  <2>2. CASE keyFile.row # NoRow
    BY <1>5, <2>2 DEF RowNames
  <2> QED
    BY <2>1, <2>2
<1>7. SuccessIsOfTwoNodes'
  <2>1. CASE keyFile.row = NoRow
    BY <1>5, <2>1 DEF NamesInv, SuccessIsOfTwoNodes
  <2>2. CASE keyFile.row # NoRow
    <3>1. /\ keyFile'.pair.nodes = <<keyFile.row.node, "client">>
          /\ keyFile'.pair.same <=> keyFile.row.key = {client.pair, f.pub}
      BY <1>5, <2>2
    <3>2. f.pub \in keyFile.row.key => keyFile.row.node = "server"
      BY <1>1, <2>2 DEF NamesInv, RowNames
    <3> QED
      BY <3>1, <3>2 DEF SuccessIsOfTwoNodes
  <2> QED
    BY <2>1, <2>2
<1> QED
  BY <1>3, <1>4, <1>6, <1>7 DEF NamesInv

LEMMA StepNames == TypeInv /\ UnusedPair /\ NamesInv /\ [Next]_vars => NamesInv'
<1> SUFFICES ASSUME TypeInv, UnusedPair, NamesInv, [Next]_vars
             PROVE  NamesInv'
  OBVIOUS
<1>1. TypeOK'
  BY StepTypeInv DEF TypeInv
<1>2. CASE UNCHANGED vars
  BY <1>2 DEF vars, files, settings, NamesInv, DistinctPubs, OwnSecrets, RowNames,
              SuccessIsOfTwoNodes, Ecdhs, Keyed
<1>3. CASE OtherStep
  BY <1>1, <1>3, OtherSteps, OtherStepsNames
<1> QED
  BY <1>1, <1>2, <1>3, UpdateKeyNames, ServerBeginNames, ClientFinalNames DEF Next, OtherStep

(* Packets may be lost and rows without a partner shift the pairs, but the *)
(* success script never takes two equal secrets of one node for a success. *)
THEOREM SuccessOfTwoNodes == Spec /\ []UnusedPair => []SuccessIsOfTwoNodes
<1>1. NamesInv => SuccessIsOfTwoNodes
  BY DEF NamesInv
<1> QED
  BY <1>1, InitTypeInv, StepTypeInv, InitNamesInv, StepNames, PTL DEF Spec

-----------------------------------------------------------------------------
(* Time: the packets of the client's negotiation are where its age says.   *)

LEMMA InitOnTime == Init => OnTime
BY DEF Init, OnTime

LEMMA StepOnTime == TypeInv /\ UnusedPair /\ NamesInv /\ OnTime /\ [Next]_vars => OnTime'
<1> SUFFICES ASSUME TypeInv, UnusedPair, NamesInv, OnTime, [Next]_vars
             PROVE  OnTime'
  OBVIOUS
<1>0. /\ delay \in Nat /\ refresh \in Nat /\ refreshTime \in Nat /\ Age \in Nat
      /\ \A i \in Ecdhs(toServer) : toServer[i].wait \in Nat
      /\ \A j \in Ecdhs(toClient) : toClient[j].wait \in Nat
  BY Settings, EntryFacts DEF TypeInv, Ecdhs
<1>1. CASE UNCHANGED vars
  BY <1>1 DEF vars, settings, OnTime, Age, Ecdhs
<1>2. CASE OtherStep
  <2>1. /\ client' = client /\ delay' = delay /\ refreshTime' = refreshTime
        /\ refresh - refresh' \in {0, 1}
    BY <1>2, OtherSteps DEF EcdhsUntouched
  <2>2. PICK k \in {0, 1}, l \in {0, 1} :
          /\ NoNewEcdh(toServer, toServer', k, refresh - refresh')
          /\ NoNewEcdh(toClient, toClient', l, refresh - refresh')
    BY <1>2, OtherSteps DEF EcdhsUntouched
  <2>3. refresh' \in Nat
    BY Settings, StepTypeInv DEF TypeInv, TypeOK
  <2>4. Age' = Age + (refresh - refresh')
    BY <1>0, <2>1, <2>3 DEF Age
  <2>5. ASSUME client # NULL, NEW i \in Ecdhs(toServer'), toServer'[i].packet.pub = client.pair
        PROVE  toServer'[i].wait = delay - Age'
    <3>1. /\ i + k \in Ecdhs(toServer) /\ toServer'[i].packet = toServer[i + k].packet
          /\ toServer'[i].wait = toServer[i + k].wait - (refresh - refresh')
      BY <2>2 DEF NoNewEcdh
    <3>2. toServer[i + k].wait = delay - Age
      BY <2>5, <3>1 DEF OnTime
    <3> QED
      BY <1>0, <2>3, <2>4, <3>1, <3>2
  <2>6. ASSUME client # NULL, NEW i \in Ecdhs(toClient'), toClient'[i].packet.origin = client.pair
        PROVE  toClient'[i].wait = 2 * delay - Age'
    <3>1. /\ i + l \in Ecdhs(toClient) /\ toClient'[i].packet = toClient[i + l].packet
          /\ toClient'[i].wait = toClient[i + l].wait - (refresh - refresh')
      BY <2>2 DEF NoNewEcdh
    <3>2. toClient[i + l].wait = 2 * delay - Age
      BY <2>6, <3>1 DEF OnTime
    <3> QED
      BY <1>0, <2>3, <2>4, <3>1, <3>2
  <2> QED
    BY <2>1, <2>5, <2>6 DEF OnTime
<1>3. CASE UpdateKey
  <2>1. /\ client' # NULL /\ client'.pair = FreshPair /\ delay' = delay /\ Age' = 0
    BY <1>0, <1>3, UpdateKeyEcdhs DEF Age
  <2>2. ASSUME NEW i \in Ecdhs(toServer'), toServer'[i].packet.pub = FreshPair
        PROVE  toServer'[i].wait = delay
    BY <1>3, <2>2, UpdateKeyEcdhs, FreshFacts DEF OneSent
  <2>3. ASSUME NEW i \in Ecdhs(toClient') PROVE toClient'[i].packet.origin # FreshPair
    BY <1>3, UpdateKeyEcdhs, FreshFacts DEF NoNewEcdh
  <2> QED
    BY <1>0, <2>1, <2>2, <2>3 DEF OnTime
<1>4. CASE ServerBegin
  <2>1. /\ client' = client /\ client # NULL /\ delay' = delay /\ Age' = Age
        /\ 1 \in Ecdhs(toServer) /\ toServer[1].wait = 0
    BY <1>4, ServerBeginEcdhs DEF Age
  <2>2. ASSUME NEW i \in Ecdhs(toServer'), toServer'[i].packet.pub = client.pair
        PROVE  toServer'[i].wait = delay - Age
    <3>1. /\ i + 1 \in Ecdhs(toServer) /\ toServer'[i].packet = toServer[i + 1].packet
          /\ toServer'[i].wait = toServer[i + 1].wait - 0
      BY <1>4, ServerBeginEcdhs DEF NoNewEcdh
    <3> QED
      BY <1>0, <2>1, <2>2, <3>1 DEF OnTime
  <2>3. toServer[1].packet.pub = client.pair => Age = delay
    BY <1>0, <2>1 DEF OnTime
  <2>4. ASSUME NEW i \in Ecdhs(toClient'), toClient'[i].packet.origin = client.pair
        PROVE  toClient'[i].wait = 2 * delay - Age
    <3>1. CASE i = Len(toClient')
      <4>1. toClient'[i].wait = delay /\ toClient'[i].packet.origin = toServer[1].packet.pub
        BY <1>4, <3>1, ServerBeginEcdhs DEF OneSent, EcdhPacket
      <4> QED
        BY <1>0, <2>3, <2>4, <4>1
    <3>2. CASE i # Len(toClient')
      <4>1. /\ i \in Ecdhs(toClient) /\ toClient'[i].packet = toClient[i].packet
            /\ toClient'[i].wait = toClient[i].wait
        BY <1>4, <3>2, ServerBeginEcdhs DEF OneSent
      <4> QED
        BY <2>1, <2>4, <4>1 DEF OnTime
    <3> QED
      BY <3>1, <3>2
  <2> QED
    BY <2>1, <2>2, <2>4 DEF OnTime
<1>5. CASE ClientFinal
  <2>1. /\ client'.pair = client.pair /\ client # NULL /\ delay' = delay /\ Age' = Age
        /\ toServer' = toServer
    BY <1>5, ClientFinalEcdhs DEF Age
  <2>2. ASSUME NEW i \in Ecdhs(toClient'), toClient'[i].packet.origin = client.pair
        PROVE  toClient'[i].wait = 2 * delay - Age
    <3>1. /\ i + 1 \in Ecdhs(toClient) /\ toClient'[i].packet = toClient[i + 1].packet
          /\ toClient'[i].wait = toClient[i + 1].wait - 0
      BY <1>5, ClientFinalEcdhs DEF NoNewEcdh
    <3> QED
      BY <1>0, <2>1, <2>2, <3>1 DEF OnTime
  <2> QED
    BY <2>1, <2>2 DEF OnTime
<1> QED
  BY <1>1, <1>2, <1>3, <1>4, <1>5 DEF Next, OtherStep

-----------------------------------------------------------------------------
(* Answers that come too late.                                             *)

LEMMA InitSlowInv == Init => SlowInv
BY DEF Init, SlowInv, SecretsNeverAgree, NoFalseSuccess, Keyed, NewFile

LEMMA StepSlowInv ==
  TypeInv /\ UnusedPair /\ NamesInv /\ OnTime /\ SlowInv /\ [Next]_vars => SlowInv'
<1> SUFFICES ASSUME TypeInv, UnusedPair, NamesInv, OnTime, SlowInv, [Next]_vars
             PROVE  SlowInv'
  OBVIOUS
<1>1. CASE UNCHANGED vars
  BY <1>1 DEF vars, settings, files, SlowInv, SecretsNeverAgree, NoFalseSuccess, Keyed
<1>2. CASE OtherStep
  BY <1>2, OtherSteps DEF EcdhsUntouched, SlowInv, SecretsNeverAgree, NoFalseSuccess, Keyed
<1>3. CASE UpdateKey
  BY <1>3, UpdateKeyEcdhs DEF SlowInv, SecretsNeverAgree, NoFalseSuccess
<1>4. CASE ServerBegin
  <2>1. /\ client' = client /\ server'.secret = {FreshPair, toServer[1].packet.pub}
        /\ delay' = delay /\ refreshTime' = refreshTime /\ client # NULL
        /\ keyFile' = LogKey(keyFile, "server", server'.secret)
    BY <1>4, ServerBeginEcdhs
  <2>2. SecretsNeverAgree'
    BY <2>1, FreshFacts DEF SecretsNeverAgree, Keyed
  <2>3. /\ keyFile.row = NoRow => keyFile'.pair = keyFile.pair
        /\ keyFile.row # NoRow => (keyFile'.pair.same <=> keyFile.row.key = server'.secret)
    BY <2>1 DEF TypeInv, TypeOK, LogKey, ReadKey, Read
  <2>4. NoFalseSuccess'
    BY <2>1, <2>3, FreshFacts DEF SlowInv, NoFalseSuccess
  <2> QED
    BY <2>2, <2>4 DEF SlowInv
<1>5. CASE ClientFinal
  <2> DEFINE f == toClient[1].packet
  <2>1. /\ 1 \in Ecdhs(toClient) /\ toClient[1].wait = 0 /\ client # NULL /\ server # NULL
        /\ client'.secret = {client.pair, f.pub} /\ server' = server
        /\ delay' = delay /\ refreshTime' = refreshTime
        /\ keyFile' = LogKey(keyFile, "client", client'.secret)
    BY <1>5, ClientFinalEcdhs
  <2>2. 2 * delay > refreshTime => f.origin # client.pair
    BY <2>1, Settings DEF OnTime, TypeInv
  <2>3. f.pub # client.pair /\ server.pair # client.pair
    BY <2>1 DEF NamesInv, DistinctPubs
  <2>4. /\ server.pair \in server.secret
        /\ f.pub = server.pair => server.secret = {f.pub, f.origin}
    BY <2>1 DEF NamesInv, OwnSecrets
  <2>5. SecretsNeverAgree'
    <3> SUFFICES ASSUME 2 * delay > refreshTime
                 PROVE  client'.secret # server.secret
      BY <2>1 DEF SecretsNeverAgree
    <3>1. CASE f.pub = server.pair
      BY <2>1, <2>2, <2>3, <2>4, <3>1
    <3>2. CASE f.pub # server.pair
      BY <2>1, <2>3, <2>4, <3>2
    <3> QED
      BY <3>1, <3>2
  <2>6. /\ keyFile.row = NoRow => keyFile'.pair = keyFile.pair
        /\ keyFile.row # NoRow => (keyFile'.pair.same <=> keyFile.row.key = client'.secret)
    BY <2>1 DEF TypeInv, TypeOK, LogKey, ReadKey, Read
  <2>7. 2 * delay > refreshTime /\ keyFile.row # NoRow => keyFile.row.key # client'.secret
    <3>1. keyFile.row # NoRow /\ f.pub \in keyFile.row.key => keyFile.row.key = {f.pub, f.origin}
      BY <2>1 DEF NamesInv, RowNames
    <3> QED
      BY <2>1, <2>2, <2>3, <3>1
  <2>8. NoFalseSuccess'
    BY <2>1, <2>6, <2>7 DEF SlowInv, NoFalseSuccess
  <2> QED
    BY <2>5, <2>8 DEF SlowInv
<1> QED
  BY <1>1, <1>2, <1>3, <1>4, <1>5 DEF Next, OtherStep

(* The conjunction all further theorems rest on.                           *)
TimeInv == TypeInv /\ NamesInv /\ OnTime

LEMMA InitTimeInv == Init => TimeInv
BY InitTypeInv, InitNamesInv, InitOnTime DEF TimeInv

LEMMA StepTimeInv == TimeInv /\ UnusedPair /\ [Next]_vars => TimeInv'
BY StepTypeInv, StepNames, StepOnTime DEF TimeInv

(* A refresh shorter than two delays: whatever is lost, every FINAL meets a*)
(* key pair it does not answer, and no negotiation ends in a shared secret.*)
THEOREM LateSecretsNeverAgree == Spec /\ []UnusedPair => []SecretsNeverAgree
<1>1. SlowInv => SecretsNeverAgree
  BY DEF SlowInv
<1>2. TimeInv /\ UnusedPair /\ SlowInv /\ [Next]_vars => SlowInv'
  BY StepSlowInv DEF TimeInv
<1> QED
  BY <1>1, <1>2, InitTimeInv, StepTimeInv, InitSlowInv, PTL DEF Spec

(* Then the success script never finds two equal keys in two rows: it      *)
(* counts no success where there is none.                                  *)
THEOREM LateNoFalseSuccess == Spec /\ []UnusedPair => []NoFalseSuccess
<1>1. SlowInv => NoFalseSuccess
  BY DEF SlowInv
<1>2. TimeInv /\ UnusedPair /\ SlowInv /\ [Next]_vars => SlowInv'
  BY StepSlowInv DEF TimeInv
<1> QED
  BY <1>1, <1>2, InitTimeInv, StepTimeInv, InitSlowInv, PTL DEF Spec

-----------------------------------------------------------------------------
(* Answers that come in time.                                              *)

LEMMA InitFastInv == Init => FastInv
BY DEF Init, FastInv, OneNegotiation, RowAwaitsFinal, ScriptCountsExchanges, Keyed, NewFile, Ecdhs

(* At the refresh nothing of the negotiation before it is in flight.       *)
LEMMA NothingAtRefresh ==
  ASSUME TimeInv, FastInv, 2 * delay < refreshTime, refresh = 0
  PROVE  Ecdhs(toServer) = {} /\ Ecdhs(toClient) = {}
<1>1. /\ delay \in Nat /\ refreshTime \in Nat /\ Age = refreshTime
      /\ \A i \in Ecdhs(toServer) : toServer[i].wait \in Nat
      /\ \A j \in Ecdhs(toClient) : toClient[j].wait \in Nat
  BY Settings, EntryFacts DEF TimeInv, TypeInv, Ecdhs, Age
<1>2. CASE client = NULL
  BY <1>2 DEF TimeInv, TypeInv, Causes, Ecdhs
<1>3. CASE client # NULL
  <2>1. ASSUME NEW i \in Ecdhs(toServer) PROVE FALSE
    <3>1. toServer[i].wait = delay - refreshTime
      BY <1>1, <1>3, <2>1 DEF TimeInv, OnTime, FastInv, OneNegotiation
    <3> QED
      BY <1>1, <2>1, <3>1
  <2>2. ASSUME NEW j \in Ecdhs(toClient) PROVE FALSE
    <3>1. toClient[j].wait = 2 * delay - refreshTime
      BY <1>1, <1>3, <2>2 DEF TimeInv, OnTime, FastInv, OneNegotiation
    <3> QED
      BY <1>1, <2>2, <3>1
  <2> QED
    BY <2>1, <2>2
<1> QED
  BY <1>2, <1>3

LEMMA UpdateKeyFast ==
  ASSUME TimeInv, UnusedPair, FastInv, UpdateKey
  PROVE  FastInv'
<1>1. /\ client' # NULL /\ client'.pair = FreshPair /\ ~Keyed(client')
      /\ UNCHANGED <<server, delay, refreshTime, lossy, keyFile>>
      /\ refresh = 0
  BY UpdateKeyEcdhs DEF TimeInv
<1> SUFFICES ASSUME 2 * delay < refreshTime
             PROVE  OneNegotiation' /\ (~lossy => RowAwaitsFinal') /\ ScriptCountsExchanges'
  BY <1>1 DEF FastInv
<1>2. Ecdhs(toServer) = {} /\ Ecdhs(toClient) = {}
  BY <1>1, NothingAtRefresh
<1>3. Ecdhs(toClient') = {}
  BY <1>2, UpdateKeyEcdhs DEF TimeInv, NoNewEcdh
<1>4. \A i \in Ecdhs(toServer') : toServer'[i].packet.pub = FreshPair
  BY <1>2, UpdateKeyEcdhs DEF TimeInv, OneSent, EcdhPacket
<1> QED
  BY <1>1, <1>2, <1>3, <1>4 DEF FastInv, OneNegotiation, RowAwaitsFinal, ScriptCountsExchanges

LEMMA ServerBeginFast ==
  ASSUME TimeInv, UnusedPair, FastInv, ServerBegin
  PROVE  FastInv'
<1> DEFINE b == toServer[1].packet
<1>1. /\ 1 \in Ecdhs(toServer) /\ client # NULL
      /\ server'.pair = FreshPair /\ server'.secret = {FreshPair, b.pub}
      /\ keyFile' = LogKey(keyFile, "server", server'.secret)
      /\ UNCHANGED <<client, delay, refreshTime, lossy>>
      /\ b.pub \in KeyPairs /\ FreshPair \in KeyPairs
  <2>1. b.pub \in KeyPairs
    BY ServerBeginEcdhs, EntryFacts, PacketFields, Settings DEF TimeInv, TypeInv, Ecdhs
  <2> QED
    BY <2>1, ServerBeginEcdhs, FreshFacts DEF TimeInv
<1> SUFFICES ASSUME 2 * delay < refreshTime
             PROVE  OneNegotiation' /\ (~lossy => RowAwaitsFinal') /\ ScriptCountsExchanges'
  BY <1>1 DEF FastInv
<1>2. ~Keyed(client) /\ b.pub = client.pair
  BY <1>1 DEF FastInv, OneNegotiation
<1>3. Ecdhs(toClient) = {}
  <2>1. ASSUME NEW j \in Ecdhs(toClient) PROVE FALSE
    <3>1. toClient[j].packet.origin = b.pub
      BY <1>1, <1>2, <2>1 DEF FastInv, OneNegotiation
    <3> QED
      BY <1>1, <2>1, <3>1 DEF TimeInv, NamesInv, DistinctPubs
  <2> QED
    BY <2>1
<1>4. /\ Ecdhs(toClient') # {}
      /\ \A j \in Ecdhs(toClient') :
           toClient'[j].packet.pub = FreshPair /\ toClient'[j].packet.origin = b.pub
  BY <1>3, ServerBeginEcdhs DEF TimeInv, OneSent, EcdhPacket
<1>5. OneNegotiation'
  <2>1. \A i \in Ecdhs(toServer') : toServer'[i].packet.pub = client.pair
    BY <1>1, ServerBeginEcdhs DEF TimeInv, FastInv, OneNegotiation, NoNewEcdh
  <2> QED
    BY <1>1, <1>2, <1>4, <2>1 DEF OneNegotiation, Keyed
<1>6. ASSUME ~lossy PROVE RowAwaitsFinal' /\ keyFile'.pair = keyFile.pair
  <2>1. keyFile.row = NoRow
    BY <1>3, <1>6 DEF FastInv, RowAwaitsFinal
  <2>2. /\ keyFile'.row = [node |-> "server", key |-> server'.secret]
        /\ keyFile'.pair = keyFile.pair
    BY <1>1, <2>1 DEF TimeInv, TypeInv, TypeOK, LogKey, ReadKey, Read
  <2>3. [node |-> "server", key |-> server'.secret] # NoRow
    BY <1>1, NothingAssumption DEF KeyRows, Nodes, Secrets
  <2> QED
    BY <1>4, <2>2, <2>3 DEF RowAwaitsFinal
<1> QED
  BY <1>1, <1>5, <1>6 DEF FastInv, ScriptCountsExchanges

LEMMA ClientFinalFast ==
  ASSUME TimeInv, FastInv, ClientFinal, TypeOK'
  PROVE  FastInv'
<1> DEFINE f == toClient[1].packet
<1>1. /\ 1 \in Ecdhs(toClient) /\ client # NULL /\ server # NULL
      /\ client'.pair = client.pair /\ client'.secret = {client.pair, f.pub}
      /\ keyFile' = LogKey(keyFile, "client", client'.secret)
      /\ UNCHANGED <<server, toServer, delay, refreshTime, lossy>>
  BY ClientFinalEcdhs DEF TimeInv
<1> SUFFICES ASSUME 2 * delay < refreshTime
             PROVE  OneNegotiation' /\ (~lossy => RowAwaitsFinal') /\ ScriptCountsExchanges'
  BY <1>1 DEF FastInv
<1>2. f.origin = client.pair /\ f.pub = server.pair
  BY <1>1 DEF FastInv, OneNegotiation
<1>3. client'.secret = server.secret
  BY <1>1, <1>2 DEF TimeInv, NamesInv, OwnSecrets
<1>4. Ecdhs(toServer) = {}
  <2>1. \A i \in Ecdhs(toServer) : toServer[i].packet.pub = client.pair
    BY <1>1 DEF FastInv, OneNegotiation
  <2>2. \A i \in Ecdhs(toServer) : toServer[i].packet.pub # f.origin
    BY <1>1 DEF TimeInv, NamesInv, DistinctPubs
  <2> QED
    BY <1>2, <2>1, <2>2
<1>5. Ecdhs(toClient') = {}
  <2>1. ASSUME NEW j \in Ecdhs(toClient') PROVE FALSE
    <3>1. j + 1 \in Ecdhs(toClient)
      BY <2>1, ClientFinalEcdhs DEF TimeInv, NoNewEcdh
    <3>2. toClient[j + 1].packet.pub = f.pub
      BY <1>1, <1>2, <3>1 DEF FastInv, OneNegotiation
    <3>3. j + 1 = 1
      BY <1>1, <3>1, <3>2 DEF TimeInv, NamesInv, DistinctPubs
    <3>4. j \in Nat \ {0}
      BY <2>1, EntryFacts DEF TypeOK, Ecdhs
    <3> QED
      BY <3>3, <3>4
  <2> QED
    BY <2>1
<1>6. OneNegotiation'
  BY <1>1, <1>3, <1>4, <1>5 DEF OneNegotiation
<1>7. ASSUME ~lossy
      PROVE  RowAwaitsFinal' /\ ScriptCountsExchanges'
  <2>1. keyFile.row # NoRow /\ keyFile.row.node = "server" /\ keyFile.row.key = server.secret
    BY <1>1, <1>7 DEF FastInv, RowAwaitsFinal
  <2>2. /\ keyFile'.row = NoRow
        /\ keyFile'.pair = [nodes |-> <<"server", "client">>, same |-> keyFile.row.key = client'.secret]
    BY <1>1, <2>1, Zenon DEF LogKey, ReadKey, Read
  <2>3. (keyFile.row.key = client'.secret) = TRUE
    BY <1>3, <2>1
  <2> QED
    BY <1>5, <2>2, <2>3, Zenon DEF RowAwaitsFinal, ScriptCountsExchanges
<1> QED
  BY <1>1, <1>6, <1>7 DEF ScriptCountsExchanges

LEMMA OtherStepsFast ==
  ASSUME TypeInv, TypeOK', EcdhsUntouched, FastInv
  PROVE  FastInv'
<1>1. PICK k \in {0, 1}, l \in {0, 1} :
        /\ NoNewEcdh(toServer, toServer', k, refresh - refresh')
        /\ NoNewEcdh(toClient, toClient', l, refresh - refresh')
        /\ ~lossy => NoEcdhLost(toServer, toServer', k) /\ NoEcdhLost(toClient, toClient', l)
  BY DEF EcdhsUntouched
<1>2. /\ client' = client /\ server' = server /\ delay' = delay /\ refreshTime' = refreshTime
      /\ lossy' = lossy /\ keyFile'.row = keyFile.row /\ keyFile'.pair \in {keyFile.pair, NoRow}
  BY DEF EcdhsUntouched
<1> SUFFICES ASSUME 2 * delay < refreshTime
             PROVE  OneNegotiation' /\ (~lossy => RowAwaitsFinal') /\ ScriptCountsExchanges'
  BY <1>2 DEF FastInv
<1>3. OneNegotiation'
  <2>1. \A i \in Ecdhs(toServer') :
          i + k \in Ecdhs(toServer) /\ toServer'[i].packet = toServer[i + k].packet
    BY <1>1 DEF NoNewEcdh
  <2>2. \A i \in Ecdhs(toClient') :
          i + l \in Ecdhs(toClient) /\ toClient'[i].packet = toClient[i + l].packet
    BY <1>1 DEF NoNewEcdh
  <2> QED
    BY <1>2, <2>1, <2>2 DEF FastInv, OneNegotiation, Keyed
<1>4. ASSUME ~lossy PROVE Ecdhs(toClient') # {} <=> Ecdhs(toClient) # {}
  BY <1>1, <1>4 DEF NoNewEcdh, NoEcdhLost
<1>5. ASSUME ~lossy PROVE RowAwaitsFinal'
  BY <1>2, <1>4, <1>5 DEF FastInv, RowAwaitsFinal
<1>6. ScriptCountsExchanges'
  BY <1>2 DEF FastInv, ScriptCountsExchanges
<1> QED
  BY <1>3, <1>5, <1>6

LEMMA StepFastInv == TimeInv /\ UnusedPair /\ FastInv /\ [Next]_vars => FastInv'
<1> SUFFICES ASSUME TimeInv, UnusedPair, FastInv, [Next]_vars
             PROVE  FastInv'
  OBVIOUS
<1>1. TypeOK' /\ TypeInv
  BY StepTypeInv DEF TypeInv, TimeInv
<1>2. CASE UNCHANGED vars
  BY <1>2 DEF vars, settings, files, FastInv, OneNegotiation, RowAwaitsFinal,
              ScriptCountsExchanges, Keyed, Ecdhs
<1>3. CASE OtherStep
  BY <1>1, <1>3, OtherSteps, OtherStepsFast
<1> QED
  BY <1>1, <1>2, <1>3, UpdateKeyFast, ServerBeginFast, ClientFinalFast DEF Next, OtherStep

(* A refresh longer than two delays: a client that has a secret shares it  *)
(* with the server, whichever packets are lost.                            *)
THEOREM SecretsAgreement == Spec /\ []UnusedPair => []SecretsAgree
<1>1. TimeInv /\ FastInv => SecretsAgree
  <2> SUFFICES ASSUME TimeInv, FastInv, 2 * delay < refreshTime, Keyed(client)
               PROVE  Keyed(server) /\ client.secret = server.secret
    BY DEF SecretsAgree
  <2>1. server # NULL
    BY DEF TimeInv, TypeInv, Causes
  <2> QED
    BY <2>1 DEF TimeInv, NamesInv, OwnSecrets, FastInv, OneNegotiation
<1> QED
  BY <1>1, InitTimeInv, StepTimeInv, InitFastInv, StepFastInv, PTL DEF Spec

(* Nothing lost, the success script compares the two secrets of each       *)
(* negotiation, and finds them equal.                                      *)
THEOREM ScriptIsRight == Spec /\ []UnusedPair => []ScriptCountsExchanges
<1>1. FastInv => ScriptCountsExchanges
  BY DEF FastInv, ScriptCountsExchanges
<1> QED
  BY <1>1, InitTimeInv, StepTimeInv, InitFastInv, StepFastInv, PTL DEF Spec

-----------------------------------------------------------------------------
(* The two queues and the trace, whatever the packets are.                 *)

LEMMA ToServerStep ==
  ASSUME TypeInv, UnusedPair, Next
  PROVE  \/ UpdateKey /\ BecomesWith(toServer, toServer', EcdhPacket("BEGIN", FreshPair, FreshPair))
         \/ /\ SendEncryptedMessage
            /\ \E m \in EncryptedMessages(client.secret) : BecomesWith(toServer, toServer', m)
         \/ /\ ~UpdateKey /\ ~SendEncryptedMessage
            /\ \E k, n \in {0, 1} : Becomes(toServer, toServer', k, n, refresh - refresh')
<1>0. /\ TypeOK /\ InOrder /\ Causes /\ refresh \in Nat
      /\ toServer \in Seq(Entries(ToServerPackets))
  BY Settings DEF TypeInv
<1>1. Becomes(toServer, toServer, 0, 0, 0)
  BY <1>0, EntryFacts DEF Becomes, Shifted
<1>2. CASE UpdateKey
  BY <1>0, <1>2, UpdateKeyQueues
<1>3. CASE SendEncryptedMessage
  <2>1. PICK m \in EncryptedMessages(client.secret) : toServer' = Send(toServer, m)
    BY <1>3 DEF SendEncryptedMessage
  <2>2. m \in ToServerPackets
    <3>1. client \in ECDHs
      BY <1>0, <1>3 DEF SendEncryptedMessage, Causes, TypeOK
    <3> QED
      BY <3>1 DEF EncryptedMessages, Msg, ToServerPackets, MsgPackets, ECDHs
  <2>3. BecomesWith(toServer, toServer', m)
    BY <1>0, <1>3, <2>1, <2>2, ClientSendQueues DEF SendEncryptedMessage
  <2> QED
    BY <1>3, <2>3
<1>4. CASE ~UpdateKey /\ ~SendEncryptedMessage
  <2>1. CASE Tick
    <3>1. refresh - refresh' = 1
      BY <1>0, <2>1 DEF Tick, Advance
    <3> QED
      BY <1>0, <1>4, <2>1, <3>1, TickQueues
  <2>2. CASE ~Tick
    <3>1. refresh - refresh' = 0
      BY <1>0, <1>4, <2>2 DEF Next, ClientFinal, ClientDecryptMSG, ServerBegin, AnswerBegin,
                              ServerDecryptMSG, ServerReadEmpty, Lose
    <3>2. \/ toServer' = toServer
          \/ toServer # <<>> /\ toServer' = Tail(toServer)
          \/ toServer # <<>> /\ toServer' = Older(Tail(toServer))
      BY <1>4, <2>2 DEF Next, ClientFinal, ClientDecryptMSG, ServerBegin, AnswerBegin,
                        ServerDecryptMSG, ServerReadEmpty, Lose, Arrives, Due
    <3>3. \E k, n \in {0, 1} : Becomes(toServer, toServer', k, n, 0)
      BY <1>0, <1>1, <3>2, TailQueue
    <3> QED
      BY <1>4, <3>1, <3>3
  <2> QED
    BY <2>1, <2>2
<1> QED
  BY <1>2, <1>3, <1>4

LEMMA ToClientStep ==
  ASSUME TypeInv, UnusedPair, Next
  PROVE  \/ /\ ServerBegin
            /\ BecomesWith(toClient, toClient', EcdhPacket("FINAL", FreshPair, toServer[1].packet.pub))
         \/ ServerDecryptMSG /\ BecomesWith(toClient, toClient', Msg(server.secret))
         \/ UpdateKey /\ Becomes(toClient, toClient', 0, 1, 0)
         \/ SendEncryptedMessage /\ refresh' = refresh /\ Becomes(toClient, toClient', 0, 1, 0)
         \/ /\ ~UpdateKey /\ ~SendEncryptedMessage /\ ~ServerBegin
            /\ \E l \in {0, 1} : Becomes(toClient, toClient', l, 0, refresh - refresh')
<1>0. /\ TypeOK /\ InOrder /\ Causes /\ refresh \in Nat
      /\ toServer \in Seq(Entries(ToServerPackets))
      /\ toClient \in Seq(Entries(ToClientPackets))
  BY Settings DEF TypeInv
<1>1. Becomes(toClient, toClient, 0, 0, 0) /\ Becomes(toClient, Older(toClient), 0, 1, 0)
  BY <1>0, EntryFacts, OlderQueue DEF Becomes, Shifted
<1>2. CASE UpdateKey
  BY <1>0, <1>2, UpdateKeyQueues
<1>3. CASE SendEncryptedMessage
  BY <1>1, <1>3 DEF SendEncryptedMessage
<1>4. CASE ServerBegin
  <2>1. /\ toServer # <<>> /\ server'.pair = FreshPair /\ Head(toServer) = toServer[1]
        /\ toClient' = Send(toClient, EcdhPacket("FINAL", server'.pair, Head(toServer).packet.pub))
        /\ toServer[1].packet.pub \in KeyPairs /\ FreshPair \in KeyPairs
    <3>1. /\ toServer # <<>> /\ Head(toServer).packet.type = "ECDH"
          /\ toClient' = Send(toClient, EcdhPacket("FINAL", server'.pair, Head(toServer).packet.pub))
      BY <1>4 DEF ServerBegin, AnswerBegin, Arrives, Due
    <3>2. Head(toServer) = toServer[1] /\ toServer[1].packet.pub \in KeyPairs
      BY <1>0, <3>1, HeadPackets, PacketFields
    <3> QED
      BY <1>4, <3>1, <3>2, ServerBeginEcdhs, FreshPairIsUnused
  <2>2. EcdhPacket("FINAL", FreshPair, toServer[1].packet.pub) \in ToClientPackets
    BY <2>1 DEF EcdhPacket, ToClientPackets, EcdhPackets
  <2> QED
    BY <1>0, <1>4, <2>1, <2>2, SentQueue, Settings
<1>5. CASE ServerDecryptMSG
  <2>1. refresh - refresh' = 0 /\ server \in ECDHs
    BY <1>0, <1>5 DEF ServerDecryptMSG, TypeOK
  <2>2. Msg(server.secret) \in ToClientPackets
    BY <2>1 DEF Msg, ToClientPackets, MsgPackets, ECDHs
  <2>3. CASE toClient' = Send(toClient, Msg(server.secret))
    BY <1>0, <1>5, <2>2, <2>3, SentQueue, Settings
  <2>4. CASE toClient' = toClient
    <3>1. Becomes(toClient, toClient', 0, 0, refresh - refresh')
      BY <1>1, <2>1, <2>4
    <3> QED
      BY <1>2, <1>3, <1>4, <3>1
  <2> QED
    BY <1>5, <2>3, <2>4 DEF ServerDecryptMSG
<1>6. CASE ClientFinal \/ ClientDecryptMSG \/ ServerReadEmpty \/ Lose \/ Tick
  <2>1. CASE Tick
    <3>1. refresh - refresh' = 1
      BY <1>0, <2>1 DEF Tick, Advance
    <3> QED
      BY <1>0, <1>2, <1>3, <1>4, <2>1, <3>1, TickQueues
  <2>2. CASE ~Tick
    <3>1. refresh - refresh' = 0
      BY <1>0, <1>6, <2>2 DEF ClientFinal, ClientDecryptMSG, ServerReadEmpty, Lose
    <3>2. \/ toClient' = toClient
          \/ toClient # <<>> /\ toClient' = Tail(toClient)
      BY <1>6, <2>2 DEF ClientFinal, ClientDecryptMSG, ServerReadEmpty, Lose, Arrives, Due
    <3>3. \E l \in {0, 1} : Becomes(toClient, toClient', l, 0, 0)
      BY <1>0, <1>1, <3>2, TailQueue
    <3> QED
      BY <1>2, <1>3, <1>4, <3>1, <3>3
  <2> QED
    BY <2>1, <2>2
<1> QED
  BY <1>2, <1>3, <1>4, <1>5, <1>6 DEF Next

(* The entries of a queue and those it had a step before.                  *)
LEMMA EntriesKept ==
  ASSUME NEW P, NEW q \in Seq(Entries(P)), NEW r \in Seq(Entries(P)),
         NEW k \in {0, 1}, NEW n, NEW t, Becomes(q, r, k, n, t), NEW i \in DOMAIN r
  PROVE  /\ i + k \in DOMAIN q /\ r[i].packet = q[i + k].packet
         /\ r[i].wait = q[i + k].wait - t /\ r[i].newer = q[i + k].newer + n
<1>1. /\ DOMAIN q = 1 .. Len(q) /\ Len(q) \in Nat /\ DOMAIN r = 1 .. Len(r) /\ Len(r) \in Nat
  BY EntryFacts
<1>2. i \in 1 .. Len(q) - k
  BY <1>1 DEF Becomes
<1> QED
  BY <1>1, <1>2 DEF Becomes, Shifted

LEMMA EntriesSent ==
  ASSUME NEW P, NEW q \in Seq(Entries(P)), NEW r \in Seq(Entries(P)),
         NEW m, BecomesWith(q, r, m), NEW i \in DOMAIN r
  PROVE  \/ /\ i \in DOMAIN q /\ r[i].packet = q[i].packet
            /\ r[i].wait = q[i].wait /\ r[i].newer = q[i].newer + 1
         \/ i = Len(r) /\ r[i].packet = m /\ r[i].wait = delay /\ r[i].newer = 0
<1>1. /\ DOMAIN q = 1 .. Len(q) /\ Len(q) \in Nat /\ DOMAIN r = 1 .. Len(r) /\ Len(r) \in Nat
      /\ \A j \in DOMAIN q : q[j].wait \in 0 .. delay
  BY EntryFacts
<1>2. CASE i = Len(r)
  BY <1>2 DEF BecomesWith
<1>3. CASE i # Len(r)
  <2>1. i \in 1 .. Len(q) - 0 /\ i + 0 = i /\ i \in DOMAIN q
    BY <1>1, <1>3 DEF BecomesWith
  <2>2. /\ r[i].packet = q[i].packet
        /\ r[i].wait = q[i].wait - 0 /\ r[i].newer = q[i].newer + 1
    BY <2>1 DEF BecomesWith, Shifted
  <2> QED
    BY <1>1, <2>1, <2>2
<1> QED
  BY <1>2, <1>3

(* A packet is created: the uid of the row without a partner is one lower. *)
Bumped(file) == IF file.row = NoRow THEN file ELSE [file EXCEPT !.row.newer = @ + 1]

LEMMA BumpedFacts ==
  ASSUME NEW file \in TraceFiles
  PROVE  /\ Bumped(file).row # NoRow <=> file.row # NoRow
         /\ file.row # NoRow =>
              /\ Bumped(file).row.state = file.row.state /\ Bumped(file).row.age = file.row.age
              /\ Bumped(file).row.newer = file.row.newer + 1
         /\ Bumped(file).pair = file.pair
<1>1. CASE file.row # NoRow
  <2>1. file.row \in TraceRows
    BY <1>1 DEF TraceFiles
  <2>2. [file.row EXCEPT !.newer = @ + 1] \in TraceRows
    BY <2>1 DEF TraceRows
  <2>3. /\ [file.row EXCEPT !.newer = @ + 1] # NoRow
        /\ [file.row EXCEPT !.newer = @ + 1].state = file.row.state
        /\ [file.row EXCEPT !.newer = @ + 1].age = file.row.age
        /\ [file.row EXCEPT !.newer = @ + 1].newer = file.row.newer + 1
    BY <2>1, <2>2, NothingAssumption DEF TraceRows
  <2>4. [file EXCEPT !.row.newer = @ + 1] = [file EXCEPT !.row = [file.row EXCEPT !.newer = @ + 1]]
    BY <2>1 DEF TraceFiles, TraceRows
  <2> QED
    BY <1>1, <2>3, <2>4 DEF Bumped, TraceFiles
<1> QED
  BY <1>1 DEF Bumped

LEMMA LaterFacts ==
  ASSUME NEW file \in TraceFiles
  PROVE  /\ Later(file).row # NoRow <=> file.row # NoRow
         /\ file.row # NoRow =>
              /\ Later(file).row.state = file.row.state /\ Later(file).row.age = file.row.age + 1
              /\ Later(file).row.newer = file.row.newer
         /\ Later(file).pair = NoRow
<1>1. CASE file.row # NoRow
  <2>1. file.row \in TraceRows
    BY <1>1 DEF TraceFiles
  <2>2. [file.row EXCEPT !.age = @ + 1] \in TraceRows
    BY <2>1 DEF TraceRows
  <2>3. /\ [file.row EXCEPT !.age = @ + 1] # NoRow
        /\ [file.row EXCEPT !.age = @ + 1].state = file.row.state
        /\ [file.row EXCEPT !.age = @ + 1].age = file.row.age + 1
        /\ [file.row EXCEPT !.age = @ + 1].newer = file.row.newer
    BY <2>1, <2>2, NothingAssumption DEF TraceRows
  <2>4. [file EXCEPT !.row.age = @ + 1] = [file EXCEPT !.row = [file.row EXCEPT !.age = @ + 1]]
    BY <2>1 DEF TraceFiles, TraceRows
  <2> QED
    BY <1>1, <2>3, <2>4 DEF Later, Forget, TraceFiles
<1> QED
  BY <1>1 DEF Later, Forget, TraceFiles

(* What the script keeps: BEGIN when it is sent and FINAL when it arrives. *)
LEMMA TraceRowsKept ==
  ASSUME NEW file \in TraceFiles, NEW packet, NEW newer \in Nat
  PROVE  /\ packet.type = "MSG" =>
              /\ TraceReceivePacket(file, packet, newer) = file
              /\ TraceTransmitPacket(file, packet) = Bumped(file)
         /\ packet.type = "ECDH" /\ packet.state = "BEGIN" =>
              /\ TraceReceivePacket(file, packet, newer) = file
              /\ TraceTransmitPacket(file, packet) =
                   Read(Bumped(file), [state |-> "BEGIN", age |-> 0, newer |-> 0],
                        [states |-> <<Bumped(file).row.state, "BEGIN">>,
                         time |-> Bumped(file).row.age, packets |-> Bumped(file).row.newer - 0 + 1])
         /\ packet.type = "ECDH" /\ packet.state = "FINAL" =>
              /\ TraceTransmitPacket(file, packet) = Bumped(file)
              /\ TraceReceivePacket(file, packet, newer) =
                   Read(file, [state |-> "FINAL", age |-> 0, newer |-> newer],
                        [states |-> <<file.row.state, "FINAL">>,
                         time |-> file.row.age, packets |-> file.row.newer - newer + 1])
<1>1. CASE packet.type = "MSG"
  <2>1. ~Kept(packet, "receive") /\ ~Kept(packet, "transmit")
    BY <1>1 DEF Kept
  <2> QED
    BY <1>1, <2>1 DEF TraceReceivePacket, TraceTransmitPacket, ReadPacketRow, Bumped
<1>2. CASE packet.type = "ECDH" /\ packet.state = "BEGIN"
  <2>1. PacketState(packet) = "BEGIN" /\ ~Kept(packet, "receive") /\ Kept(packet, "transmit")
    BY <1>2 DEF Kept, PacketState
  <2>2. TraceReceivePacket(file, packet, newer) = file
    BY <2>1 DEF TraceReceivePacket, ReadPacketRow
  <2>3. TraceTransmitPacket(file, packet) =
          Read(Bumped(file), [state |-> "BEGIN", age |-> 0, newer |-> 0],
               [states |-> <<Bumped(file).row.state, "BEGIN">>,
                time |-> Bumped(file).row.age, packets |-> Bumped(file).row.newer - 0 + 1])
    BY <2>1 DEF TraceTransmitPacket, ReadPacketRow, Bumped
  <2> QED
    BY <1>2, <2>2, <2>3
<1>3. CASE packet.type = "ECDH" /\ packet.state = "FINAL"
  <2>1. PacketState(packet) = "FINAL" /\ Kept(packet, "receive") /\ ~Kept(packet, "transmit")
    BY <1>3 DEF Kept, PacketState
  <2>2. TraceTransmitPacket(file, packet) = Bumped(file)
    BY <2>1 DEF TraceTransmitPacket, ReadPacketRow, Bumped
  <2>3. TraceReceivePacket(file, packet, newer) =
          Read(file, [state |-> "FINAL", age |-> 0, newer |-> newer],
               [states |-> <<file.row.state, "FINAL">>,
                time |-> file.row.age, packets |-> file.row.newer - newer + 1])
    BY <2>1 DEF TraceReceivePacket, ReadPacketRow
  <2> QED
    BY <1>3, <2>2, <2>3
<1> QED
  BY <1>1, <1>2, <1>3

LEMMA RowIsRow ==
  ASSUME NEW state \in {"BEGIN", "FINAL"}, NEW age \in Nat, NEW newer \in Nat
  PROVE  [state |-> state, age |-> age, newer |-> newer] # NoRow
<1>1. [state |-> state, age |-> age, newer |-> newer] \in TraceRows
  BY DEF TraceRows, KeptStates
<1> QED
  BY <1>1, NothingAssumption

LEMMA TraceAtBegin ==
  ASSUME TypeInv, UnusedPair, UpdateKey
  PROVE  /\ trace.row = NoRow =>
              /\ trace'.row = [state |-> "BEGIN", age |-> 0, newer |-> 0]
              /\ trace'.row # NoRow /\ trace'.pair = trace.pair
         /\ trace.row # NoRow =>
              trace'.row = NoRow /\ trace'.pair.states = <<trace.row.state, "BEGIN">>
<1>1. trace \in TraceFiles
  BY DEF TypeInv, TypeOK, TraceFiles
<1>2. trace' = TraceTransmitPacket(trace, EcdhPacket("BEGIN", FreshPair, FreshPair))
  BY DEF UpdateKey, Restart, NewECDH
<1>3. /\ EcdhPacket("BEGIN", FreshPair, FreshPair).type = "ECDH"
      /\ EcdhPacket("BEGIN", FreshPair, FreshPair).state = "BEGIN" /\ 0 \in Nat
  BY DEF EcdhPacket
<1>4. trace' = Read(Bumped(trace), [state |-> "BEGIN", age |-> 0, newer |-> 0],
                    [states |-> <<Bumped(trace).row.state, "BEGIN">>,
                     time |-> Bumped(trace).row.age, packets |-> Bumped(trace).row.newer - 0 + 1])
  BY <1>1, <1>2, <1>3, TraceRowsKept
<1>5. [state |-> "BEGIN", age |-> 0, newer |-> 0] # NoRow
  BY RowIsRow
<1>6. CASE trace.row = NoRow
  BY <1>1, <1>4, <1>5, <1>6 DEF Read, Bumped, TraceFiles
<1>7. CASE trace.row # NoRow
  <2>1. Bumped(trace).row # NoRow /\ Bumped(trace).row.state = trace.row.state
    BY <1>1, <1>7, BumpedFacts
  <2> QED
    BY <1>4, <1>7, <2>1 DEF Read
<1> QED
  BY <1>6, <1>7

LEMMA TraceAtFinal ==
  ASSUME TypeInv, ClientFinal
  PROVE  /\ trace.row = NoRow =>
              /\ trace'.row.state = "FINAL" /\ trace'.row # NoRow /\ trace'.pair = trace.pair
         /\ trace.row # NoRow =>
              /\ trace'.row = NoRow /\ trace'.pair.states = <<trace.row.state, "FINAL">>
              /\ trace'.pair.time = trace.row.age
              /\ trace'.pair.packets = trace.row.newer - toClient[1].newer + 1
<1>1. trace \in TraceFiles
  BY DEF TypeInv, TypeOK, TraceFiles
<1>2. /\ toClient # <<>> /\ Head(toClient).packet.type = "ECDH"
      /\ trace' = TraceReceivePacket(trace, Head(toClient).packet, Head(toClient).newer)
  BY DEF ClientFinal, Arrives, Due
<1>3. /\ toClient[1].newer \in Nat
      /\ toClient[1].packet.type = "ECDH" /\ toClient[1].packet.state = "FINAL"
      /\ trace' = TraceReceivePacket(trace, toClient[1].packet, toClient[1].newer)
  BY <1>2, HeadPackets, PacketFields DEF TypeInv
<1>4. trace' = Read(trace, [state |-> "FINAL", age |-> 0, newer |-> toClient[1].newer],
                    [states |-> <<trace.row.state, "FINAL">>,
                     time |-> trace.row.age, packets |-> trace.row.newer - toClient[1].newer + 1])
  BY <1>1, <1>3, TraceRowsKept
<1>5. [state |-> "FINAL", age |-> 0, newer |-> toClient[1].newer] # NoRow
  BY <1>3, RowIsRow
<1>6. CASE trace.row = NoRow
  BY <1>1, <1>4, <1>5, <1>6 DEF Read, TraceFiles
<1>7. CASE trace.row # NoRow
  BY <1>4, <1>7 DEF Read
<1> QED
  BY <1>6, <1>7

(* No other packet leaves a row, if none is empty.                         *)
TraceUntouched ==
  /\ trace'.row # NoRow <=> trace.row # NoRow
  /\ trace.row # NoRow =>
       trace'.row.state = trace.row.state /\ trace'.row.age = trace.row.age + (refresh - refresh')
  /\ trace'.pair \in {trace.pair, NoRow}

LEMMA TraceElse ==
  ASSUME TypeInv, UnusedPair, Next, ~UpdateKey, ~ClientFinal,
         SendEncryptedMessage => client.secret # NoKey,
         \A i \in DOMAIN toServer : toServer[i].packet # EmptyPacket
  PROVE  /\ TraceUntouched
         /\ \/ SendEncryptedMessage
            \/ ServerDecryptMSG
            \/ ServerBegin /\ (trace.row # NoRow => trace'.row.newer = trace.row.newer + 1)
            \/ /\ ClientDecryptMSG \/ Lose \/ Tick
               /\ trace.row # NoRow => trace'.row.newer = trace.row.newer
<1>0. /\ trace \in TraceFiles /\ TypeOK /\ refresh \in Nat
      /\ trace.row # NoRow => trace.row.age \in Nat
  BY Settings DEF TypeInv, TypeOK, TraceFiles, TraceRows
<1>2. ASSUME trace' \in {trace, Bumped(trace)}, refresh' = refresh PROVE TraceUntouched
  <2>1. CASE trace' = trace
    BY <1>0, <1>2, <2>1 DEF TraceUntouched
  <2>2. CASE trace' = Bumped(trace)
    BY <1>0, <1>2, <2>2, BumpedFacts DEF TraceUntouched
  <2> QED
    BY <1>2, <2>1, <2>2
<1>3. CASE SendEncryptedMessage
  <2>1. PICK m \in EncryptedMessages(client.secret) :
          \/ trace' = TraceTransmitPacket(trace, m)
          \/ m = EmptyPacket
    BY <1>3 DEF SendEncryptedMessage
  <2>2. m.type = "MSG" /\ m # EmptyPacket
    BY <1>3, <2>1 DEF EncryptedMessages, Msg, EmptyPacket
  <2>3. trace' = TraceTransmitPacket(trace, m) /\ 0 \in Nat
    BY <2>1, <2>2
  <2>4. trace' = Bumped(trace)
    BY <1>0, <2>2, <2>3, TraceRowsKept
  <2>5. refresh' = refresh
    BY <1>3 DEF SendEncryptedMessage
  <2> QED
    BY <1>2, <1>3, <2>4, <2>5
<1>4. CASE ServerBegin
  <2> DEFINE p     == Head(toServer)
             final == EcdhPacket("FINAL", server'.pair, p.packet.pub)
  <2>1. /\ toServer # <<>> /\ p.packet.type = "ECDH"
        /\ trace' = TraceTransmitPacket(TraceReceivePacket(trace, p.packet, p.newer), final)
    BY <1>4 DEF ServerBegin, AnswerBegin, Arrives, Due
  <2>2. p.packet.state = "BEGIN" /\ p.newer \in Nat
    BY <1>0, <2>1, HeadPackets, PacketFields
  <2>3. final.type = "ECDH" /\ final.state = "FINAL"
    BY DEF EcdhPacket
  <2>4. TraceReceivePacket(trace, p.packet, p.newer) = trace
    BY <1>0, <2>1, <2>2, TraceRowsKept
  <2>5. trace' = Bumped(trace)
    BY <1>0, <2>1, <2>2, <2>3, <2>4, TraceRowsKept
  <2>6. refresh' = refresh
    BY <1>4 DEF ServerBegin, AnswerBegin
  <2>7. trace.row # NoRow => trace'.row.newer = trace.row.newer + 1
    BY <1>0, <2>5, BumpedFacts
  <2> QED
    BY <1>2, <1>4, <2>5, <2>6, <2>7
<1>5. CASE ServerDecryptMSG
  <2> DEFINE p == Head(toServer)
  <2>1. /\ toServer # <<>> /\ p.packet.type = "MSG" /\ UNCHANGED refresh
        /\ \/ trace' = TraceTransmitPacket(TraceReceivePacket(trace, p.packet, p.newer), Msg(server.secret))
           \/ trace' = TraceReceivePacket(trace, p.packet, p.newer)
    BY <1>5 DEF ServerDecryptMSG, Arrives, Due
  <2>2. p.newer \in Nat /\ Msg(server.secret).type = "MSG"
    BY <1>0, <2>1, HeadPackets DEF Msg
  <2>3. TraceReceivePacket(trace, p.packet, p.newer) = trace
    BY <1>0, <2>1, <2>2, TraceRowsKept
  <2>4. trace' \in {trace, Bumped(trace)}
    BY <1>0, <2>1, <2>2, <2>3, TraceRowsKept
  <2> QED
    BY <1>2, <1>5, <2>1, <2>4
<1>6. CASE ClientDecryptMSG
  <2>1. /\ toClient # <<>> /\ Head(toClient).packet.type = "MSG" /\ UNCHANGED <<refresh, toServer>>
        /\ trace' = TraceReceivePacket(trace, Head(toClient).packet, Head(toClient).newer)
    BY <1>6 DEF ClientDecryptMSG, Arrives, Due
  <2>2. Head(toClient).newer \in Nat
    BY <1>0, <2>1, HeadPackets
  <2>3. trace' = trace
    BY <1>0, <2>1, <2>2, TraceRowsKept
  <2> QED
    BY <1>2, <1>6, <2>1, <2>3
<1>7. CASE ServerReadEmpty
  <2>1. toServer # <<>> /\ Head(toServer).packet.type = "EMPTY"
    BY <1>7 DEF ServerReadEmpty, Arrives, Due
  <2>2. toServer[1].packet = EmptyPacket /\ 1 \in DOMAIN toServer
    BY <1>0, <2>1, HeadPackets, PacketFields
  <2> QED
    BY <2>2
<1>8. CASE Lose
  <2>1. trace' = trace /\ refresh' = refresh
    BY <1>0, <1>8 DEF Lose, files
  <2> QED
    BY <1>2, <1>8, <2>1
<1>9. CASE Tick
  <2>1. trace' = Later(trace) /\ refresh - refresh' = 1
    BY <1>0, <1>9 DEF Tick, Advance
  <2>2. TraceUntouched /\ (trace.row # NoRow => trace'.row.newer = trace.row.newer)
    BY <1>0, <2>1, LaterFacts DEF TraceUntouched
  <2> QED
    BY <1>9, <2>2
<1> QED
  BY <1>3, <1>4, <1>5, <1>6, <1>7, <1>8, <1>9 DEF Next

-----------------------------------------------------------------------------
(* The refresh leaves time for the MSG.                                    *)

LEMMA StepQueues ==
  ASSUME TypeInv, UnusedPair, Next
  PROVE  /\ UNCHANGED <<delay, refreshTime, lossy>>
         /\ toServer' \in Seq(Entries(ToServerPackets))
         /\ toClient' \in Seq(Entries(ToClientPackets))
         /\ timers' \in Seq(0 .. MsgDelay)
         /\ UpdateKey => refresh = 0 /\ refresh' = refreshTime
         /\ ~UpdateKey => Age' = Age + (refresh - refresh') /\ refresh - refresh' \in {0, 1}
<1>1. UNCHANGED <<delay, refreshTime, lossy>>
  BY DEF Next, UpdateKey, Restart, ClientFinal, SendEncryptedMessage, ClientDecryptMSG,
         ServerBegin, AnswerBegin, ServerDecryptMSG, ServerReadEmpty, Lose, Tick, Advance, settings
<1>2. TypeOK'
  BY StepType
<1>3. /\ toServer' \in Seq(Entries(ToServerPackets))
      /\ toClient' \in Seq(Entries(ToClientPackets))
      /\ timers' \in Seq(0 .. MsgDelay)
  BY <1>1, <1>2 DEF TypeOK, Entries, ToServerPackets, ToClientPackets
<1>4. UpdateKey => refresh = 0 /\ refresh' = refreshTime
  BY DEF UpdateKey, Restart
<1>5. refresh \in Nat /\ refreshTime \in Nat
  BY Settings DEF TypeInv
<1>6. ~UpdateKey => refresh - refresh' \in {0, 1}
  BY <1>5 DEF Next, ClientFinal, SendEncryptedMessage, ClientDecryptMSG,
         ServerBegin, AnswerBegin, ServerDecryptMSG, ServerReadEmpty, Lose, Tick, Advance
<1>7. ~UpdateKey => Age' = Age + (refresh - refresh')
  BY <1>1, <1>2, <1>5, Settings DEF Age, TypeOK
<1> QED
  BY <1>1, <1>3, <1>4, <1>6, <1>7

(* A secret is two delays old when its timer is set.                       *)
LEMMA AgeAtFinal ==
  ASSUME TimeInv, FastInv, 2 * delay < refreshTime, ClientFinal
  PROVE  Age = 2 * delay
<1>1. 1 \in Ecdhs(toClient) /\ toClient[1].wait = 0 /\ client # NULL
  BY ClientFinalEcdhs DEF TimeInv
<1>2. toClient[1].packet.origin = client.pair
  BY <1>1 DEF FastInv, OneNegotiation
<1>3. delay \in Nat /\ Age \in Nat
  BY Settings DEF TimeInv, TypeInv
<1> QED
  BY <1>1, <1>2, <1>3 DEF TimeInv, OnTime

LEMMA StepTimedMsg ==
  ASSUME TimeInv, UnusedPair, FastInv, TimedMsg, 2 * delay + MsgDelay < refreshTime, Next
  PROVE  TimedMsg'
<1>0. /\ delay \in Nat /\ MsgDelay \in Nat \ {0} /\ refreshTime \in Nat /\ Age \in Nat
      /\ refresh \in Nat /\ 2 * delay < refreshTime /\ TypeInv
      /\ toServer \in Seq(Entries(ToServerPackets))
      /\ DOMAIN timers = 1 .. Len(timers) /\ Len(timers) \in Nat
      /\ \A i \in DOMAIN timers : timers[i] \in 0 .. MsgDelay
      /\ timers = <<>> <=> Len(timers) = 0
      /\ timers \in Seq(0 .. MsgDelay)
  BY Settings, SequenceFacts DEF TimeInv, TypeInv, TypeOK
<1>1. /\ delay' = delay /\ toServer' \in Seq(Entries(ToServerPackets))
      /\ UpdateKey => refresh = 0
      /\ ~UpdateKey => Age' = Age + (refresh - refresh')
  BY <1>0, StepQueues
<1>2. ASSUME NEW i \in DOMAIN toServer'
      PROVE  /\ toServer'[i].packet # EmptyPacket
             /\ toServer'[i].packet.type = "MSG" => toServer'[i].packet.key # NoKey
  <2>1. CASE \E k, n \in {0, 1} : Becomes(toServer, toServer', k, n, refresh - refresh')
    <3>1. PICK k \in {0, 1}, n \in {0, 1} : Becomes(toServer, toServer', k, n, refresh - refresh')
      BY <2>1
    <3>2. i + k \in DOMAIN toServer /\ toServer'[i].packet = toServer[i + k].packet
      BY <1>0, <1>1, <1>2, <3>1, EntriesKept
    <3> QED
      BY <3>2 DEF TimedMsg
  <2>2. CASE UpdateKey /\ BecomesWith(toServer, toServer', EcdhPacket("BEGIN", FreshPair, FreshPair))
    <3>1. \/ i \in DOMAIN toServer /\ toServer'[i].packet = toServer[i].packet
          \/ toServer'[i].packet = EcdhPacket("BEGIN", FreshPair, FreshPair)
      BY <1>0, <1>1, <1>2, <2>2, EntriesSent
    <3>2. /\ EcdhPacket("BEGIN", FreshPair, FreshPair) # EmptyPacket
          /\ EcdhPacket("BEGIN", FreshPair, FreshPair).type # "MSG"
      BY DEF EcdhPacket, EmptyPacket
    <3> QED
      BY <3>1, <3>2 DEF TimedMsg
  <2>3. CASE /\ SendEncryptedMessage
             /\ \E m \in EncryptedMessages(client.secret) : BecomesWith(toServer, toServer', m)
    <3>1. PICK m \in EncryptedMessages(client.secret) : BecomesWith(toServer, toServer', m)
      BY <2>3
    <3>2. Keyed(client)
      BY <2>3 DEF TimedMsg, SendEncryptedMessage
    <3>3. m # EmptyPacket /\ (m.type = "MSG" => m.key # NoKey)
      BY <3>1, <3>2 DEF Keyed, EncryptedMessages, Msg, EmptyPacket
    <3>4. \/ i \in DOMAIN toServer /\ toServer'[i].packet = toServer[i].packet
          \/ toServer'[i].packet = m
      BY <1>0, <1>1, <1>2, <3>1, EntriesSent
    <3> QED
      BY <3>3, <3>4 DEF TimedMsg
  <2> QED
    BY <1>0, <2>1, <2>2, <2>3, ToServerStep
<1>3. CASE UpdateKey
  <2>1. timers' = timers /\ Age = refreshTime
    BY <1>0, <1>1, <1>3 DEF UpdateKey, Age
  <2>2. timers = <<>>
    <3>1. \A i \in DOMAIN timers : timers[i] < 0
      BY <1>0, <2>1 DEF TimedMsg
    <3>2. timers # <<>> => 1 \in DOMAIN timers
      BY <1>0
    <3> QED
      BY <1>0, <3>1, <3>2
  <2> QED
    BY <1>0, <1>2, <2>1, <2>2 DEF TimedMsg
<1>4. CASE ClientFinal
  <2>1. /\ timers' = Append(timers, MsgDelay) /\ Keyed(client') /\ refresh' = refresh
    BY <1>4, ClientFinalEcdhs DEF TimeInv
  <2>2. Age = 2 * delay
    BY <1>0, <1>4, AgeAtFinal
  <2>4. Age' = Age
    BY <1>0, <2>1, StepQueues DEF Age
  <2>5. \A i \in DOMAIN timers' : timers'[i] = 2 * delay + MsgDelay - Age
    <3>1. /\ DOMAIN timers' = 1 .. Len(timers) + 1 /\ timers'[Len(timers) + 1] = MsgDelay
          /\ \A i \in 1 .. Len(timers) : timers'[i] = timers[i]
      BY <1>0, <2>1, AppendProperties
    <3>2. MsgDelay = 2 * delay + MsgDelay - Age
      BY <1>0, <2>2
    <3>3. \A i \in 1 .. Len(timers) : timers[i] = 2 * delay + MsgDelay - Age
      BY <1>0 DEF TimedMsg
    <3>4. \A i \in DOMAIN timers' : i \in 1 .. Len(timers) \/ i = Len(timers) + 1
      BY <1>0, <3>1
    <3> QED
      BY <3>1, <3>2, <3>3, <3>4
  <2> QED
    BY <1>1, <1>2, <2>1, <2>4, <2>5 DEF TimedMsg
<1>5. CASE SendEncryptedMessage
  <2>1. timers # <<>> /\ timers' = Tail(timers) /\ client' = client /\ refresh' = refresh
    BY <1>5 DEF SendEncryptedMessage
  <2>2. Age' = Age
    BY <1>0, <2>1, StepQueues DEF Age
  <2>3. /\ DOMAIN timers' = 1 .. Len(timers) - 1
        /\ \A i \in 1 .. Len(timers) - 1 : timers'[i] = timers[i + 1] /\ i + 1 \in DOMAIN timers
    BY <1>0, <2>1
  <2> QED
    BY <1>1, <1>2, <2>1, <2>2, <2>3 DEF TimedMsg, Keyed
<1>6. CASE Tick
  <2>1. /\ timers' = [i \in DOMAIN timers |-> timers[i] - 1] /\ client' = client
        /\ refresh - refresh' = 1 /\ Age' = Age + 1
    BY <1>0, <1>1, <1>6 DEF Tick, Advance, UpdateKey, Restart
  <2>2. \A i \in DOMAIN timers' : timers'[i] = 2 * delay + MsgDelay - Age'
    BY <1>0, <2>1 DEF TimedMsg
  <2>3. timers' # <<>> => timers # <<>>
    BY <2>1
  <2> QED
    BY <1>1, <1>2, <2>1, <2>2, <2>3 DEF TimedMsg, Keyed
<1>7. CASE ClientDecryptMSG \/ ServerBegin \/ ServerDecryptMSG \/ ServerReadEmpty \/ Lose
  <2>1. timers' = timers /\ client' = client /\ refresh' = refresh
    BY <1>7 DEF ClientDecryptMSG, ServerBegin, AnswerBegin, ServerDecryptMSG, ServerReadEmpty, Lose
  <2>2. Age' = Age
    BY <1>0, <1>1, <2>1, StepQueues DEF Age
  <2> QED
    BY <1>1, <1>2, <2>1, <2>2 DEF TimedMsg, Keyed
<1> QED
  BY <1>3, <1>4, <1>5, <1>6, <1>7 DEF Next

LEMMA StepTraceRows ==
  ASSUME TimeInv, UnusedPair, FastInv, MsgInv, 2 * delay + MsgDelay < refreshTime, Next
  PROVE  TraceRowAge' /\ (~lossy => TraceRowAwaitsFinal') /\ PlotTimesNegotiations'
<1>0. /\ delay \in Nat /\ MsgDelay \in Nat \ {0} /\ refreshTime \in Nat /\ Age \in Nat
      /\ refresh \in Nat /\ 2 * delay < refreshTime /\ TypeInv
      /\ UNCHANGED <<delay, refreshTime, lossy>>
  <2>1. TypeInv
    BY DEF TimeInv
  <2>2. /\ delay \in Nat /\ MsgDelay \in Nat \ {0} /\ refreshTime \in Nat /\ Age \in Nat
        /\ refresh \in Nat
    BY <2>1, TimesAreNumbers DEF TypeInv
  <2>3. 2 * delay < refreshTime
    BY <2>2
  <2>4. UNCHANGED <<delay, refreshTime, lossy>>
    BY <2>1, StepQueues
  <2> QED
    BY <2>1, <2>2, <2>3, <2>4
<1>1. /\ TimedMsg /\ TraceRowAge /\ (~lossy => TraceRowAwaitsFinal)
      /\ trace.pair # NoRow =>
           /\ ~lossy => trace.pair.states = <<"BEGIN", "FINAL">>
           /\ trace.pair.states = <<"BEGIN", "FINAL">> => trace.pair.time = 2 * delay
  BY DEF MsgInv, PlotTimesNegotiations
<1>2. CASE UpdateKey
  <2>1. /\ client' # NULL /\ refresh = 0 /\ refresh' = refreshTime
        /\ Len(toServer') \in Ecdhs(toServer')
    BY <1>0, <1>2, UpdateKeyEcdhs DEF OneSent
  <2>2. Ecdhs(toServer) = {} /\ Ecdhs(toClient) = {}
    BY <1>0, <2>1, NothingAtRefresh
  <2>3. Age' = 0
    BY <1>0, <2>1 DEF Age
  <2>4. CASE trace.row = NoRow
    <3>1. /\ trace'.row.state = "BEGIN" /\ trace'.row.age = 0
          /\ trace'.row # NoRow /\ trace'.pair = trace.pair
      BY <1>0, <1>2, <2>4, TraceAtBegin
    <3> QED
      BY <1>0, <1>1, <2>1, <2>3, <3>1 DEF TraceRowAge, TraceRowAwaitsFinal, PlotTimesNegotiations
  <2>5. CASE trace.row # NoRow
    <3>1. lossy
      BY <1>1, <2>2, <2>5 DEF TraceRowAwaitsFinal
    <3>2. trace'.row = NoRow /\ trace'.pair.states = <<trace.row.state, "BEGIN">>
      BY <1>0, <1>2, <2>5, TraceAtBegin
    <3> QED
      BY <1>0, <3>1, <3>2 DEF TraceRowAge, PlotTimesNegotiations
  <2> QED
    BY <2>4, <2>5
<1>3. CASE ClientFinal
  <2>1. Age = 2 * delay /\ refresh' = refresh /\ 1 \in Ecdhs(toClient)
    BY <1>0, <1>3, AgeAtFinal, ClientFinalEcdhs
  <2>2. Ecdhs(toServer') = {} /\ Ecdhs(toClient') = {}
    <3>1. Keyed(client') /\ FastInv'
      BY <1>0, <1>3, ClientFinalEcdhs, StepFastInv
    <3> QED
      BY <1>0, <3>1 DEF FastInv, OneNegotiation
  <2>3. CASE trace.row = NoRow
    <3>1. trace'.row.state = "FINAL" /\ trace'.row # NoRow /\ trace'.pair = trace.pair
      BY <1>0, <1>3, <2>3, TraceAtFinal
    <3>2. lossy
      BY <1>1, <2>1, <2>3 DEF TraceRowAwaitsFinal
    <3> QED
      BY <1>0, <1>1, <3>1, <3>2 DEF TraceRowAge, PlotTimesNegotiations
  <2>4. CASE trace.row # NoRow
    <3>1. /\ trace'.row = NoRow /\ trace'.pair.states = <<trace.row.state, "FINAL">>
          /\ trace'.pair.time = trace.row.age
      BY <1>0, <1>3, <2>4, TraceAtFinal
    <3>2. trace.row.state = "BEGIN" => trace.row.age = 2 * delay
      BY <1>1, <2>1, <2>4 DEF TraceRowAge
    <3>3. ~lossy => trace.row.state = "BEGIN"
      BY <1>1, <2>4 DEF TraceRowAwaitsFinal
    <3> QED
      BY <1>0, <2>2, <3>1, <3>2, <3>3 DEF TraceRowAge, TraceRowAwaitsFinal, PlotTimesNegotiations
  <2> QED
    BY <2>3, <2>4
<1>4. CASE ~UpdateKey /\ ~ClientFinal
  <2>1. TraceUntouched
    <3>1. SendEncryptedMessage => client.secret # NoKey
      BY <1>1 DEF SendEncryptedMessage, TimedMsg, Keyed
    <3>2. \A i \in DOMAIN toServer : toServer[i].packet # EmptyPacket
      BY <1>1 DEF TimedMsg
    <3> QED
      BY <1>0, <1>4, <3>1, <3>2, TraceElse
  <2>2. Age' = Age + (refresh - refresh')
    BY <1>0, <1>4, StepQueues
  <2>3. /\ client' = client
        /\ ~lossy => (Ecdhs(toServer') # {} \/ Ecdhs(toClient') # {}
                        <=> Ecdhs(toServer) # {} \/ Ecdhs(toClient) # {})
    <3>1. CASE ServerBegin
      BY <1>0, <3>1, ServerBeginEcdhs DEF OneSent
    <3>2. CASE OtherStep
      BY <1>0, <3>2, OtherSteps DEF EcdhsUntouched, NoNewEcdh, NoEcdhLost
    <3> QED
      BY <1>4, <3>1, <3>2 DEF Next, OtherStep
  <2>4. TraceRowAge'
    BY <1>1, <2>1, <2>2, <2>3 DEF TraceUntouched, TraceRowAge
  <2>5. ~lossy => TraceRowAwaitsFinal'
    BY <1>1, <2>1, <2>3 DEF TraceUntouched, TraceRowAwaitsFinal
  <2>6. PlotTimesNegotiations'
    BY <1>0, <1>1, <2>1 DEF TraceUntouched, PlotTimesNegotiations
  <2> QED
    BY <2>4, <2>5, <2>6
<1> QED
  BY <1>2, <1>3, <1>4

LEMMA InitMsgInv == Init => MsgInv
BY DEF Init, MsgInv, TimedMsg, TraceRowAge, TraceRowAwaitsFinal, PlotTimesNegotiations,
       NewFile, Ecdhs

LEMMA StepMsgInv ==
  TimeInv /\ UnusedPair /\ FastInv /\ MsgInv /\ [Next]_vars => MsgInv'
<1> SUFFICES ASSUME TimeInv, UnusedPair, FastInv, MsgInv, [Next]_vars
             PROVE  MsgInv'
  OBVIOUS
<1>1. CASE UNCHANGED vars
  BY <1>1 DEF vars, settings, files, MsgInv, TimedMsg, TraceRowAge, TraceRowAwaitsFinal,
              PlotTimesNegotiations, Age, Keyed, Ecdhs
<1>2. CASE Next
  <2>1. UNCHANGED <<delay, refreshTime, lossy>>
    BY <1>2, StepQueues DEF TimeInv
  <2>2. CASE 2 * delay + MsgDelay < refreshTime
    <3>1. TimedMsg'
      BY <1>2, <2>2, StepTimedMsg DEF MsgInv
    <3>2. TraceRowAge' /\ (~lossy => TraceRowAwaitsFinal') /\ PlotTimesNegotiations'
      BY <1>2, <2>2, StepTraceRows
    <3> QED
      BY <2>1, <3>1, <3>2 DEF MsgInv
  <2> QED
    BY <2>1, <2>2 DEF MsgInv
<1> QED
  BY <1>1, <1>2

(* A refresh longer than two delays and the wait of the MSG: when Send-    *)
(* EncryptedMessage runs it finds a key, and no packet without data is     *)
(* ever sent.                                                              *)
THEOREM MsgsAreKeyed == Spec /\ []UnusedPair => []MsgUnderCurrentKey
<1>1. TimeInv /\ FastInv /\ MsgInv => MsgUnderCurrentKey
  BY DEF MsgInv, TimedMsg, MsgUnderCurrentKey, Range
<1> QED
  BY <1>1, InitTimeInv, StepTimeInv, InitFastInv, StepFastInv, InitMsgInv, StepMsgInv, PTL DEF Spec

(* Then the plot is made of negotiations, two delays long; after losses it *)
(* takes nothing for a negotiation that is none.                           *)
THEOREM PlotIsOfNegotiations == Spec /\ []UnusedPair => []PlotTimesNegotiations
<1>1. TimeInv /\ FastInv /\ MsgInv => PlotTimesNegotiations
  BY DEF MsgInv, PlotTimesNegotiations
<1> QED
  BY <1>1, InitTimeInv, StepTimeInv, InitFastInv, StepFastInv, InitMsgInv, StepMsgInv, PTL DEF Spec

(* The first BEGIN: without losses it reaches the server.                  *)

LEMMA InitFirstBegin == Init => FirstBegin
BY DEF Init, FirstBegin

LEMMA StepFirstBegin ==
  TimeInv /\ UnusedPair /\ FirstBegin /\ [Next]_vars => FirstBegin'
<1> SUFFICES ASSUME TypeInv, UnusedPair, FirstBegin, [Next]_vars
             PROVE  FirstBegin'
  BY DEF TimeInv
<1>1. CASE UNCHANGED vars
  BY <1>1 DEF vars, settings, FirstBegin, Ecdhs
<1>2. CASE UpdateKey
  BY <1>2, UpdateKeyEcdhs DEF OneSent, FirstBegin
<1>3. CASE ClientFinal
  BY <1>3, ClientFinalEcdhs DEF FirstBegin
<1>4. CASE ServerBegin
  BY <1>4, ServerBeginEcdhs DEF FirstBegin
<1>5. CASE OtherStep
  <2> SUFFICES ASSUME ~lossy', client' # NULL, server' = NULL
               PROVE  Ecdhs(toServer') # {}
    BY DEF FirstBegin
  <2>1. EcdhsUntouched
    BY <1>5, OtherSteps
  <2>2. \E k \in {0, 1} : NoEcdhLost(toServer, toServer', k)
    BY <2>1 DEF EcdhsUntouched
  <2>3. Ecdhs(toServer) # {}
    BY <2>1 DEF EcdhsUntouched, FirstBegin
  <2> QED
    BY <2>2, <2>3 DEF NoEcdhLost
<1> QED
  BY <1>1, <1>2, <1>3, <1>4, <1>5 DEF Next, OtherStep

(* And a run without losses that stops at a refresh leaves two files from  *)
(* which both scripts read to the end, unless it stops at the first: that  *)
(* one precedes Simulator::Stop, and its BEGIN is a row without a partner. *)
THEOREM FilesAreWhole == Spec /\ []UnusedPair => []FilesEndInPairs
<1>1. TimeInv /\ FastInv /\ MsgInv /\ FirstBegin => FilesEndInPairs
  <2> SUFFICES ASSUME TimeInv, FastInv, MsgInv, FirstBegin,
                      2 * delay + MsgDelay < refreshTime, ~lossy
               PROVE  /\ refresh = 0 => keyFile.row = NoRow /\ trace.row = NoRow
                      /\ client # NULL /\ server = NULL =>
                           keyFile.row = NoRow /\ trace.row # NoRow
    BY DEF FilesEndInPairs, StopsAtFirstRefresh, StopsAtLaterRefresh, EndsInIndexError
  <2>1. 2 * delay < refreshTime
    BY Settings DEF TimeInv, TypeInv
  <2>2. /\ keyFile.row # NoRow <=> Ecdhs(toClient) # {}
        /\ trace.row # NoRow <=> Ecdhs(toServer) # {} \/ Ecdhs(toClient) # {}
    BY <2>1 DEF FastInv, RowAwaitsFinal, MsgInv, TraceRowAwaitsFinal
  <2>3. ASSUME refresh = 0
        PROVE  Ecdhs(toServer) = {} /\ Ecdhs(toClient) = {}
    BY <2>1, <2>3, NothingAtRefresh
  <2>4. ASSUME client # NULL, server = NULL
        PROVE  Ecdhs(toServer) # {} /\ Ecdhs(toClient) = {}
    <3>1. toClient = <<>>
      BY <2>4 DEF TimeInv, TypeInv, Causes
    <3> QED
      BY <2>4, <3>1 DEF FirstBegin, Ecdhs
  <2> QED
    BY <2>2, <2>3, <2>4
<1> QED
  BY <1>1, InitTimeInv, StepTimeInv, InitFastInv, StepFastInv, InitMsgInv, StepMsgInv,
     InitFirstBegin, StepFirstBegin, PTL DEF Spec

-----------------------------------------------------------------------------
(* The refresh leaves time for the MSG to arrive, and for the reply.       *)

LEMMA OneInFlight ==
  ASSUME TimeInv, FastInv, 2 * delay < refreshTime
  PROVE  Ecdhs(toServer) = {} \/ Ecdhs(toClient) = {}
<1> SUFFICES ASSUME NEW i \in Ecdhs(toServer), NEW j \in Ecdhs(toClient)
             PROVE  FALSE
  OBVIOUS
<1>1. client # NULL
  BY DEF TimeInv, TypeInv, Causes, Ecdhs
<1>2. toServer[i].packet.pub = client.pair /\ toClient[j].packet.origin = client.pair
  BY <1>1 DEF FastInv, OneNegotiation
<1> QED
  BY <1>2 DEF TimeInv, NamesInv, DistinctPubs

LEMMA StepMsgsInTime ==
  ASSUME TimeInv, UnusedPair, FastInv, MsgInv, MsgsInTime,
         3 * delay + MsgDelay < refreshTime, Next,
         NEW i \in Msgs(toServer')
  PROVE  /\ toServer'[i].wait = 3 * delay + MsgDelay - Age'
         /\ Keyed(client') /\ toServer'[i].packet.key = client'.secret
<1>0. /\ delay \in Nat /\ MsgDelay \in Nat \ {0} /\ refreshTime \in Nat /\ Age \in Nat
      /\ refresh \in Nat /\ TypeInv /\ refreshTime' = refreshTime
      /\ 2 * delay < refreshTime /\ 2 * delay + MsgDelay < refreshTime
      /\ toServer \in Seq(Entries(ToServerPackets))
      /\ toServer' \in Seq(Entries(ToServerPackets))
      /\ ~UpdateKey => Age' = Age + (refresh - refresh')
  <2>1. TypeInv
    BY DEF TimeInv
  <2>2. /\ delay \in Nat /\ MsgDelay \in Nat \ {0} /\ refreshTime \in Nat /\ Age \in Nat
        /\ refresh \in Nat
    BY <2>1, TimesAreNumbers DEF TypeInv
  <2>3. 2 * delay < refreshTime /\ 2 * delay + MsgDelay < refreshTime
    BY <2>2
  <2>4. /\ refreshTime' = refreshTime /\ toServer' \in Seq(Entries(ToServerPackets))
        /\ ~UpdateKey => Age' = Age + (refresh - refresh')
    BY <2>1, StepQueues
  <2>5. toServer \in Seq(Entries(ToServerPackets))
    BY <2>1, Settings DEF TypeInv
  <2> QED
    BY <2>1, <2>2, <2>3, <2>4, <2>5
<1>1. \A j \in Msgs(toServer) :
        /\ toServer[j].wait = 3 * delay + MsgDelay - Age /\ toServer[j].wait \in 0 .. delay
        /\ Keyed(client) /\ toServer[j].packet.key = client.secret
  BY <1>0, EntryFacts DEF MsgsInTime, Msgs
<1>2. i \in DOMAIN toServer' /\ toServer'[i].packet.type = "MSG"
  BY DEF Msgs
<1>3. CASE UpdateKey
  <2>1. \/ i \in DOMAIN toServer /\ toServer'[i].packet = toServer[i].packet
        \/ toServer'[i].packet = EcdhPacket("BEGIN", FreshPair, FreshPair)
    BY <1>0, <1>2, <1>3, UpdateKeyQueues, EntriesSent DEF TypeInv
  <2>2. i \in Msgs(toServer)
    BY <1>2, <2>1 DEF Msgs, EcdhPacket
  <2>3. Age = refreshTime
    BY <1>0, <1>3, StepQueues DEF Age
  <2>4. toServer[i].wait = 3 * delay + MsgDelay - Age /\ toServer[i].wait \in 0 .. delay
    BY <1>1, <2>2
  <2> QED
    BY <1>0, <2>3, <2>4
<1>4. CASE SendEncryptedMessage
  <2>1. /\ timers # <<>> /\ Head(timers) = 0 /\ client' = client /\ refresh' = refresh
    BY <1>4 DEF SendEncryptedMessage
  <2>2. 1 \in DOMAIN timers /\ timers[1] = 0
    BY <2>1, SequenceFacts DEF TimeInv, TypeInv, TypeOK
  <2>3. Age = 2 * delay + MsgDelay /\ Keyed(client) /\ Age' = Age
    <3>1. Age' = Age
      BY <1>0, <2>1 DEF Age
    <3>2. timers[1] = 2 * delay + MsgDelay - Age /\ Keyed(client)
      BY <1>0, <2>1, <2>2 DEF MsgInv, TimedMsg
    <3> QED
      BY <1>0, <2>2, <3>1, <3>2
  <2>4. PICK m \in EncryptedMessages(client.secret) : toServer' = Send(toServer, m)
    BY <1>4 DEF SendEncryptedMessage
  <2>5. m = Msg(client.secret)
    BY <2>3, <2>4 DEF Keyed, EncryptedMessages
  <2>6. m \in ToServerPackets
    <3>1. client.secret \in Secrets \cup {NoKey}
      BY <2>3 DEF TimeInv, TypeInv, TypeOK, Keyed, ECDHs
    <3> QED
      BY <2>5, <3>1 DEF Msg, ToServerPackets, MsgPackets
  <2>7. \/ /\ i \in DOMAIN toServer /\ toServer'[i].packet = toServer[i].packet
           /\ toServer'[i].wait = toServer[i].wait
        \/ toServer'[i].packet = m /\ toServer'[i].wait = delay
    BY <1>0, <1>2, <2>4, <2>6, SentQueue, EntriesSent
  <2>8. CASE toServer'[i].packet = m /\ toServer'[i].wait = delay
    BY <1>0, <2>1, <2>3, <2>5, <2>8 DEF Msg
  <2>9. CASE /\ i \in DOMAIN toServer /\ toServer'[i].packet = toServer[i].packet
             /\ toServer'[i].wait = toServer[i].wait
    <3>1. i \in Msgs(toServer)
      BY <1>2, <2>9 DEF Msgs
    <3> QED
      BY <1>1, <2>1, <2>3, <2>9, <3>1
  <2> QED
    BY <2>7, <2>8, <2>9
<1>5. CASE ~UpdateKey /\ ~SendEncryptedMessage
  <2>1. PICK k \in {0, 1}, n \in {0, 1} : Becomes(toServer, toServer', k, n, refresh - refresh')
    BY <1>0, <1>5, ToServerStep
  <2>2. /\ i + k \in DOMAIN toServer /\ toServer'[i].packet = toServer[i + k].packet
        /\ toServer'[i].wait = toServer[i + k].wait - (refresh - refresh')
    BY <1>0, <1>2, <2>1, EntriesKept
  <2>3. i + k \in Msgs(toServer)
    BY <1>2, <2>2 DEF Msgs
  <2>4. client' = client
    <3>1. CASE ClientFinal
      <4>1. Ecdhs(toClient) # {}
        BY <1>0, <3>1, ClientFinalEcdhs
      <4>2. Keyed(client)
        BY <1>1, <2>3
      <4> QED
        BY <1>0, <4>1, <4>2 DEF FastInv, OneNegotiation
    <3>2. CASE ServerBegin
      BY <1>0, <3>2, ServerBeginEcdhs
    <3>3. CASE OtherStep
      BY <1>0, <3>3, OtherSteps DEF EcdhsUntouched
    <3> QED
      BY <1>5, <3>1, <3>2, <3>3 DEF Next, OtherStep
  <2>5. refresh - refresh' \in Int
    BY <1>5, <1>0, StepQueues
  <2>6. Age' = Age + (refresh - refresh')
    BY <1>0, <1>5
  <2>7. /\ toServer[i + k].wait = 3 * delay + MsgDelay - Age
        /\ Keyed(client) /\ toServer[i + k].packet.key = client.secret
    BY <1>1, <2>3
  <2>8. toServer'[i].wait = 3 * delay + MsgDelay - Age'
    BY <1>0, <2>2, <2>5, <2>6, <2>7
  <2> QED
    BY <2>2, <2>4, <2>7, <2>8
<1> QED
  BY <1>3, <1>4, <1>5

LEMMA StepRepliesInTime ==
  ASSUME TimeInv, UnusedPair, FastInv, MsgInv, MsgsInTime, RepliesInTime,
         4 * delay + MsgDelay < refreshTime, Next,
         NEW i \in Msgs(toClient')
  PROVE  /\ toClient'[i].wait = 4 * delay + MsgDelay - Age'
         /\ Keyed(client') /\ toClient'[i].packet.key = client'.secret
<1>0. /\ delay \in Nat /\ MsgDelay \in Nat \ {0} /\ refreshTime \in Nat /\ Age \in Nat
      /\ refresh \in Nat /\ TypeInv /\ refreshTime' = refreshTime
      /\ 2 * delay < refreshTime /\ 3 * delay + MsgDelay < refreshTime
      /\ toClient \in Seq(Entries(ToClientPackets))
      /\ toClient' \in Seq(Entries(ToClientPackets))
      /\ ~UpdateKey => Age' = Age + (refresh - refresh')
  <2>1. TypeInv
    BY DEF TimeInv
  <2>2. /\ delay \in Nat /\ MsgDelay \in Nat \ {0} /\ refreshTime \in Nat /\ Age \in Nat
        /\ refresh \in Nat
    BY <2>1, TimesAreNumbers DEF TypeInv
  <2>3. 2 * delay < refreshTime /\ 3 * delay + MsgDelay < refreshTime
    BY <2>2
  <2>4. /\ refreshTime' = refreshTime /\ toClient' \in Seq(Entries(ToClientPackets))
        /\ ~UpdateKey => Age' = Age + (refresh - refresh')
    BY <2>1, StepQueues
  <2>5. toClient \in Seq(Entries(ToClientPackets))
    BY <2>1, Settings DEF TypeInv
  <2> QED
    BY <2>1, <2>2, <2>3, <2>4, <2>5
<1>1. \A j \in Msgs(toClient) :
        /\ toClient[j].wait = 4 * delay + MsgDelay - Age /\ toClient[j].wait \in 0 .. delay
        /\ Keyed(client) /\ toClient[j].packet.key = client.secret
  BY <1>0, EntryFacts DEF RepliesInTime, Msgs
<1>2. i \in DOMAIN toClient' /\ toClient'[i].packet.type = "MSG"
  BY DEF Msgs
<1>3. CASE UpdateKey
  <2>1. i + 0 \in DOMAIN toClient /\ toClient'[i].packet = toClient[i + 0].packet
    BY <1>0, <1>2, <1>3, UpdateKeyQueues, EntriesKept DEF TypeInv
  <2>2. i + 0 \in Msgs(toClient)
    BY <1>2, <2>1 DEF Msgs
  <2>3. Age = refreshTime
    BY <1>0, <1>3, StepQueues DEF Age
  <2>4. toClient[i + 0].wait = 4 * delay + MsgDelay - Age /\ toClient[i + 0].wait \in 0 .. delay
    BY <1>1, <2>2
  <2> QED
    BY <1>0, <2>3, <2>4
<1>4. CASE /\ ServerBegin
           /\ BecomesWith(toClient, toClient', EcdhPacket("FINAL", FreshPair, toServer[1].packet.pub))
  <2>1. \/ /\ i \in DOMAIN toClient /\ toClient'[i].packet = toClient[i].packet
           /\ toClient'[i].wait = toClient[i].wait
        \/ toClient'[i].packet = EcdhPacket("FINAL", FreshPair, toServer[1].packet.pub)
    BY <1>0, <1>2, <1>4, EntriesSent
  <2>2. i \in Msgs(toClient) /\ toClient'[i].packet = toClient[i].packet
        /\ toClient'[i].wait = toClient[i].wait
    BY <1>2, <2>1 DEF Msgs, EcdhPacket
  <2>3. client' = client /\ Age' = Age
    BY <1>0, <1>4, ServerBeginEcdhs DEF Age
  <2> QED
    BY <1>1, <2>2, <2>3
<1>5. CASE ServerDecryptMSG /\ BecomesWith(toClient, toClient', Msg(server.secret))
  <2>1. client' = client /\ Age' = Age
    BY <1>0, <1>5 DEF ServerDecryptMSG, Age
  <2>2. 1 \in Msgs(toServer) /\ toServer[1].wait = 0
    BY <1>0, <1>5, HeadPackets DEF ServerDecryptMSG, Arrives, Due, Msgs, TypeInv
  <2>3. Age = 3 * delay + MsgDelay /\ Keyed(client) /\ client.secret = server.secret
    <3>1. toServer[1].wait = 3 * delay + MsgDelay - Age /\ Keyed(client)
      BY <1>0, <2>2 DEF MsgsInTime
    <3>2. client.secret = server.secret
      <4>1. OneNegotiation
        BY <1>0 DEF FastInv
      <4> QED
        BY <3>1, <4>1 DEF OneNegotiation
    <3>3. toServer[1].wait = 0 /\ Age \in Nat /\ delay \in Nat /\ MsgDelay \in Nat
      BY <1>0, <2>2
    <3> QED
      BY <3>1, <3>2, <3>3
  <2>4. \/ /\ i \in DOMAIN toClient /\ toClient'[i].packet = toClient[i].packet
           /\ toClient'[i].wait = toClient[i].wait
        \/ toClient'[i].packet = Msg(server.secret) /\ toClient'[i].wait = delay
    BY <1>0, <1>2, <1>5, EntriesSent
  <2>5. CASE toClient'[i].packet = Msg(server.secret) /\ toClient'[i].wait = delay
    <3>1. toClient'[i].wait = 4 * delay + MsgDelay - Age'
      BY <1>0, <2>1, <2>3, <2>5
    <3>2. toClient'[i].packet.key = client.secret
      BY <2>3, <2>5 DEF Msg
    <3> QED
      BY <2>1, <2>3, <3>1, <3>2
  <2>6. CASE /\ i \in DOMAIN toClient /\ toClient'[i].packet = toClient[i].packet
             /\ toClient'[i].wait = toClient[i].wait
    <3>1. i \in Msgs(toClient)
      BY <1>2, <2>6 DEF Msgs
    <3> QED
      BY <1>1, <2>1, <2>6, <3>1
  <2> QED
    BY <2>4, <2>5, <2>6
<1>6. CASE SendEncryptedMessage /\ refresh' = refresh /\ Becomes(toClient, toClient', 0, 1, 0)
  <2>1. /\ i + 0 \in DOMAIN toClient /\ toClient'[i].packet = toClient[i + 0].packet
        /\ toClient'[i].wait = toClient[i + 0].wait - 0
    BY <1>0, <1>2, <1>6, EntriesKept
  <2>2. i + 0 \in Msgs(toClient)
    BY <1>2, <2>1 DEF Msgs
  <2>3. client' = client /\ Age' = Age
    BY <1>0, <1>6 DEF SendEncryptedMessage, Age
  <2> QED
    BY <1>0, <1>1, <2>1, <2>2, <2>3
<1>7. CASE /\ ~UpdateKey /\ ~SendEncryptedMessage /\ ~ServerBegin
           /\ \E l \in {0, 1} : Becomes(toClient, toClient', l, 0, refresh - refresh')
  <2>1. PICK l \in {0, 1} : Becomes(toClient, toClient', l, 0, refresh - refresh')
    BY <1>7
  <2>2. /\ i + l \in DOMAIN toClient /\ toClient'[i].packet = toClient[i + l].packet
        /\ toClient'[i].wait = toClient[i + l].wait - (refresh - refresh')
    BY <1>0, <1>2, <2>1, EntriesKept
  <2>3. i + l \in Msgs(toClient)
    BY <1>2, <2>2 DEF Msgs
  <2>4. client' = client
    <3>1. CASE ClientFinal
      <4>1. Ecdhs(toClient) # {}
        BY <1>0, <3>1, ClientFinalEcdhs
      <4>2. Keyed(client)
        BY <1>1, <2>3
      <4> QED
        BY <1>0, <4>1, <4>2 DEF FastInv, OneNegotiation
    <3>2. CASE OtherStep
      BY <1>0, <3>2, OtherSteps DEF EcdhsUntouched
    <3> QED
      BY <1>7, <3>1, <3>2 DEF Next, OtherStep
  <2>5. refresh - refresh' \in Int
    BY <1>7, <1>0, StepQueues
  <2>6. Age' = Age + (refresh - refresh')
    BY <1>0, <1>7
  <2>7. /\ toClient[i + l].wait = 4 * delay + MsgDelay - Age
        /\ Keyed(client) /\ toClient[i + l].packet.key = client.secret
    BY <1>1, <2>3
  <2>8. toClient'[i].wait = 4 * delay + MsgDelay - Age'
    BY <1>0, <2>2, <2>5, <2>6, <2>7
  <2> QED
    BY <2>2, <2>4, <2>7, <2>8
<1> QED
  BY <1>0, <1>3, <1>4, <1>5, <1>6, <1>7, ToClientStep

(* What counts the packets: no packet is created between BEGIN and FINAL.  *)
Counted ==
  /\ \A i \in Ecdhs(toServer) : trace.row.newer = 0
  /\ \A j \in Ecdhs(toClient) : trace.row.newer = toClient[j].newer + 1
  /\ trace.pair # NoRow => trace.pair.packets = 2

LEMMA StepCounted ==
  ASSUME TimeInv, UnusedPair, FastInv, MsgInv, MsgsInTime, Counted,
         3 * delay + MsgDelay < refreshTime, ~lossy, Next
  PROVE  Counted'
<1>0. /\ delay \in Nat /\ MsgDelay \in Nat \ {0} /\ refreshTime \in Nat
      /\ TypeInv /\ TypeOK /\ InOrder /\ UNCHANGED <<delay, refreshTime, lossy>>
      /\ 2 * delay < refreshTime /\ 2 * delay + MsgDelay < refreshTime
      /\ toClient \in Seq(Entries(ToClientPackets))
      /\ toClient' \in Seq(Entries(ToClientPackets))
  <2>1. TypeInv
    BY DEF TimeInv
  <2>2. /\ delay \in Nat /\ MsgDelay \in Nat \ {0} /\ refreshTime \in Nat /\ Age \in Nat
        /\ refresh \in Nat
    BY <2>1, TimesAreNumbers DEF TypeInv
  <2>3. 2 * delay < refreshTime /\ 2 * delay + MsgDelay < refreshTime
    BY <2>2
  <2>4. UNCHANGED <<delay, refreshTime, lossy>> /\ toClient' \in Seq(Entries(ToClientPackets))
    BY <2>1, StepQueues
  <2>5. toClient \in Seq(Entries(ToClientPackets))
    BY <2>1, Settings DEF TypeInv
  <2> QED
    BY <2>1, <2>2, <2>3, <2>4, <2>5 DEF TypeInv
<1>1. /\ TimedMsg /\ OneNegotiation
      /\ Ecdhs(toServer) # {} \/ Ecdhs(toClient) # {} => trace.row # NoRow
  BY <1>0 DEF MsgInv, TraceRowAwaitsFinal, FastInv
<1>2. Ecdhs(toServer') = {} \/ Ecdhs(toClient') = {}
  <2>1. TimeInv' /\ FastInv'
    BY StepTimeInv, StepFastInv
  <2> SUFFICES ASSUME NEW i \in Ecdhs(toServer'), NEW j \in Ecdhs(toClient')
               PROVE  FALSE
    OBVIOUS
  <2>2. client' # NULL
    BY <2>1 DEF TimeInv, TypeInv, Causes, Ecdhs
  <2>3. toServer'[i].packet.pub = client'.pair /\ toClient'[j].packet.origin = client'.pair
    BY <1>0, <2>1, <2>2 DEF FastInv, OneNegotiation
  <2> QED
    BY <2>1, <2>3 DEF TimeInv, NamesInv, DistinctPubs
<1>3. CASE UpdateKey
  <2>1. /\ Len(toServer') \in Ecdhs(toServer') /\ refresh = 0
        /\ NoNewEcdh(toClient, toClient', 0, 0)
    BY <1>0, <1>3, UpdateKeyEcdhs DEF OneSent
  <2>2. Ecdhs(toServer) = {} /\ Ecdhs(toClient) = {}
    BY <1>0, <2>1, NothingAtRefresh
  <2>3. Ecdhs(toClient') = {}
    BY <1>2, <2>1
  <2>4. trace.row = NoRow
    BY <1>0, <2>2 DEF MsgInv, TraceRowAwaitsFinal
  <2>5. trace'.row.newer = 0 /\ trace'.pair = trace.pair
    BY <1>0, <1>3, <2>4, TraceAtBegin
  <2> QED
    BY <2>3, <2>5 DEF Counted
<1>4. CASE ClientFinal
  <2>1. 1 \in Ecdhs(toClient) /\ Keyed(client')
    BY <1>0, <1>4, ClientFinalEcdhs
  <2>2. Ecdhs(toServer') = {} /\ Ecdhs(toClient') = {}
    <3>1. FastInv'
      BY StepFastInv
    <3> QED
      BY <1>0, <2>1, <3>1 DEF FastInv, OneNegotiation
  <2>3. trace.row # NoRow
    BY <1>1, <2>1
  <2>4. trace'.pair.packets = trace.row.newer - toClient[1].newer + 1
    BY <1>0, <1>4, <2>3, TraceAtFinal
  <2>5. trace.row.newer = toClient[1].newer + 1 /\ toClient[1].newer \in Nat
    BY <1>0, <2>1, EntryFacts DEF Counted, Ecdhs
  <2> QED
    BY <2>2, <2>4, <2>5 DEF Counted
<1>5. CASE ~UpdateKey /\ ~ClientFinal
  <2>1. /\ TraceUntouched
        /\ \/ SendEncryptedMessage
           \/ ServerDecryptMSG
           \/ ServerBegin /\ (trace.row # NoRow => trace'.row.newer = trace.row.newer + 1)
           \/ /\ ClientDecryptMSG \/ Lose \/ Tick
              /\ trace.row # NoRow => trace'.row.newer = trace.row.newer
    <3>1. SendEncryptedMessage => client.secret # NoKey
      BY <1>1 DEF SendEncryptedMessage, TimedMsg, Keyed
    <3>2. \A i \in DOMAIN toServer : toServer[i].packet # EmptyPacket
      BY <1>1 DEF TimedMsg
    <3> QED
      BY <1>0, <1>5, <3>1, <3>2, TraceElse
  <2>2. trace'.pair \in {trace.pair, NoRow}
    BY <2>1 DEF TraceUntouched
  <2>3. CASE SendEncryptedMessage \/ ServerDecryptMSG
    <3>1. Keyed(client)
      <4>1. ServerDecryptMSG => 1 \in Msgs(toServer)
        BY <1>0, HeadPackets DEF ServerDecryptMSG, Arrives, Due, Msgs
      <4>2. SendEncryptedMessage => timers # <<>>
        BY DEF SendEncryptedMessage
      <4> QED
        BY <1>0, <1>1, <2>3, <4>1, <4>2 DEF MsgsInTime, TimedMsg
    <3>2. Ecdhs(toServer) = {} /\ Ecdhs(toClient) = {}
      BY <1>1, <3>1 DEF OneNegotiation
    <3>3. Ecdhs(toServer') = {} /\ Ecdhs(toClient') = {}
      BY <1>0, <2>3, <3>2, OtherSteps DEF OtherStep, EcdhsUntouched, NoNewEcdh
    <3> QED
      BY <2>2, <3>3 DEF Counted
  <2>4. CASE ServerBegin /\ (trace.row # NoRow => trace'.row.newer = trace.row.newer + 1)
    <3>1. /\ 1 \in Ecdhs(toServer)
          /\ Len(toClient') \in Ecdhs(toClient') /\ toClient'[Len(toClient')].newer = 0
          /\ \A j \in Ecdhs(toClient') \ {Len(toClient')} : j \in Ecdhs(toClient)
      BY <1>0, <2>4, ServerBeginEcdhs DEF OneSent
    <3>2. Ecdhs(toServer') = {} /\ Ecdhs(toClient) = {}
      BY <1>0, <1>2, <3>1, OneInFlight
    <3>3. trace'.row.newer = 1
      BY <1>1, <2>4, <3>1 DEF Counted
    <3>4. \A j \in Ecdhs(toClient') : toClient'[j].newer = 0
      BY <3>1, <3>2
    <3> QED
      BY <2>2, <3>2, <3>3, <3>4 DEF Counted
  <2>5. CASE /\ ClientDecryptMSG \/ Lose \/ Tick
             /\ trace.row # NoRow => trace'.row.newer = trace.row.newer
    <3>1. PICK l \in {0, 1}, t \in {0, 1} : Becomes(toClient, toClient', l, 0, t)
      <4>1. CASE ClientDecryptMSG
        BY <1>0, <4>1, ClientReadQueues DEF ClientDecryptMSG, Arrives, Due
      <4>2. CASE Tick
        BY <1>0, <4>2, TickQueues
      <4>3. CASE Lose
        BY <1>0, <4>3 DEF Lose
      <4> QED
        BY <2>5, <4>1, <4>2, <4>3
    <3>2. \A j \in Ecdhs(toClient') :
            /\ j + l \in DOMAIN toClient /\ toClient'[j].packet = toClient[j + l].packet
            /\ toClient'[j].newer = toClient[j + l].newer + 0
      BY <1>0, <3>1, EntriesKept DEF Ecdhs
    <3>3. \A j \in Ecdhs(toClient') :
            j + l \in Ecdhs(toClient) /\ toClient'[j].newer = toClient[j + l].newer
      BY <1>0, <3>2, EntryFacts DEF Ecdhs
    <3>4. Ecdhs(toServer') # {} => Ecdhs(toServer) # {}
      BY <1>0, <2>5, OtherSteps DEF OtherStep, EcdhsUntouched, NoNewEcdh
    <3>5. \A i \in Ecdhs(toServer') : trace'.row.newer = 0
      BY <1>1, <2>5, <3>4 DEF Counted
    <3>6. \A j \in Ecdhs(toClient') : trace'.row.newer = toClient'[j].newer + 1
      BY <1>1, <2>5, <3>3 DEF Counted
    <3> QED
      BY <2>2, <3>5, <3>6 DEF Counted
  <2> QED
    BY <2>1, <2>3, <2>4, <2>5
<1> QED
  BY <1>3, <1>4, <1>5

LEMMA InitReplyInv == Init => ReplyInv
BY DEF Init, ReplyInv, MsgsInTime, RepliesInTime, CountedPackets, PlotCountsTwoPackets,
       NewFile, Ecdhs, Msgs

LEMMA StepReplyInv ==
  TimeInv /\ UnusedPair /\ FastInv /\ MsgInv /\ ReplyInv /\ [Next]_vars => ReplyInv'
<1> SUFFICES ASSUME TimeInv, UnusedPair, FastInv, MsgInv, ReplyInv, [Next]_vars
             PROVE  ReplyInv'
  OBVIOUS
<1>1. CASE UNCHANGED vars
  BY <1>1 DEF vars, settings, files, ReplyInv, MsgsInTime, RepliesInTime, CountedPackets,
              PlotCountsTwoPackets, Age, Keyed, Ecdhs, Msgs
<1>2. CASE Next
  <2>1. UNCHANGED <<delay, refreshTime, lossy>>
    BY <1>2, StepQueues DEF TimeInv
  <2>2. MsgsInTime'
    BY <1>2, <2>1, StepMsgsInTime DEF ReplyInv, MsgsInTime
  <2>3. RepliesInTime'
    BY <1>2, <2>1, StepRepliesInTime DEF ReplyInv, RepliesInTime
  <2>4. CountedPackets'
    <3>1. CASE 3 * delay + MsgDelay < refreshTime /\ ~lossy
      <4>1. Counted
        BY <3>1 DEF ReplyInv, CountedPackets, PlotCountsTwoPackets, Counted
      <4>2. Counted'
        BY <1>2, <3>1, <4>1, StepCounted DEF ReplyInv
      <4> QED
        BY <4>2 DEF Counted, CountedPackets, PlotCountsTwoPackets
    <3> QED
      BY <2>1, <3>1 DEF CountedPackets
  <2> QED
    BY <2>2, <2>3, <2>4 DEF ReplyInv
<1> QED
  BY <1>1, <1>2

(* A refresh longer than four delays and the wait: the server reads every  *)
(* MSG, and the client every reply, with the secret it was encrypted with. *)
THEOREM RepliesAreReadable == Spec /\ []UnusedPair => []ReplyIsReadable
<1>1. TimeInv /\ FastInv /\ MsgInv /\ ReplyInv => ReplyIsReadable
  <2> SUFFICES ASSUME TimeInv, FastInv, ReplyInv, 4 * delay + MsgDelay < refreshTime
               PROVE  /\ Arrives(toClient, "MSG") => client.secret = Head(toClient).packet.key
                      /\ Arrives(toServer, "MSG") => server.secret = Head(toServer).packet.key
    BY DEF ReplyIsReadable
  <2>1. 2 * delay < refreshTime /\ 3 * delay + MsgDelay < refreshTime
    BY Settings DEF TimeInv, TypeInv
  <2>2. ASSUME Arrives(toClient, "MSG") PROVE client.secret = Head(toClient).packet.key
    <3>1. 1 \in Msgs(toClient) /\ Head(toClient) = toClient[1]
      BY <2>2, HeadPackets DEF TimeInv, TypeInv, Arrives, Due, Msgs
    <3> QED
      BY <3>1 DEF ReplyInv, RepliesInTime
  <2>3. ASSUME Arrives(toServer, "MSG") PROVE server.secret = Head(toServer).packet.key
    <3>1. 1 \in Msgs(toServer) /\ Head(toServer) = toServer[1]
      BY <2>3, HeadPackets DEF TimeInv, TypeInv, Arrives, Due, Msgs
    <3> QED
      BY <2>1, <3>1 DEF ReplyInv, MsgsInTime, FastInv, OneNegotiation
  <2> QED
    BY <2>2, <2>3
<1> QED
  BY <1>1, InitTimeInv, StepTimeInv, InitFastInv, StepFastInv, InitMsgInv, StepMsgInv,
     InitReplyInv, StepReplyInv, PTL DEF Spec

(* A refresh longer than three delays and the wait: without losses the plot*)
(* gives each negotiation its two packets.                                 *)
THEOREM PlotCountsRight == Spec /\ []UnusedPair => []PlotCountsTwoPackets
<1>1. ReplyInv => PlotCountsTwoPackets
  BY DEF ReplyInv, CountedPackets, PlotCountsTwoPackets
<1> QED
  BY <1>1, InitTimeInv, StepTimeInv, InitFastInv, StepFastInv, InitMsgInv, StepMsgInv,
     InitReplyInv, StepReplyInv, PTL DEF Spec

-----------------------------------------------------------------------------
(* The hypothesis.                                                         *)

LEMMA FinitePairs ==
  /\ \A a, b : IsFiniteSet({a, b})
  /\ \A s \in Secrets : IsFiniteSet(s)
<1>1. ASSUME NEW a, NEW b PROVE IsFiniteSet({a, b})
  <2>1. IsFiniteSet({a}) /\ IsFiniteSet({b}) /\ {a, b} = {a} \cup {b}
    BY FS_Singleton
  <2> QED
    BY <2>1, FS_Union
<1>2. ASSUME NEW s \in Secrets PROVE IsFiniteSet(s)
  <2>1. PICK a, b \in KeyPairs : s = {a, b}
    BY DEF Secrets
  <2> QED
    BY <1>1, <2>1
<1> QED
  BY <1>1, <1>2

LEMMA FiniteRange ==
  ASSUME NEW n \in Nat, NEW f, DOMAIN f = 1 .. n, f = [i \in 1 .. n |-> f[i]]
  PROVE  IsFiniteSet(Range(f))
<1>1. f \in Surjection(1 .. n, Range(f))
  BY DEF Surjection, Range
<1>2. IsFiniteSet(1 .. n)
  BY FS_Interval
<1> QED
  BY <1>1, <1>2, FS_Surjection

(* The pairs named by the packets of a queue.                              *)
PairsOfQueue(q) == UNION {PairsIn(e.packet) : e \in Range(q)}

LEMMA FinitePairsOfQueue ==
  ASSUME NEW P \in {ToServerPackets, ToClientPackets}, NEW q \in Seq(Entries(P))
  PROVE  IsFiniteSet(PairsOfQueue(q))
<1> DEFINE f == [i \in 1 .. Len(q) |-> PairsIn(q[i].packet)]
<1>1. /\ DOMAIN q = 1 .. Len(q) /\ Len(q) \in Nat
      /\ \A i \in DOMAIN q : q[i].packet \in P
  BY EntryFacts
<1>2. \A p \in P : IsFiniteSet(PairsIn(p))
  <2>1. ASSUME NEW p \in P
        PROVE  \/ p.type = "ECDH"
               \/ p.type = "MSG" /\ p.key \in Secrets \cup {NoKey}
               \/ p.type = "EMPTY"
    BY PacketFields
  <2> QED
    BY <2>1, FinitePairs, FS_EmptySet DEF PairsIn
<1>3. IsFiniteSet(Range(f))
  <2>1. DOMAIN f = 1 .. Len(q) /\ f = [i \in 1 .. Len(q) |-> f[i]]
    OBVIOUS
  <2> HIDE DEF f
  <2> QED
    BY <1>1, <2>1, FiniteRange
<1>4. \A s \in Range(f) : IsFiniteSet(s)
  BY <1>1, <1>2 DEF Range
<1>5. PairsOfQueue(q) = UNION Range(f)
  BY <1>1 DEF PairsOfQueue, Range
<1> QED
  BY <1>3, <1>4, <1>5, FS_UNION

LEMMA FiniteInUse ==
  ASSUME TypeOK
  PROVE  IsFiniteSet(InUse)
<1>1. ASSUME NEW ecdh \in ECDHs \cup {NULL} PROVE IsFiniteSet(PairsOf(ecdh))
  <2>1. CASE ecdh = NULL
    BY <2>1, FS_EmptySet DEF PairsOf
  <2>2. CASE ecdh # NULL
    <3> DEFINE rest == IF ecdh.secret = NoKey THEN {} ELSE ecdh.secret
    <3>1. ecdh.secret \in Secrets \cup {NoKey}
      BY <1>1, <2>2 DEF ECDHs
    <3>2. IsFiniteSet(rest) /\ IsFiniteSet({ecdh.pair})
      BY <3>1, FinitePairs, FS_EmptySet, FS_Singleton
    <3>3. PairsOf(ecdh) = {ecdh.pair} \cup rest
      BY <2>2 DEF PairsOf
    <3> QED
      BY <3>2, <3>3, FS_Union
  <2> QED
    BY <2>1, <2>2
<1>2. IsFiniteSet(PairsOf(client)) /\ IsFiniteSet(PairsOf(server))
  BY <1>1 DEF TypeOK
<1>3. IsFiniteSet(PairsOfQueue(toServer)) /\ IsFiniteSet(PairsOfQueue(toClient))
  BY Settings, FinitePairsOfQueue
<1> DEFINE inRow == IF keyFile.row = NoRow THEN {} ELSE keyFile.row.key
<1>4. IsFiniteSet(inRow)
  BY FinitePairs, FS_EmptySet DEF TypeOK, KeyRows
<1>5. InUse = ((PairsOf(client) \cup PairsOf(server))
                 \cup (PairsOfQueue(toServer) \cup PairsOfQueue(toClient))) \cup inRow
  BY DEF InUse, PairsOfQueue
<1> HIDE DEF inRow
<1>6. IsFiniteSet(PairsOf(client) \cup PairsOf(server))
  BY <1>2, FS_Union
<1>7. IsFiniteSet(PairsOfQueue(toServer) \cup PairsOfQueue(toClient))
  BY <1>3, FS_Union
<1> QED
  BY <1>4, <1>5, <1>6, <1>7, FS_Union

(* Only finitely many pairs are in use at a time: with infinitely many of  *)
(* them GenerateKeyPair always finds one, and every theorem above holds of *)
(* Spec as it stands.                                                      *)
THEOREM InfinitelyManyPairs ==
  ASSUME ~IsFiniteSet(KeyPairs)
  PROVE  Spec => []UnusedPair
<1>1. TypeInv => UnusedPair
  <2> SUFFICES ASSUME TypeInv, \A pair \in KeyPairs : pair \in InUse
               PROVE  FALSE
    BY DEF UnusedPair
  <2>1. IsFiniteSet(InUse) /\ KeyPairs \in SUBSET InUse
    BY FiniteInUse DEF TypeInv
  <2> QED
    BY <2>1, FS_Subset
<1> QED
  BY <1>1, InitTypeInv, StepTypeInv, PTL DEF Spec

(* CryptoPP's pairs are taken to be as many: then, with nothing else       *)
(* assumed, what the two nodes and the two scripts are promised.           *)
THEOREM PairsNeverRunOut ==
  ASSUME ~IsFiniteSet(KeyPairs)
  PROVE  Spec => [](/\ TypeOK /\ NoNullDereference
                    /\ SecretsAgree /\ SecretsNeverAgree /\ MsgUnderCurrentKey /\ ReplyIsReadable
                    /\ ScriptCountsExchanges /\ NoFalseSuccess /\ SuccessIsOfTwoNodes
                    /\ PlotTimesNegotiations /\ PlotCountsTwoPackets /\ FilesEndInPairs)
BY InfinitelyManyPairs, TypeCorrect, NullSafety, SecretsAgreement, LateSecretsNeverAgree,
   MsgsAreKeyed, RepliesAreReadable, ScriptIsRight, LateNoFalseSuccess, SuccessOfTwoNodes,
   PlotIsOfNegotiations, PlotCountsRight, FilesAreWhole, PTL
=============================================================================
