-------------------------- MODULE EcdhNegotiation --------------------------
(***************************************************************************)
(* The ECDH negotiation between Client.cc and Server.cc in simulated time. *)
(* UpdateKey replaces the client's key pair every refreshTime; BEGIN takes *)
(* delay to reach the server, FINAL takes delay to come back, and one      *)
(* second later the client sends a MSG under the secret it has by then.    *)
(* No packet names the negotiation it belongs to.                          *)
(*                                                                         *)
(* Every event carries the time left until it is due (wait).  Tick lets    *)
(* time pass when nothing is due; events due at the same time run in any   *)
(* order.                                                                  *)
(***************************************************************************)
EXTENDS Integers, Sequences, FiniteSets, Functions, Aes, Logger

CONSTANTS
  KeyPairs,      \* names for key pairs; a pair stands for both its halves
  NULL,          \* m_ecdh before the first negotiation
  Delays,        \* possible link delays
  RefreshTimes,  \* possible values of refreshTime
  MsgDelay,      \* the one second between FINAL and the client's MSG
  Losses,        \* which networks: {FALSE} reliable, {TRUE} dropping packets, or both
  MaxUpdates     \* Client::m_maxUpdates, 0 for no limit

ASSUME EcdhAssumption ==
  /\ Delays \subseteq Nat \ {0} /\ RefreshTimes \subseteq Nat \ {0}
  /\ MsgDelay \in Nat \ {0}
  /\ Losses \subseteq BOOLEAN
  /\ MaxUpdates \in Nat

VARIABLES
  client,       \* Client::m_ecdh
  server,       \* Server::m_ecdh
  toServer,     \* packets on their way to the server, oldest first
  toClient,     \* packets on their way to the client, oldest first
  timers,       \* waits of the scheduled SendEncryptedMessage events
  refresh,      \* wait of the scheduled UpdateKey event
  delay,        \* the link's delay, fixed for a run
  refreshTime,  \* Utils::GetRefreshTime(), fixed for a run
  lossy,        \* may the network drop packets?  Fixed for a run
  running,      \* FALSE once the logger read beyond its vector and ended the run
  keyFile,      \* Logger: the KeyExchange file
  trace,        \* Logger: the PacketTxRx file
  updates       \* history: negotiations started, as far as MaxRoundsRespected counts

settings == <<delay, refreshTime, lossy>>

files == <<keyFile, trace>>

vars ==
  <<client, server, toServer, toClient, timers, refresh, settings, running, files, updates>>

-----------------------------------------------------------------------------
(* ECDH.cc: both sides compute the same secret from one private and the    *)
(* other public key, and only then, so a secret is the set of the pairs.   *)

NewECDH(pair) == [pair |-> pair, secret |-> NoKey]

GenerateSecret(ecdh, pub) == [ecdh EXCEPT !.secret = {ecdh.pair, pub}]

(* origin is history, read by no handler: the pair the negotiation began   *)
(* with, whose name must not be drawn again while its FINAL is on the way. *)
EcdhPacket(state, pub, origin) ==
  [type |-> "ECDH", state |-> state, pub |-> pub, origin |-> origin]

(* The pairs named anywhere in the system: GenerateKeyPair never repeats.  *)
PairsOf(ecdh) ==
  IF ecdh = NULL THEN {}
  ELSE {ecdh.pair} \cup (IF ecdh.secret = NoKey THEN {} ELSE ecdh.secret)

PairsIn(packet) ==
  CASE packet.type = "ECDH"                      -> {packet.pub, packet.origin}
    [] packet.type = "MSG" /\ packet.key # NoKey -> packet.key
    [] OTHER                                     -> {}

InUse ==
  PairsOf(client) \cup PairsOf(server)
    \cup (UNION {PairsIn(e.packet) : e \in Range(toServer) \cup Range(toClient)})
    \cup (IF keyFile.row = NoRow THEN {} ELSE keyFile.row.key)

(* Which unused pair GenerateKeyPair draws makes no difference; that there *)
(* is one bounds the number of negotiations in flight, not their total.    *)
FreshPair == CHOOSE pair \in KeyPairs : pair \notin InUse

-----------------------------------------------------------------------------
(* newer counts the packets created after this one: all that the trace     *)
(* tells of their uids.                                                    *)
Older(queue) == [i \in DOMAIN queue |-> [queue[i] EXCEPT !.newer = @ + 1]]

Send(queue, packet) ==
  Append(Older(queue), [packet |-> packet, wait |-> delay, newer |-> 0])

Due(queue) == queue # <<>> /\ Head(queue).wait = 0

Arrives(queue, type) == Due(queue) /\ Head(queue).packet.type = type

Init ==
  /\ client = NULL /\ server = NULL
  /\ toServer = <<>> /\ toClient = <<>> /\ timers = <<>>
  /\ delay \in Delays /\ refreshTime \in RefreshTimes /\ lossy \in Losses
  /\ refresh = refreshTime
  /\ running = TRUE
  /\ keyFile = NewFile /\ trace = NewFile
  /\ updates = 0

(* Seeded faults: the old secret is kept, the old pair is kept, or the MSG *)
(* is scheduled when the negotiation starts.                               *)
Restart(ecdh) ==
  /\ running /\ refresh = 0
  /\ client' = ecdh
  /\ LET begin == EcdhPacket("BEGIN", ecdh.pair, ecdh.pair)
     IN  toServer' = Send(toServer, begin) /\ trace' = TraceTransmitPacket(trace, begin)
  /\ toClient' = Older(toClient)
  /\ refresh' = refreshTime
  /\ updates' = IF updates > MaxUpdates THEN updates ELSE updates + 1
  /\ UNCHANGED <<server, settings, running, keyFile>>

UpdateKeyKeepsSecret ==
  /\ Restart(IF client = NULL THEN NewECDH(FreshPair) ELSE [client EXCEPT !.pair = FreshPair])
  /\ UNCHANGED timers

UpdateKeyKeepsPair ==
  /\ Restart(IF client = NULL THEN NewECDH(FreshPair) ELSE [client EXCEPT !.secret = NoKey])
  /\ UNCHANGED timers

UpdateKeyWithTimer ==
  Restart(NewECDH(FreshPair)) /\ timers' = Append(timers, MsgDelay)

(* Client.cc: UpdateKey, InitECDH and ScheduleUpdateKey, which reads       *)
(* neither m_maxUpdates nor m_updatesCnt.                                  *)
UpdateKey == Restart(NewECDH(FreshPair)) /\ UNCHANGED timers

(* Seeded fault: the MSG is scheduled, the secret is not generated. *)
ClientFinalWithoutSecret ==
  /\ running /\ Arrives(toClient, "ECDH")
  /\ client # NULL
  /\ toClient' = Tail(toClient)
  /\ timers' = Append(timers, MsgDelay)
  /\ UNCHANGED <<client, server, toServer, refresh, settings, running, files, updates>>

(* Client.cc: UpdateECDH on FINAL, with whatever key pair m_ecdh has now.  *)
ClientFinal ==
  /\ running /\ Arrives(toClient, "ECDH")
  /\ client # NULL
  /\ LET p == Head(toClient)
     IN  /\ client' = GenerateSecret(client, p.packet.pub)
         /\ trace' = TraceReceivePacket(trace, p.packet, p.newer)
  /\ keyFile' = LogKey(keyFile, "client", client'.secret)
  /\ toClient' = Tail(toClient)
  /\ timers' = Append(timers, MsgDelay)
  /\ UNCHANGED <<server, toServer, refresh, settings, running, updates>>

(* Client.cc: SendEncryptedMessage, and the logger's trace of the packet,  *)
(* which for an empty one reads strs[1] of a one-element vector.           *)
SendEncryptedMessage ==
  /\ running /\ timers # <<>> /\ Head(timers) = 0
  /\ timers' = Tail(timers)
  /\ \E m \in EncryptedMessages(client.secret) :
       /\ toServer' = Send(toServer, m)
       /\ \/ running' = TRUE /\ trace' = TraceTransmitPacket(trace, m)
          \/ m = EmptyPacket /\ running' = FALSE /\ UNCHANGED trace
  /\ toClient' = Older(toClient)
  /\ UNCHANGED <<client, server, refresh, settings, keyFile, updates>>

(* Client.cc: DecryptMSG prints; the trace of the packet comes before.     *)
ClientDecryptMSG ==
  /\ running /\ Arrives(toClient, "MSG")
  /\ LET p == Head(toClient)
     IN  trace' = TraceReceivePacket(trace, p.packet, p.newer)
  /\ toClient' = Tail(toClient)
  /\ UNCHANGED <<client, server, toServer, timers, refresh, settings, running, keyFile, updates>>

(* Server.cc: UpdateECDH on BEGIN, between the traces of the packet read   *)
(* and of the packet sent.                                                 *)
AnswerBegin(ecdh) ==
  /\ running /\ Arrives(toServer, "ECDH")
  /\ server' = ecdh
  /\ keyFile' = LogKey(keyFile, "server", server'.secret)
  /\ LET p     == Head(toServer)
         final == EcdhPacket("FINAL", server'.pair, p.packet.pub)
     IN  /\ trace' = TraceTransmitPacket(TraceReceivePacket(trace, p.packet, p.newer), final)
         /\ toClient' = Send(toClient, final)
  /\ toServer' = Older(Tail(toServer))
  /\ UNCHANGED <<client, timers, refresh, settings, running, updates>>

(* Seeded fault: a secret that is there already is not generated anew. *)
ServerBeginStaleSecret ==
  AnswerBegin(IF server = NULL
              THEN GenerateSecret(NewECDH(FreshPair), Head(toServer).packet.pub)
              ELSE [server EXCEPT !.pair = FreshPair])

ServerBegin ==
  AnswerBegin(GenerateSecret(NewECDH(FreshPair), Head(toServer).packet.pub))

(* Server.cc: DecryptMSG, with a reply unless the decryption threw.        *)
ServerDecryptMSG ==
  /\ running /\ Arrives(toServer, "MSG")
  /\ server # NULL
  /\ LET p        == Head(toServer)
         received == TraceReceivePacket(trace, p.packet, p.newer)
     IN  \E outcome \in DecryptOutcomes(server.secret, p.packet) :
           \/ /\ outcome \in Accepted
              /\ toClient' = Send(toClient, Msg(server.secret))
              /\ toServer' = Older(Tail(toServer))
              /\ trace' = TraceTransmitPacket(received, Msg(server.secret))
           \/ /\ outcome \notin Accepted
              /\ toServer' = Tail(toServer) /\ UNCHANGED toClient
              /\ trace' = received
  /\ UNCHANGED <<client, server, timers, refresh, settings, running, keyFile, updates>>

(* Server.cc: ReadPacket returns at once on a packet without data; the     *)
(* trace made before that reads strs[1] once more.                         *)
ServerReadEmpty ==
  /\ running /\ Arrives(toServer, "EMPTY")
  /\ LET p == Head(toServer)
     IN  \/ running' = TRUE /\ trace' = TraceReceivePacket(trace, p.packet, p.newer)
         \/ running' = FALSE /\ UNCHANGED trace
  /\ toServer' = Tail(toServer)
  /\ UNCHANGED <<client, server, toClient, timers, refresh, settings, keyFile, updates>>

(* The link: a packet that will not arrive is dropped when it is due.      *)
Lose ==
  /\ running /\ lossy
  /\ \/ Due(toServer) /\ toServer' = Tail(toServer) /\ UNCHANGED toClient
     \/ Due(toClient) /\ toClient' = Tail(toClient) /\ UNCHANGED toServer
  /\ UNCHANGED <<client, server, timers, refresh, settings, running, files, updates>>

Closer(queue) == [i \in DOMAIN queue |-> [queue[i] EXCEPT !.wait = @ - 1]]

Advance ==
  /\ toServer' = Closer(toServer) /\ toClient' = Closer(toClient)
  /\ timers' = [i \in DOMAIN timers |-> timers[i] - 1]
  /\ refresh' = refresh - 1
  /\ keyFile' = Forget(keyFile) /\ trace' = Later(trace)
  /\ UNCHANGED <<client, server, settings, running, updates>>

(* Seeded fault: time passes although an event is due. *)
TickPastDue == running /\ Advance

(* Simulator::Run: time moves on to the next event when none is due.       *)
Tick ==
  /\ running
  /\ ~Due(toServer) /\ ~Due(toClient) /\ refresh > 0
  /\ timers # <<>> => Head(timers) > 0
  /\ Advance

Next ==
  \/ UpdateKey
  \/ ClientFinal
  \/ SendEncryptedMessage
  \/ ClientDecryptMSG
  \/ ServerBegin
  \/ ServerDecryptMSG
  \/ ServerReadEmpty
  \/ Lose
  \/ Tick

Spec == Init /\ [][Next]_vars

(* Simulator::Run executes event after event as long as there is one.      *)
FairSpec == Spec /\ WF_vars(Next)

-----------------------------------------------------------------------------
(* Properties                                                              *)

Secrets == {{a, b} : a, b \in KeyPairs}
ECDHs == [pair : KeyPairs, secret : Secrets \cup {NoKey}]
EcdhPackets(state) ==
  [type : {"ECDH"}, state : {state}, pub : KeyPairs, origin : KeyPairs]
MsgPackets == [type : {"MSG"}, key : Secrets \cup {NoKey}]

Entries(packets) == [packet : packets, wait : 0 .. delay, newer : Nat]

Nodes == {"client", "server"}
KeyRows == [node : Nodes, key : Secrets]
KeyRowPairs == [nodes : Nodes \X Nodes, same : BOOLEAN]

KeptStates == {"BEGIN", "FINAL", ""}
TraceRows == [state : KeptStates, age : Nat, newer : Nat]
TraceRowPairs == [states : KeptStates \X KeptStates, time : Nat, packets : Int]

(* What stands for nothing is not something.                               *)
ASSUME NothingAssumption ==
  /\ NULL \notin ECDHs /\ NoKey \notin Secrets
  /\ NoRow \notin KeyRows \cup KeyRowPairs \cup TraceRows \cup TraceRowPairs

(* Both sides hold an object of ECDH.cc or none, and nothing in flight or  *)
(* scheduled is further away than the delay it was given.                  *)
TypeOK ==
  /\ client \in ECDHs \cup {NULL} /\ server \in ECDHs \cup {NULL}
  /\ toServer \in Seq(Entries(EcdhPackets("BEGIN") \cup MsgPackets \cup {EmptyPacket}))
  /\ toClient \in Seq(Entries(EcdhPackets("FINAL") \cup MsgPackets))
  /\ timers \in Seq(0 .. MsgDelay)
  /\ refresh \in 0 .. refreshTime
  /\ delay \in Delays /\ refreshTime \in RefreshTimes /\ lossy \in Losses
  /\ running \in BOOLEAN
  /\ keyFile \in [row : KeyRows \cup {NoRow}, pair : KeyRowPairs \cup {NoRow}]
  /\ trace \in [row : TraceRows \cup {NoRow}, pair : TraceRowPairs \cup {NoRow}]
  /\ updates \in 0 .. MaxUpdates + 1

Keyed(ecdh) == ecdh # NULL /\ ecdh.secret # NoKey

(* If an answer is back before the next refresh, a client that has a       *)
(* secret shares it with the server: two packets are enough, lost packets  *)
(* or not.                                                                 *)
SecretsAgree ==
  2 * delay < refreshTime /\ Keyed(client) => Keyed(server) /\ client.secret = server.secret

(* If it is not, every FINAL meets a key pair it does not answer, and the  *)
(* client never has the server's secret, in no negotiation.                *)
SecretsNeverAgree ==
  2 * delay > refreshTime /\ Keyed(client) => client.secret # server.secret

(* The secret taken at FINAL is still there one second later, when         *)
(* SendEncryptedMessage reads it without a guard, if the refresh leaves    *)
(* time for that: no MSG without key and no packet without data is sent.   *)
MsgUnderCurrentKey ==
  2 * delay + MsgDelay < refreshTime =>
    /\ timers # <<>> => Keyed(client)
    /\ \A e \in Range(toServer) :
         /\ e.packet # EmptyPacket
         /\ e.packet.type = "MSG" => e.packet.key # NoKey

(* The server's reply meets the secret it was encrypted with if the refresh*)
(* leaves time for the whole exchange, and the server answers every MSG.   *)
ReplyIsReadable ==
  4 * delay + MsgDelay < refreshTime =>
    /\ Arrives(toClient, "MSG") => client.secret = Head(toClient).packet.key
    /\ Arrives(toServer, "MSG") => server.secret = Head(toServer).packet.key

(* Neither DecryptMSG nor SendEncryptedMessage dereferences a NULL m_ecdh. *)
NoNullDereference ==
  /\ Arrives(toServer, "MSG") => server # NULL
  /\ timers # <<>> \/ toClient # <<>> => client # NULL

(* Client.cc:412: "Most certainly the final packet was lost" when the      *)
(* client has no key for its MSG.  Without loss the secret would have to   *)
(* be there whenever SendEncryptedMessage runs.                            *)
KeyTooShortMeansLoss ==
  ~lossy /\ timers # <<>> /\ Head(timers) = 0 => Keyed(client)

(* When the refresh leaves time for the exchange and nothing is lost, the  *)
(* sides come to share a secret again and again, in negotiation after      *)
(* negotiation.                                                            *)
AgreeAgainAndAgain ==
  2 * delay + MsgDelay < refreshTime /\ ~lossy =>
    /\ []<>(Keyed(client) /\ Keyed(server) /\ client.secret = server.secret)
    /\ []<>(client # NULL /\ ~Keyed(client))

(* If answers come back before the next refresh and nothing is lost, the   *)
(* success script is right: every two rows are the server's and the        *)
(* client's secret of one negotiation, and they are equal.                 *)
ScriptCountsExchanges ==
  2 * delay < refreshTime /\ ~lossy /\ keyFile.pair # NoRow =>
    keyFile.pair = [nodes |-> <<"server", "client">>, same |-> TRUE]

(* If they come back later it counts no success, whatever is lost: rows of *)
(* different negotiations are compared, and never are two keys equal.      *)
NoFalseSuccess ==
  2 * delay > refreshTime /\ keyFile.pair # NoRow => ~keyFile.pair.same

(* Lost packets misalign the rows, but two rows the script finds equal are *)
(* those of the two nodes: a loss can hide a success and never makes one.  *)
SuccessIsOfTwoNodes ==
  keyFile.pair # NoRow /\ keyFile.pair.same => keyFile.pair.nodes[1] # keyFile.pair.nodes[2]

(* If the whole negotiation and the second after it fit into the refresh   *)
(* period, the plot is made of negotiations, each a BEGIN and a FINAL two  *)
(* delays apart.  Lost packets put other rows together, but what looks like*)
(* a negotiation still is one.  (If the refresh falls into that second,    *)
(* rows of packets without data come in between.)                          *)
PlotTimesNegotiations ==
  2 * delay + MsgDelay < refreshTime /\ trace.pair # NoRow =>
    /\ ~lossy => trace.pair.states = <<"BEGIN", "FINAL">>
    /\ trace.pair.states = <<"BEGIN", "FINAL">> => trace.pair.time = 2 * delay

(* The number of packets it gives is that of the negotiation only if the   *)
(* server's reply to the MSG has been sent by the next refresh: the uid of *)
(* a packet says how many packets of either kind there were before it.     *)
PlotCountsTwoPackets ==
  3 * delay + MsgDelay < refreshTime /\ ~lossy /\ trace.pair # NoRow => trace.pair.packets = 2

(* Where Simulator::Stop ends a run whose stopSim is a multiple of         *)
(* refreshTime.  Events of one time run in the order they were scheduled,  *)
(* and main schedules Stop after the first UpdateKey, which Client::Setup  *)
(* scheduled, and before every later one: at the first multiple the run    *)
(* ends behind UpdateKey, at all others before it.                         *)
StopsAtFirstRefresh == refresh = refreshTime /\ client # NULL /\ server = NULL

StopsAtLaterRefresh == refresh = 0 /\ client # NULL

(* A run without losses leaves two files of which each row has its partner *)
(* if it stops at the second or a later multiple of refreshTime.  If it    *)
(* stops at the first, the BEGIN just traced has none, and the plot script *)
(* packetDataToBoxplot.py ends in IndexError.                              *)
FilesEndInPairs ==
  2 * delay + MsgDelay < refreshTime /\ ~lossy =>
    /\ StopsAtLaterRefresh => ~EndsInIndexError(keyFile) /\ ~EndsInIndexError(trace)
    /\ StopsAtFirstRefresh => ~EndsInIndexError(keyFile) /\ EndsInIndexError(trace)

(* main.cc:27: maxRounds is the "Maximum number of key negotiations (0=no  *)
(* limit)".                                                                *)
MaxRoundsRespected == MaxUpdates > 0 => updates <= MaxUpdates
=============================================================================
