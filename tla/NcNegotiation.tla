--------------------------- MODULE NcNegotiation ---------------------------
(***************************************************************************)
(* The key negotiation by neural cryptography between Client.cc and        *)
(* Server.cc, with the MSG exchange its handlers start.                    *)
(*                                                                         *)
(* Each side owns at most one tree parity machine (m_nc).  A single packet *)
(* at a time travels between them: it carries a fresh random input, the    *)
(* sender's output for it (OwnOutput) and the sender's output for the      *)
(* input it had received before (LastOwnOutput).  Each side updates its    *)
(* weights on an input only when both outputs are equal.  The first side   *)
(* whose round counter reaches RoundThreshold answers FINAL and both take  *)
(* the key from their weights.                                             *)
(*                                                                         *)
(* The network is a point-to-point link: each direction is FIFO and may    *)
(* lose packets when Lossy.  Nothing is retransmitted: the only timers are *)
(* the periodic UpdateKey and the one-second delay before the client's MSG.*)
(***************************************************************************)
EXTENDS TPM, Sequences

CONSTANTS
  RoundThreshold,  \* m_roundThreshold
  NULL,            \* m_nc before the first negotiation
  Overlap,         \* may refreshTime be shorter than a negotiation?
  MaxLoad,         \* bound: no refresh on top of this many packets and timers
  Lossy            \* may the network drop packets?

ASSUME NcAssumption ==
  /\ RoundThreshold \in Nat \ {0}
  /\ NULL \notin TPMs
  /\ Overlap \in BOOLEAN /\ Lossy \in BOOLEAN
  /\ MaxLoad \in Nat

VARIABLES
  client,    \* Client::m_nc
  server,    \* Server::m_nc
  toServer,  \* packets on their way to the server, oldest first
  toClient,  \* packets on their way to the client, oldest first
  timers,    \* SendEncryptedMessage events scheduled and not yet run
  lost,      \* history: was an NC packet lost since the last refresh?
  running    \* FALSE once the logger read beyond its vector and that ended the run

vars == <<client, server, toServer, toClient, timers, lost, running>>

AES == INSTANCE Aes

ZeroVector == [s \in Synapses |-> 0]

NcPacket(state, in, tau, lastTau) ==
  [type |-> "NC", state |-> state, inVector |-> in, tau |-> tau, lastTau |-> lastTau]

Load == Len(toServer) + Len(toClient) + timers

Init ==
  /\ client = NULL /\ server = NULL
  /\ toServer = <<>> /\ toClient = <<>>
  /\ timers = 0
  /\ lost = FALSE /\ running = TRUE

-----------------------------------------------------------------------------
(* The part of the two UpdateNC functions that client and server share.    *)

(* The update the sender of packet p has already made on the input this    *)
(* side sent it: nothing for BEGIN, which answers no input.                *)
CatchUp(tpm, p) == UpdateWeights(tpm, p.lastTau)

(* Seeded fault: LastOwnOutput of the packet is not used. *)
AnswerWithoutCatchUp(tpm, p) == CalculateOutput(tpm, p.inVector)

Answer(tpm, p) == CalculateOutput(CatchUp(tpm, p), p.inVector)

Learnt(tpm, p) == UpdateWeights(Answer(tpm, p), p.tau)

(* Seeded fault: one more input than the threshold asks for. *)
NotBeyondThreshold(tpm) == tpm.round <= RoundThreshold

BelowThreshold(tpm) == tpm.round < RoundThreshold

Receives(channel, type) == channel # <<>> /\ Head(channel).type = type

ReceivesNc(channel, state) == Receives(channel, "NC") /\ Head(channel).state = state

-----------------------------------------------------------------------------
(* Client.cc                                                               *)

(* Seeded fault: the MSG is scheduled when the negotiation starts. *)
UpdateKeyWithTimer ==
  /\ running
  /\ IF Overlap THEN Load < MaxLoad ELSE Load = 0
  /\ \E w \in Weights, x \in Inputs :
       /\ client' = NewTPM(w, x)
       /\ toServer' = Append(toServer, NcPacket("BEGIN", x, client'.tau, client'.tau))
  /\ lost' = FALSE
  /\ timers' = timers + 1
  /\ UNCHANGED <<server, toClient, running>>

(* UpdateKey and InitNC, every refreshTime seconds: the old machine is     *)
(* deleted, whatever it was doing, and no packet or timer is cancelled.    *)
UpdateKey ==
  /\ running
  /\ IF Overlap THEN Load < MaxLoad ELSE Load = 0
  /\ \E w \in Weights, x \in Inputs :
       /\ client' = NewTPM(w, x)
       /\ toServer' = Append(toServer, NcPacket("BEGIN", x, client'.tau, client'.tau))
  /\ lost' = FALSE
  /\ UNCHANGED <<server, toClient, timers, running>>

(* UpdateNC on UPDATE: answer with the next input, or finish.              *)
ClientUpdate ==
  /\ running
  /\ ReceivesNc(toClient, "UPDATE")
  /\ client # NULL
  /\ LET p       == Head(toClient)
         lastTau == Answer(client, p).tau
     IN  \/ /\ BelowThreshold(Learnt(client, p))
            /\ \E x \in Inputs :
                 /\ client' = CalculateOutput(Learnt(client, p), x)
                 /\ toServer' = Append(toServer, NcPacket("UPDATE", x, client'.tau, lastTau))
            /\ UNCHANGED timers
         \/ /\ ~BelowThreshold(Learnt(client, p))
            /\ client' = GenerateKey(Learnt(client, p))
            /\ toServer' = Append(toServer, NcPacket("FINAL", ZeroVector, lastTau, lastTau))
            /\ timers' = timers + 1
  /\ toClient' = Tail(toClient)
  /\ UNCHANGED <<server, lost, running>>

(* Seeded faults: no key, no timer, or the key before the last update. *)
FinalReceived(tpm) ==
  /\ running
  /\ ReceivesNc(toClient, "FINAL")
  /\ client # NULL
  /\ client' = tpm
  /\ toClient' = Tail(toClient)
  /\ UNCHANGED <<server, toServer, lost, running>>

ClientFinalWithoutKey ==
  FinalReceived(UpdateWeights(client, Head(toClient).tau)) /\ timers' = timers + 1

ClientFinalWithoutTimer ==
  FinalReceived(GenerateKey(UpdateWeights(client, Head(toClient).tau))) /\ UNCHANGED timers

ClientFinalKeyFirst ==
  FinalReceived(UpdateWeights(GenerateKey(client), Head(toClient).tau)) /\ timers' = timers + 1

(* UpdateNC on FINAL.                                                      *)
ClientFinal ==
  /\ running
  /\ ReceivesNc(toClient, "FINAL")
  /\ client # NULL
  /\ client' = GenerateKey(UpdateWeights(client, Head(toClient).tau))
  /\ toClient' = Tail(toClient)
  /\ timers' = timers + 1
  /\ UNCHANGED <<server, toServer, lost, running>>

(* Seeded fault: FINAL is sent once more ahead of the MSG. *)
SendFinalAndMessage ==
  /\ running
  /\ timers > 0
  /\ timers' = timers - 1
  /\ toServer' = toServer \o <<NcPacket("FINAL", ZeroVector, client.tau, client.tau),
                               AES!Msg(client.secret)>>
  /\ UNCHANGED <<client, server, toClient, lost, running>>

(* SendEncryptedMessage, one second after a key was generated, with the    *)
(* secret m_nc has by then.  The logger's trace of an empty packet reads   *)
(* strs[1] of a one-element vector, which may or may not end the run.      *)
SendEncryptedMessage ==
  /\ running
  /\ timers > 0
  /\ timers' = timers - 1
  /\ \E m \in AES!EncryptedMessages(client.secret) :
       /\ toServer' = Append(toServer, m)
       /\ \/ running' = TRUE
          \/ m = AES!EmptyPacket /\ running' = FALSE
  /\ UNCHANGED <<client, server, toClient, lost>>

(* DecryptMSG prints the text or the exception and changes no state.       *)
ClientDecryptMSG ==
  /\ running
  /\ Receives(toClient, "MSG")
  /\ toClient' = Tail(toClient)
  /\ UNCHANGED <<client, server, toServer, timers, lost, running>>

-----------------------------------------------------------------------------
(* Server.cc                                                               *)

(* UpdateNC on BEGIN: always a new machine, and always one answer, whatever *)
(* the threshold.                                                          *)
ServerBegin ==
  /\ running
  /\ ReceivesNc(toServer, "BEGIN")
  /\ LET p == Head(toServer)
     IN  \E w \in Weights, x \in Inputs :
           LET fresh  == NewTPM(w, p.inVector)
               learnt == UpdateWeights(fresh, p.tau)
           IN  /\ server' = CalculateOutput(learnt, x)
               /\ toClient' = Append(toClient, NcPacket("UPDATE", x, server'.tau, fresh.tau))
  /\ toServer' = Tail(toServer)
  /\ UNCHANGED <<client, timers, lost, running>>

(* UpdateNC on UPDATE.                                                     *)
ServerUpdate ==
  /\ running
  /\ ReceivesNc(toServer, "UPDATE")
  /\ server # NULL
  /\ LET p       == Head(toServer)
         lastTau == Answer(server, p).tau
     IN  \/ /\ BelowThreshold(Learnt(server, p))
            /\ \E x \in Inputs :
                 /\ server' = CalculateOutput(Learnt(server, p), x)
                 /\ toClient' = Append(toClient, NcPacket("UPDATE", x, server'.tau, lastTau))
         \/ /\ ~BelowThreshold(Learnt(server, p))
            /\ server' = GenerateKey(Learnt(server, p))
            /\ toClient' = Append(toClient, NcPacket("FINAL", ZeroVector, lastTau, lastTau))
  /\ toServer' = Tail(toServer)
  /\ UNCHANGED <<client, timers, lost, running>>

(* Seeded faults: FINAL is acknowledged by a FINAL; FINAL makes no key. *)
ServerFinalAcknowledged ==
  /\ running
  /\ ReceivesNc(toServer, "FINAL")
  /\ server # NULL
  /\ server' = GenerateKey(UpdateWeights(server, Head(toServer).tau))
  /\ toServer' = Tail(toServer)
  /\ toClient' = Append(toClient, NcPacket("FINAL", ZeroVector, server.tau, server.tau))
  /\ UNCHANGED <<client, timers, lost, running>>

ServerFinalWithoutKey ==
  /\ running
  /\ ReceivesNc(toServer, "FINAL")
  /\ server # NULL
  /\ server' = UpdateWeights(server, Head(toServer).tau)
  /\ toServer' = Tail(toServer)
  /\ UNCHANGED <<client, toClient, timers, lost, running>>

(* UpdateNC on FINAL.                                                      *)
ServerFinal ==
  /\ running
  /\ ReceivesNc(toServer, "FINAL")
  /\ server # NULL
  /\ server' = GenerateKey(UpdateWeights(server, Head(toServer).tau))
  /\ toServer' = Tail(toServer)
  /\ UNCHANGED <<client, toClient, timers, lost, running>>

(* DecryptMSG: a reply under the server's own secret unless the decryption *)
(* threw.                                                                  *)
ServerDecryptMSG ==
  /\ running
  /\ Receives(toServer, "MSG")
  /\ server # NULL
  /\ \E outcome \in AES!DecryptOutcomes(server.secret, Head(toServer)) :
       toClient' = IF outcome \in AES!Accepted
                   THEN Append(toClient, AES!Msg(server.secret))
                   ELSE toClient
  /\ toServer' = Tail(toServer)
  /\ UNCHANGED <<client, server, timers, lost, running>>

(* ReadPacket returns at once on a packet without data; the trace made     *)
(* before that reads strs[1] once more.                                    *)
ServerReadEmpty ==
  /\ running
  /\ Receives(toServer, "EMPTY")
  /\ toServer' = Tail(toServer)
  /\ running' \in BOOLEAN
  /\ UNCHANGED <<client, server, toClient, timers, lost>>

-----------------------------------------------------------------------------
(* The link (full transmit queue, exhausted ports): a packet that will not *)
(* arrive is dropped when it would have been the next to arrive.           *)
Lose ==
  /\ running
  /\ Lossy
  /\ \/ /\ toServer # <<>>
        /\ toServer' = Tail(toServer) /\ UNCHANGED toClient
        /\ lost' = (lost \/ Head(toServer).type = "NC")
     \/ /\ toClient # <<>>
        /\ toClient' = Tail(toClient) /\ UNCHANGED toServer
        /\ lost' = (lost \/ Head(toClient).type = "NC")
  /\ UNCHANGED <<client, server, timers, running>>

Next ==
  \/ UpdateKey
  \/ ClientUpdate
  \/ ClientFinal
  \/ SendEncryptedMessage
  \/ ClientDecryptMSG
  \/ ServerBegin
  \/ ServerUpdate
  \/ ServerFinal
  \/ ServerDecryptMSG
  \/ ServerReadEmpty
  \/ Lose

Spec == Init /\ [][Next]_vars

(* Simulator::Run executes every event it holds, in time order, so every   *)
(* packet that is not lost is delivered and every timer fires.             *)
Delivery ==
  /\ WF_vars(ClientUpdate \/ ClientFinal \/ ClientDecryptMSG)
  /\ WF_vars(ServerBegin \/ ServerUpdate \/ ServerFinal \/ ServerDecryptMSG \/ ServerReadEmpty)
  /\ WF_vars(SendEncryptedMessage)

FairSpec == Spec /\ Delivery
-----------------------------------------------------------------------------
(* Properties                                                              *)

Outputs == {-1, 1}

BeginPackets ==
  [type : {"NC"}, state : {"BEGIN"}, inVector : Inputs, tau : Outputs, lastTau : Outputs]
UpdatePackets ==
  [type : {"NC"}, state : {"UPDATE"}, inVector : Inputs, tau : Outputs, lastTau : Outputs]
FinalPackets ==
  [type : {"NC"}, state : {"FINAL"}, inVector : {ZeroVector}, tau : Outputs, lastTau : Outputs]
MsgPackets == [type : {"MSG"}, key : Weights \cup {NoKey}]

(* Both machines are machines of NC.cc (weights within -L..L) or absent,   *)
(* and the channels hold packets of the data frame format.                 *)
TypeOK ==
  /\ client \in TPMs \cup {NULL} /\ server \in TPMs \cup {NULL}
  /\ toServer \in Seq(BeginPackets \cup UpdatePackets \cup FinalPackets
                        \cup MsgPackets \cup {AES!EmptyPacket})
  /\ toClient \in Seq(UpdatePackets \cup FinalPackets \cup MsgPackets)
  /\ timers \in Nat
  /\ lost \in BOOLEAN /\ running \in BOOLEAN

NcIn(channel) == {i \in DOMAIN channel : channel[i].type = "NC"}

Keyed(tpm) == tpm # NULL /\ tpm.secret # NoKey

(* The machine a side will have once it has read what is on its way to it: *)
(* the sender of UPDATE or FINAL is one update ahead.                      *)
Pending(channel) == ReceivesNc(channel, "UPDATE") \/ ReceivesNc(channel, "FINAL")
ClientView == IF Pending(toClient) THEN CatchUp(client, Head(toClient)) ELSE client
ServerView == IF Pending(toServer) THEN CatchUp(server, Head(toServer)) ELSE server

(* The server has taken up the client's current negotiation.               *)
Paired ==
  client # NULL /\ server # NULL /\ ~ReceivesNc(toServer, "BEGIN") /\ ~lost

(* The two machines have counted the same updates, the one still to be     *)
(* made by the receiver of the packet in flight included: UpdateNC applies *)
(* LastOwnOutput before OwnOutput, on each side once per input.            *)
RoundsInLockstep == Paired => ClientView.round = ServerView.round

(* A key is taken only from a machine that has just reached the threshold, *)
(* and from its present weights: the receiver of FINAL, which does not test*)
(* its own counter, included.  (BEGIN is answered without a test, so a     *)
(* threshold of 1 can be passed by one.)                                   *)
KeyAtThreshold ==
  \A tpm \in {client, server} :
    Keyed(tpm) => /\ \/ tpm.round = RoundThreshold
                     \/ RoundThreshold = 1 /\ tpm.round = 2
                  /\ tpm.secret = tpm.weights

(* A side that has its key, by sending or by receiving FINAL, is sent no   *)
(* other packet of that negotiation: at most one of the two sends FINAL.   *)
FinalOnce ==
  /\ Keyed(client) => NcIn(toClient) = {}
  /\ Keyed(server) => \A i \in NcIn(toServer) : toServer[i].state = "BEGIN"

(* Every MSG the client sends, and every timer that will send one, finds   *)
(* the key the negotiation ended with: SendEncryptedMessage has no guard.  *)
MsgUnderCurrentKey ==
  /\ timers > 0 => Keyed(client)
  /\ \A i \in DOMAIN toServer : toServer[i].type # "NC" => toServer[i] = AES!Msg(client.secret)

(* Without loss a negotiation under way always has a packet travelling     *)
(* until both sides have their key: there is no retransmission to fall     *)
(* back on.                                                                *)
NeverStalls ==
  ~lost /\ client # NULL =>
    NcIn(toServer) \cup NcIn(toClient) # {} \/ (Keyed(client) /\ Keyed(server))

(* Comments at Client.cc:385 and Server.cc:358: a MSG meets a server       *)
(* without a key only when a packet of the negotiation was lost.           *)
KeyTooShortMeansLoss ==
  Receives(toServer, "MSG") /\ server.secret = NoKey => lost

(* DecryptMSG and SendEncryptedMessage dereference m_nc without a test, and *)
(* UpdateNC drops UPDATE and FINAL without one: neither is ever needed, as *)
(* nothing but BEGIN can meet a server without a machine, and nothing at   *)
(* all a client without one, however many packets are lost or overtaken by *)
(* a refresh.                                                              *)
NoNullDereference ==
  /\ server = NULL => /\ \A i \in DOMAIN toServer :
                            toServer[i].type = "NC" /\ toServer[i].state = "BEGIN"
                      /\ toClient = <<>> /\ timers = 0
  /\ client = NULL => toServer = <<>> /\ toClient = <<>> /\ timers = 0

(* The weights of the two sides are equal, updates still to be read done.  *)
InSync == Paired /\ ClientView.weights = ServerView.weights

(* Synchronised machines stay synchronised until the next refresh: every   *)
(* input moves both alike, through threshold and FINAL.                    *)
SyncIsKept == [][InSync => InSync' \/ lost' \/ UpdateKey]_vars

(* When both have their key, the keys are equal exactly if the machines    *)
(* were synchronised.                                                      *)
KeysAgreeIffInSync ==
  Keyed(client) /\ Keyed(server) /\ Paired /\ ~Pending(toClient) /\ ~Pending(toServer) =>
    (client.secret = server.secret <=> InSync)

(* Once synchronised, the negotiation finishes and the server's MSG under  *)
(* the common key reaches the client.                                      *)
SyncIsConfirmed ==
  InSync /\ (Pending(toClient) \/ Pending(toServer)) ~> (Receives(toClient, "MSG") /\ Head(toClient).key = client.secret)

(* Each packet of a negotiation is answered at most once: only a refresh   *)
(* adds one to those already travelling.  Overlapping negotiations add     *)
(* tokens that no handler takes away before the threshold, but none of     *)
(* them multiplies.                                                        *)
Tokens == Cardinality(NcIn(toServer)) + Cardinality(NcIn(toClient))
OnlyRefreshAddsPackets == [][Tokens' > Tokens => UpdateKey]_vars

(* Comments at Client.cc:325 and 350: the client does not receive FINAL    *)
(* when it has sent it.                                                    *)
NoFinalAfterFinal ==
  Keyed(client) => \A i \in NcIn(toClient) : toClient[i].state # "FINAL"
=============================================================================
