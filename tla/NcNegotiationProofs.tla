------------------------ MODULE NcNegotiationProofs ------------------------
(***************************************************************************)
(* Theorems about NcNegotiation, for every network size, weight bound,     *)
(* learning rule and threshold.                                            *)
(***************************************************************************)
EXTENDS NcNegotiation, TPMProofs, SequenceTheorems, FiniteSetTheorems

ToServerPackets ==
  BeginPackets \cup UpdatePackets \cup FinalPackets \cup MsgPackets \cup {AES!EmptyPacket}
ToClientPackets == UpdatePackets \cup FinalPackets \cup MsgPackets

(* What the receiver of a packet knows from its type and state.            *)
LEMMA PacketByState ==
  ASSUME NEW p \in ToServerPackets, p.type = "NC"
  PROVE  /\ p.state = "BEGIN" => p \in BeginPackets
         /\ p.state = "UPDATE" => p \in UpdatePackets
         /\ p.state = "FINAL" => p \in FinalPackets
BY DEF ToServerPackets, BeginPackets, UpdatePackets, FinalPackets, MsgPackets,
       AES!EmptyPacket

LEMMA NcPacketType ==
  ASSUME NEW x \in Inputs, NEW t \in Outputs, NEW u \in Outputs
  PROVE  /\ NcPacket("BEGIN", x, t, u) \in BeginPackets
         /\ NcPacket("UPDATE", x, t, u) \in UpdatePackets
         /\ NcPacket("FINAL", ZeroVector, t, u) \in FinalPackets
BY DEF NcPacket, BeginPackets, UpdatePackets, FinalPackets

LEMMA QueueTypes ==
  ASSUME NEW S, NEW q \in Seq(S)
  PROVE  /\ \A e \in S : Append(q, e) \in Seq(S)
         /\ q # <<>> => Head(q) \in S /\ Tail(q) \in Seq(S)
OBVIOUS

(* The machine that comes out of the UPDATE handler before it answers.     *)
LEMMA LearntType ==
  ASSUME NEW tpm \in TPMs, NEW p, p.inVector \in Inputs
  PROVE  /\ CatchUp(tpm, p) \in TPMs
         /\ Answer(tpm, p) \in TPMs
         /\ Answer(tpm, p).tau \in Outputs
         /\ Learnt(tpm, p) \in TPMs
<1>1. CatchUp(tpm, p) \in TPMs
  BY UpdateWeightsType DEF CatchUp
<1>2. Answer(tpm, p) \in TPMs
  BY <1>1, CalculateOutputType DEF Answer
<1>3. Learnt(tpm, p) \in TPMs
  BY <1>2, UpdateWeightsType DEF Learnt
<1> QED
  BY <1>1, <1>2, <1>3 DEF TPMs, Outputs

LEMMA TauType ==
  ASSUME NEW tpm \in TPMs
  PROVE  tpm.tau \in Outputs
BY DEF TPMs, Outputs
-----------------------------------------------------------------------------
(* Type correctness, one lemma per handler that builds a machine.          *)

LEMMA UpdateKeyType ==
  ASSUME TypeOK, UpdateKey
  PROVE  TypeOK' /\ client' \in TPMs
<1>1. PICK w \in Weights, x \in Inputs :
        /\ client' = NewTPM(w, x)
        /\ toServer' = Append(toServer, NcPacket("BEGIN", x, client'.tau, client'.tau))
  BY DEF UpdateKey
<1>2. client' \in TPMs /\ client'.tau \in Outputs
  BY <1>1, NewTPMType, TauType
<1>3. toServer' \in Seq(ToServerPackets)
  BY <1>1, <1>2, NcPacketType, QueueTypes DEF TypeOK, ToServerPackets
<1> QED
  BY <1>2, <1>3 DEF TypeOK, UpdateKey, ToServerPackets

LEMMA ClientUpdateType ==
  ASSUME TypeOK, ClientUpdate
  PROVE  TypeOK' /\ client' \in TPMs
<1> DEFINE p == Head(toClient)
           learnt == Learnt(client, p)
           lastTau == Answer(client, p).tau
<1>1. p \in UpdatePackets /\ toClient' \in Seq(ToClientPackets)
  BY QueueTypes, PacketByState
     DEF TypeOK, ClientUpdate, ReceivesNc, Receives, ToClientPackets, ToServerPackets
<1>2. client \in TPMs
  BY DEF TypeOK, ClientUpdate
<1>3. learnt \in TPMs /\ lastTau \in Outputs
  BY <1>1, <1>2, LearntType DEF UpdatePackets
<1>4. client' \in TPMs /\ toServer' \in Seq(ToServerPackets) /\ timers' \in Nat
  <2>1. CASE BelowThreshold(learnt)
    <3>1. PICK x \in Inputs :
            /\ client' = CalculateOutput(learnt, x)
            /\ toServer' = Append(toServer, NcPacket("UPDATE", x, client'.tau, lastTau))
      BY <2>1 DEF ClientUpdate
    <3>2. client' \in TPMs /\ client'.tau \in Outputs
      BY <1>3, <3>1, CalculateOutputType, TauType
    <3>3. toServer' \in Seq(ToServerPackets)
      BY <1>3, <3>1, <3>2, NcPacketType, QueueTypes DEF TypeOK, ToServerPackets
    <3> QED
      BY <2>1, <3>2, <3>3 DEF ClientUpdate, TypeOK
  <2>2. CASE ~BelowThreshold(learnt)
    <3>1. /\ client' = GenerateKey(learnt)
          /\ toServer' = Append(toServer, NcPacket("FINAL", ZeroVector, lastTau, lastTau))
          /\ timers' = timers + 1
      BY <2>2 DEF ClientUpdate
    <3>2. NcPacket("FINAL", ZeroVector, lastTau, lastTau) \in ToServerPackets
      BY <1>1, <1>3, NcPacketType DEF ToServerPackets, UpdatePackets
    <3> QED
      BY <1>3, <3>1, <3>2, GenerateKeyType, QueueTypes DEF TypeOK, ToServerPackets
  <2> QED
    BY <2>1, <2>2
<1> QED
  BY <1>1, <1>4 DEF TypeOK, ClientUpdate, ToServerPackets, ToClientPackets

LEMMA ServerBeginType ==
  ASSUME TypeOK, ServerBegin
  PROVE  TypeOK' /\ server' \in TPMs
<1> DEFINE p == Head(toServer)
<1>1. p \in BeginPackets /\ toServer' \in Seq(ToServerPackets)
  BY QueueTypes, PacketByState
     DEF TypeOK, ServerBegin, ReceivesNc, Receives, ToServerPackets
<1>2. PICK w \in Weights, x \in Inputs :
        LET fresh  == NewTPM(w, p.inVector)
            learnt == UpdateWeights(fresh, p.tau)
        IN  /\ server' = CalculateOutput(learnt, x)
            /\ toClient' = Append(toClient, NcPacket("UPDATE", x, server'.tau, fresh.tau))
  BY DEF ServerBegin
<1> DEFINE fresh  == NewTPM(w, p.inVector)
           learnt == UpdateWeights(fresh, p.tau)
<1>3. fresh \in TPMs
  BY <1>1, NewTPMType DEF BeginPackets
<1> HIDE DEF fresh
<1>4. learnt \in TPMs
  BY <1>3, UpdateWeightsType
<1> HIDE DEF learnt
<1>5. server' = CalculateOutput(learnt, x)
  BY <1>2 DEF learnt, fresh
<1>6. server' \in TPMs /\ server'.tau \in Outputs /\ fresh.tau \in Outputs
  BY <1>3, <1>4, <1>5, CalculateOutputType, TauType
<1>7. toClient' = Append(toClient, NcPacket("UPDATE", x, server'.tau, fresh.tau))
  BY <1>2 DEF fresh
<1>8. toClient' \in Seq(ToClientPackets)
  BY <1>6, <1>7, NcPacketType, QueueTypes DEF TypeOK, ToClientPackets
<1> QED
  BY <1>1, <1>6, <1>8 DEF TypeOK, ServerBegin, ToServerPackets, ToClientPackets

LEMMA ServerUpdateType ==
  ASSUME TypeOK, ServerUpdate
  PROVE  TypeOK' /\ server' \in TPMs
<1> DEFINE p == Head(toServer)
           learnt == Learnt(server, p)
           lastTau == Answer(server, p).tau
<1>1. p \in UpdatePackets /\ toServer' \in Seq(ToServerPackets)
  BY QueueTypes, PacketByState
     DEF TypeOK, ServerUpdate, ReceivesNc, Receives, ToServerPackets
<1>2. server \in TPMs
  BY DEF TypeOK, ServerUpdate
<1>3. learnt \in TPMs /\ lastTau \in Outputs
  BY <1>1, <1>2, LearntType DEF UpdatePackets
<1>4. server' \in TPMs /\ toClient' \in Seq(ToClientPackets)
  <2>1. CASE BelowThreshold(learnt)
    <3>1. PICK x \in Inputs :
            /\ server' = CalculateOutput(learnt, x)
            /\ toClient' = Append(toClient, NcPacket("UPDATE", x, server'.tau, lastTau))
      BY <2>1 DEF ServerUpdate
    <3>2. server' \in TPMs /\ server'.tau \in Outputs
      BY <1>3, <3>1, CalculateOutputType, TauType
    <3> QED
      BY <1>3, <3>1, <3>2, NcPacketType, QueueTypes DEF TypeOK, ToClientPackets
  <2>2. CASE ~BelowThreshold(learnt)
    <3>1. /\ server' = GenerateKey(learnt)
          /\ toClient' = Append(toClient, NcPacket("FINAL", ZeroVector, lastTau, lastTau))
      BY <2>2 DEF ServerUpdate
    <3>2. NcPacket("FINAL", ZeroVector, lastTau, lastTau) \in ToClientPackets
      BY <1>1, <1>3, NcPacketType DEF ToClientPackets, UpdatePackets
    <3> QED
      BY <1>3, <3>1, <3>2, GenerateKeyType, QueueTypes DEF TypeOK, ToClientPackets
  <2> QED
    BY <2>1, <2>2
<1> QED
  BY <1>1, <1>4 DEF TypeOK, ServerUpdate, ToServerPackets, ToClientPackets

(* Types alone are not inductive: SendEncryptedMessage reads m_nc->secret  *)
(* of whatever machine there is, so the proof carries NoNullDereference.   *)
TypeInv == TypeOK /\ NoNullDereference

LEMMA TypeStep ==
  ASSUME TypeInv, [Next]_vars
  PROVE  TypeOK'
<1> USE DEF TypeInv
<1>1. CASE UpdateKey
  BY <1>1, UpdateKeyType
<1>2. CASE ClientUpdate
  BY <1>2, ClientUpdateType
<1>3. CASE ClientFinal
  <2>1. client \in TPMs /\ toClient' \in Seq(ToClientPackets)
    BY <1>3, QueueTypes
       DEF TypeOK, ClientFinal, ReceivesNc, Receives, ToClientPackets
  <2>2. client' \in TPMs
    BY <1>3, <2>1, UpdateWeightsType, GenerateKeyType DEF ClientFinal
  <2> QED
    BY <1>3, <2>1, <2>2 DEF TypeOK, ClientFinal, ToClientPackets
<1>4. CASE SendEncryptedMessage
  <2>1. timers' \in Nat /\ running' \in BOOLEAN
    <3>1. timers \in Nat /\ timers > 0 /\ timers' = timers - 1
      BY <1>4 DEF TypeOK, SendEncryptedMessage
    <3>2. running' \in BOOLEAN
      BY <1>4 DEF SendEncryptedMessage
    <3> QED
      BY <3>1, <3>2
  <2>2. PICK m \in AES!EncryptedMessages(client.secret) : toServer' = Append(toServer, m)
    BY <1>4 DEF SendEncryptedMessage
  <2>3. client \in TPMs
    BY <1>4 DEF SendEncryptedMessage, TypeOK, NoNullDereference
  <2>4. m \in ToServerPackets
    <3>1. client.secret \in Weights \cup {NoKey}
      BY <2>3 DEF TPMs
    <3>2. m = AES!EmptyPacket \/ m = AES!Msg(client.secret)
      BY <2>2 DEF AES!EncryptedMessages
    <3>3. AES!Msg(client.secret) \in MsgPackets
      BY <3>1 DEF AES!Msg, MsgPackets
    <3> QED
      BY <3>2, <3>3 DEF ToServerPackets
  <2>5. toServer' \in Seq(ToServerPackets)
    BY <2>2, <2>4, QueueTypes DEF TypeOK, ToServerPackets
  <2> QED
    BY <1>4, <2>1, <2>5 DEF TypeOK, SendEncryptedMessage, ToServerPackets
<1>5. CASE ClientDecryptMSG
  BY <1>5, QueueTypes DEF TypeOK, ClientDecryptMSG, Receives
<1>6. CASE ServerBegin
  BY <1>6, ServerBeginType
<1>7. CASE ServerUpdate
  BY <1>7, ServerUpdateType
<1>8. CASE ServerFinal
  <2>1. server \in TPMs /\ toServer' \in Seq(ToServerPackets)
    BY <1>8, QueueTypes
       DEF TypeOK, ServerFinal, ReceivesNc, Receives, ToServerPackets
  <2>2. server' \in TPMs
    BY <1>8, <2>1, UpdateWeightsType, GenerateKeyType DEF ServerFinal
  <2> QED
    BY <1>8, <2>1, <2>2 DEF TypeOK, ServerFinal, ToServerPackets
<1>9. CASE ServerDecryptMSG
  <2>1. server \in TPMs /\ toServer' \in Seq(ToServerPackets)
    BY <1>9, QueueTypes DEF TypeOK, ServerDecryptMSG, Receives, ToServerPackets
  <2>2. AES!Msg(server.secret) \in ToClientPackets
    BY <2>1 DEF AES!Msg, TPMs, MsgPackets, ToClientPackets
  <2>3. toClient' \in Seq(ToClientPackets)
    BY <1>9, <2>2, QueueTypes DEF TypeOK, ServerDecryptMSG, ToClientPackets
  <2> QED
    BY <1>9, <2>1, <2>3 DEF TypeOK, ServerDecryptMSG, ToServerPackets, ToClientPackets
<1>10. CASE ServerReadEmpty
  BY <1>10, QueueTypes DEF TypeOK, ServerReadEmpty, Receives
<1>11. CASE Lose
  BY <1>11, QueueTypes DEF TypeOK, Lose
<1>12. CASE UNCHANGED vars
  BY <1>12 DEF TypeOK, vars
<1> QED
  BY <1>1, <1>2, <1>3, <1>4, <1>5, <1>6, <1>7, <1>8, <1>9, <1>10, <1>11, <1>12 DEF Next

LEMMA NullStep ==
  ASSUME TypeInv, [Next]_vars
  PROVE  NoNullDereference'
<1> USE DEF TypeInv, NoNullDereference
<1>0. /\ toServer \in Seq(ToServerPackets)
      /\ toClient \in Seq(ToClientPackets)
      /\ NULL \notin TPMs
  BY NcAssumption DEF TypeOK, ToServerPackets, ToClientPackets
<1>1. CASE UpdateKey
  <2>1. PICK w \in Weights, x \in Inputs :
          /\ client' = NewTPM(w, x)
          /\ toServer' = Append(toServer, NcPacket("BEGIN", x, client'.tau, client'.tau))
    BY <1>1 DEF UpdateKey
  <2>2. client' # NULL
    BY <1>0, <2>1, NewTPMType
  <2>3. server = NULL => \A i \in DOMAIN toServer' :
                           toServer'[i].type = "NC" /\ toServer'[i].state = "BEGIN"
    BY <1>0, <2>1 DEF NcPacket
  <2> QED
    BY <1>1, <2>2, <2>3 DEF UpdateKey
<1>2. CASE ClientUpdate
  <2>1. server # NULL /\ client # NULL
    BY <1>2 DEF ClientUpdate, ReceivesNc, Receives
  <2>2. client' # NULL
    BY <1>0, <1>2, ClientUpdateType
  <2> QED
    BY <1>2, <2>1, <2>2 DEF ClientUpdate
<1>3. CASE ClientFinal
  <2>1. server # NULL /\ client \in TPMs
    BY <1>3 DEF ClientFinal, ReceivesNc, Receives, TypeOK
  <2>2. client' # NULL
    BY <1>0, <1>3, <2>1, UpdateWeightsType, GenerateKeyType DEF ClientFinal
  <2> QED
    BY <1>3, <2>1, <2>2 DEF ClientFinal
<1>4. CASE SendEncryptedMessage
  <2>1. server # NULL /\ client # NULL
    BY <1>4 DEF SendEncryptedMessage, TypeOK
  <2> QED
    BY <1>4, <2>1 DEF SendEncryptedMessage
<1>5. CASE ClientDecryptMSG
  <2>1. server # NULL /\ client # NULL
    BY <1>5 DEF ClientDecryptMSG, Receives
  <2> QED
    BY <1>5, <2>1 DEF ClientDecryptMSG
<1>6. CASE ServerBegin
  <2>1. server' # NULL /\ client # NULL
    BY <1>0, <1>6, ServerBeginType DEF ServerBegin, ReceivesNc, Receives
  <2> QED
    BY <1>6, <2>1 DEF ServerBegin
<1>7. CASE ServerUpdate
  <2>1. server' # NULL /\ client # NULL
    BY <1>0, <1>7, ServerUpdateType DEF ServerUpdate, ReceivesNc, Receives
  <2> QED
    BY <1>7, <2>1 DEF ServerUpdate
<1>8. CASE ServerFinal
  <2>1. server' # NULL
    BY <1>0, <1>8, UpdateWeightsType, GenerateKeyType DEF ServerFinal, TypeOK
  <2> QED
    BY <1>8, <2>1 DEF ServerFinal
<1>9. CASE ServerDecryptMSG
  <2>1. server # NULL /\ client # NULL
    BY <1>9 DEF ServerDecryptMSG, Receives
  <2> QED
    BY <1>9, <2>1 DEF ServerDecryptMSG
<1>10. CASE ServerReadEmpty
  <2>1. server # NULL
    BY <1>10 DEF ServerReadEmpty, Receives
  <2> QED
    BY <1>10, <2>1 DEF ServerReadEmpty
<1>11. CASE Lose
  <2>1. CASE UNCHANGED toClient
    <3>1. \A i \in DOMAIN Tail(toServer) : i + 1 \in DOMAIN toServer /\ Tail(toServer)[i] = toServer[i + 1]
      BY <1>0
    <3> QED
      BY <1>11, <2>1, <3>1 DEF Lose
  <2>2. CASE UNCHANGED toServer
    BY <1>11, <2>2 DEF Lose
  <2> QED
    BY <1>11, <2>1, <2>2 DEF Lose
<1>12. CASE UNCHANGED vars
  BY <1>12 DEF vars
<1> QED
  BY <1>1, <1>2, <1>3, <1>4, <1>5, <1>6, <1>7, <1>8, <1>9, <1>10, <1>11, <1>12 DEF Next

LEMMA TypeInitially == Init => TypeInv
<1>1. Init => TypeOK
  <2>1. (\A S : <<>> \in Seq(S)) /\ 0 \in Nat
    OBVIOUS
  <2>2. Init => lost \in BOOLEAN /\ running \in BOOLEAN
    BY Zenon DEF Init
  <2> QED
    BY <2>1, <2>2, Zenon DEF Init, TypeOK
<1>2. Init => NoNullDereference
  <2>1. DOMAIN <<>> = {}
    OBVIOUS
  <2> QED
    BY <2>1 DEF Init, NoNullDereference
<1> QED
  BY <1>1, <1>2 DEF TypeInv

LEMMA TypeInvariance == Spec => []TypeInv
<1>1. Init => TypeInv
  BY TypeInitially
<1>2. TypeInv /\ [Next]_vars => TypeInv'
  BY TypeStep, NullStep DEF TypeInv
<1> QED
  BY <1>1, <1>2, PTL DEF Spec

(* The machines stay machines of NC.cc and the channels hold only packets  *)
(* of the data frame format, in every configuration of refresh and loss.   *)
THEOREM TypeCorrect == Spec => []TypeOK
BY TypeInvariance, PTL DEF TypeInv

(* No handler and no timer meets a machine that does not exist, in every   *)
(* configuration of refresh and loss.                                      *)
THEOREM NullSafety == Spec => []NoNullDereference
BY TypeInvariance, PTL DEF TypeInv

-----------------------------------------------------------------------------
(* Rounds in lockstep, when a negotiation ends before the next refresh.    *)

(* What the operators of TPM do to the round counter and the output bit.   *)
LEMMA RoundAndTau ==
  ASSUME NEW tpm \in TPMs, NEW x, NEW t
  PROVE  /\ UpdateWeights(tpm, t).round
              = IF tpm.tau = t THEN tpm.round + 1 ELSE tpm.round
         /\ UpdateWeights(tpm, t).tau = tpm.tau
         /\ CalculateOutput(tpm, x).round = tpm.round
         /\ GenerateKey(tpm).round = tpm.round
         /\ GenerateKey(tpm).tau = tpm.tau
BY DEF UpdateWeights, CalculateOutput, GenerateKey, TPMs

LEMMA NewTPMRound ==
  ASSUME NEW w, NEW x
  PROVE  NewTPM(w, x).round = 0
BY DEF NewTPM

(* The handler of UPDATE counts the sender's update and then its own.      *)
LEMMA LearntRound ==
  ASSUME NEW tpm \in TPMs, NEW p, p.inVector \in Inputs
  PROVE  /\ Learnt(tpm, p).round = IF Answer(tpm, p).tau = p.tau
                                   THEN CatchUp(tpm, p).round + 1
                                   ELSE CatchUp(tpm, p).round
         /\ Learnt(tpm, p).tau = Answer(tpm, p).tau
<1>1. CatchUp(tpm, p) \in TPMs /\ Answer(tpm, p) \in TPMs
  BY LearntType
<1>2. Answer(tpm, p).round = CatchUp(tpm, p).round
  BY <1>1, RoundAndTau DEF Answer
<1> QED
  BY <1>1, <1>2, RoundAndTau DEF Learnt

(* Where packets of the negotiation can be: one at a time, first in its    *)
(* queue, with nothing but MSGs behind it.                                 *)
OnePacket ==
  /\ \A i \in DOMAIN toServer : i > 1 => toServer[i].type # "NC"
  /\ ReceivesNc(toServer, "BEGIN") \/ ReceivesNc(toServer, "UPDATE") =>
       toServer = <<Head(toServer)>> /\ toClient = <<>> /\ timers = 0
  /\ ReceivesNc(toServer, "FINAL") => toClient = <<>>
  /\ Receives(toClient, "NC") =>
       toClient = <<Head(toClient)>> /\ toServer = <<>> /\ timers = 0
  /\ \A i \in DOMAIN toClient : i > 1 => toClient[i].type # "NC"

(* The packet in flight carries the output bit its sender still has, for   *)
(* the same input.                                                         *)
PacketOutput ==
  /\ ReceivesNc(toServer, "BEGIN") => Head(toServer).tau = client.tau /\ client.round = 0
  /\ ReceivesNc(toServer, "UPDATE") => Head(toServer).tau = client.tau
  /\ ReceivesNc(toServer, "FINAL") => Head(toServer).tau = Head(toServer).lastTau
  /\ ReceivesNc(toClient, "UPDATE") => Head(toClient).tau = server.tau
  /\ ReceivesNc(toClient, "FINAL") => Head(toClient).tau = Head(toClient).lastTau

LockstepInv == TypeInv /\ OnePacket /\ PacketOutput /\ RoundsInLockstep

LEMMA ServerUpdateLockstep ==
  ASSUME LockstepInv, ServerUpdate
  PROVE  OnePacket' /\ PacketOutput' /\ RoundsInLockstep'
<1> DEFINE p == Head(toServer)
           learnt == Learnt(server, p)
           lastTau == Answer(server, p).tau
<1>1. p \in UpdatePackets /\ server \in TPMs /\ client \in TPMs
  <2>1. p \in UpdatePackets /\ server \in TPMs
    BY QueueTypes, PacketByState
       DEF LockstepInv, TypeInv, TypeOK, ServerUpdate, ReceivesNc, Receives,
           ToServerPackets, ToClientPackets
  <2>2. client \in TPMs
    BY DEF LockstepInv, TypeInv, TypeOK, NoNullDereference, ServerUpdate, ReceivesNc, Receives
  <2> QED
    BY <2>1, <2>2
<1>2. toServer = <<p>> /\ toClient = <<>> /\ toServer' = <<>> /\ p.type = "NC" /\ p.state = "UPDATE"
  BY <1>1 DEF LockstepInv, OnePacket, ServerUpdate, ReceivesNc, Receives
<1>3. learnt \in TPMs /\ learnt.tau = lastTau
  BY <1>1, LearntType, LearntRound DEF UpdatePackets
<1> HIDE DEF learnt, lastTau
<1>4. PICK m : /\ toClient' = <<m>> /\ m.type = "NC" /\ m.state \in {"UPDATE", "FINAL"}
               /\ m.lastTau = lastTau
               /\ m.state = "UPDATE" => m.tau = server'.tau
               /\ m.state = "FINAL" => m.tau = m.lastTau
               /\ server' # NULL => server'.round = learnt.round
  <2>1. CASE BelowThreshold(learnt)
    <3>1. PICK x \in Inputs :
            /\ server' = CalculateOutput(learnt, x)
            /\ toClient' = Append(toClient, NcPacket("UPDATE", x, server'.tau, lastTau))
      BY <2>1 DEF ServerUpdate, learnt, lastTau
    <3>2. server'.round = learnt.round
      BY <1>3, <3>1, RoundAndTau
    <3> WITNESS NcPacket("UPDATE", x, server'.tau, lastTau)
    <3> QED
      BY <1>2, <3>1, <3>2 DEF NcPacket
  <2>2. CASE ~BelowThreshold(learnt)
    <3>1. /\ server' = GenerateKey(learnt)
          /\ toClient' = Append(toClient, NcPacket("FINAL", ZeroVector, lastTau, lastTau))
      BY <2>2 DEF ServerUpdate, learnt, lastTau
    <3>2. server'.round = learnt.round
      BY <1>3, <3>1, RoundAndTau
    <3> WITNESS NcPacket("FINAL", ZeroVector, lastTau, lastTau)
    <3> QED
      BY <1>2, <3>1, <3>2 DEF NcPacket
  <2> QED
    BY <2>1, <2>2
<1>5. client' = client /\ lost' = lost
  BY DEF ServerUpdate
<1>6. OnePacket' /\ PacketOutput'
  <2>1. timers' = 0
    BY <1>2 DEF LockstepInv, OnePacket, ServerUpdate, ReceivesNc, Receives
  <2> QED
    BY <1>2, <1>4, <2>1 DEF OnePacket, PacketOutput, ReceivesNc, Receives
<1>7. ASSUME Paired'
      PROVE  ClientView'.round = ServerView'.round
  <2>1. client.round = CatchUp(server, p).round
    <3>1. Paired
      BY <1>1, <1>2, <1>5, <1>7, NcAssumption DEF Paired, ReceivesNc, Receives
    <3>2. ClientView = client /\ ServerView = CatchUp(server, p)
      BY <1>2 DEF ClientView, ServerView, Pending, ReceivesNc, Receives
    <3> QED
      BY <3>1, <3>2 DEF LockstepInv, RoundsInLockstep
  <2>2. learnt.round = IF lastTau = client.tau
                       THEN CatchUp(server, p).round + 1 ELSE CatchUp(server, p).round
    BY <1>1, <1>2, LearntRound
       DEF learnt, lastTau, UpdatePackets, LockstepInv, PacketOutput, ReceivesNc, Receives
  <2>3. ServerView' = server' /\ ClientView' = CatchUp(client, m)
    BY <1>2, <1>4, <1>5 DEF ClientView, ServerView, Pending, ReceivesNc, Receives
  <2>4. ClientView'.round = IF client.tau = lastTau THEN client.round + 1 ELSE client.round
    BY <1>1, <1>4, <2>3, RoundAndTau DEF CatchUp
  <2>5. ServerView'.round = learnt.round
    BY <1>4, <1>7, <2>3 DEF Paired
  <2> QED
    BY <2>1, <2>2, <2>4, <2>5
<1> QED
  BY <1>6, <1>7 DEF RoundsInLockstep

LEMMA ClientUpdateLockstep ==
  ASSUME LockstepInv, ClientUpdate
  PROVE  OnePacket' /\ PacketOutput' /\ RoundsInLockstep'
<1> DEFINE p == Head(toClient)
           learnt == Learnt(client, p)
           lastTau == Answer(client, p).tau
<1>1. p \in UpdatePackets /\ client \in TPMs /\ server \in TPMs
  <2>1. p \in UpdatePackets /\ client \in TPMs
    BY QueueTypes, PacketByState
       DEF LockstepInv, TypeInv, TypeOK, ClientUpdate, ReceivesNc, Receives,
           ToServerPackets, ToClientPackets
  <2>2. server \in TPMs
    BY DEF LockstepInv, TypeInv, TypeOK, NoNullDereference, ClientUpdate, ReceivesNc, Receives
  <2> QED
    BY <2>1, <2>2
<1>2. toClient = <<p>> /\ toServer = <<>> /\ toClient' = <<>> /\ p.type = "NC" /\ p.state = "UPDATE"
  BY <1>1 DEF LockstepInv, OnePacket, ClientUpdate, ReceivesNc, Receives
<1>3. learnt \in TPMs /\ learnt.tau = lastTau
  BY <1>1, LearntType, LearntRound DEF UpdatePackets
<1> HIDE DEF learnt, lastTau
<1>4. PICK m : /\ toServer' = <<m>> /\ m.type = "NC" /\ m.state \in {"UPDATE", "FINAL"}
               /\ m.lastTau = lastTau
               /\ m.state = "UPDATE" => m.tau = client'.tau
               /\ m.state = "FINAL" => m.tau = m.lastTau
               /\ client' # NULL => client'.round = learnt.round
  <2>1. CASE BelowThreshold(learnt)
    <3>1. PICK x \in Inputs :
            /\ client' = CalculateOutput(learnt, x)
            /\ toServer' = Append(toServer, NcPacket("UPDATE", x, client'.tau, lastTau))
      BY <2>1 DEF ClientUpdate, learnt, lastTau
    <3>2. client'.round = learnt.round
      BY <1>3, <3>1, RoundAndTau
    <3> WITNESS NcPacket("UPDATE", x, client'.tau, lastTau)
    <3> QED
      BY <1>2, <3>1, <3>2 DEF NcPacket
  <2>2. CASE ~BelowThreshold(learnt)
    <3>1. /\ client' = GenerateKey(learnt)
          /\ toServer' = Append(toServer, NcPacket("FINAL", ZeroVector, lastTau, lastTau))
      BY <2>2 DEF ClientUpdate, learnt, lastTau
    <3>2. client'.round = learnt.round
      BY <1>3, <3>1, RoundAndTau
    <3> WITNESS NcPacket("FINAL", ZeroVector, lastTau, lastTau)
    <3> QED
      BY <1>2, <3>1, <3>2 DEF NcPacket
  <2> QED
    BY <2>1, <2>2
<1>5. server' = server /\ lost' = lost
  BY DEF ClientUpdate
<1>6. OnePacket' /\ PacketOutput'
  <2>1. m.state = "UPDATE" => timers' = 0
    <3>1. timers = 0
      BY <1>2 DEF LockstepInv, OnePacket, Receives
    <3>2. CASE BelowThreshold(learnt)
      BY <3>1, <3>2 DEF ClientUpdate, learnt
    <3>3. CASE ~BelowThreshold(learnt)
      BY <1>2, <1>4, <3>3 DEF ClientUpdate, learnt, NcPacket
    <3> QED
      BY <3>2, <3>3
  <2> QED
    BY <1>2, <1>4, <2>1 DEF OnePacket, PacketOutput, ReceivesNc, Receives
<1>7. ASSUME Paired'
      PROVE  ClientView'.round = ServerView'.round
  <2>1. server.round = CatchUp(client, p).round
    <3>1. Paired
      BY <1>1, <1>2, <1>5, <1>7, NcAssumption DEF Paired, ReceivesNc, Receives
    <3>2. ServerView = server /\ ClientView = CatchUp(client, p)
      BY <1>2 DEF ClientView, ServerView, Pending, ReceivesNc, Receives
    <3> QED
      BY <3>1, <3>2 DEF LockstepInv, RoundsInLockstep
  <2>2. learnt.round = IF lastTau = server.tau
                       THEN CatchUp(client, p).round + 1 ELSE CatchUp(client, p).round
    BY <1>1, <1>2, LearntRound
       DEF learnt, lastTau, UpdatePackets, LockstepInv, PacketOutput, ReceivesNc, Receives
  <2>3. ClientView' = client' /\ ServerView' = CatchUp(server, m)
    BY <1>2, <1>4, <1>5 DEF ClientView, ServerView, Pending, ReceivesNc, Receives
  <2>4. ServerView'.round = IF server.tau = lastTau THEN server.round + 1 ELSE server.round
    BY <1>1, <1>4, <2>3, RoundAndTau DEF CatchUp
  <2>5. ClientView'.round = learnt.round
    BY <1>4, <1>7, <2>3 DEF Paired
  <2> QED
    BY <2>1, <2>2, <2>4, <2>5
<1> QED
  BY <1>6, <1>7 DEF RoundsInLockstep

LEMMA UpdateKeyLockstep ==
  ASSUME LockstepInv, UpdateKey, ~Overlap
  PROVE  OnePacket' /\ PacketOutput' /\ RoundsInLockstep'
<1>1. toServer = <<>> /\ toClient = <<>> /\ timers = 0
  <2>1. toServer \in Seq(ToServerPackets) /\ toClient \in Seq(ToClientPackets) /\ timers \in Nat
    BY DEF LockstepInv, TypeInv, TypeOK, ToServerPackets, ToClientPackets
  <2>2. Len(toServer) + Len(toClient) + timers = 0
    BY DEF UpdateKey, Load
  <2>3. Len(toServer) = 0 /\ Len(toClient) = 0 /\ timers = 0
    BY <2>1, <2>2
  <2> QED
    BY <2>1, <2>3, EmptySeq
<1>2. PICK w \in Weights, x \in Inputs :
        /\ client' = NewTPM(w, x)
        /\ toServer' = Append(toServer, NcPacket("BEGIN", x, client'.tau, client'.tau))
  BY DEF UpdateKey
<1>3. client'.round = 0
  BY <1>2, NewTPMRound
<1>4. /\ toServer' = <<NcPacket("BEGIN", x, client'.tau, client'.tau)>>
      /\ toClient' = <<>> /\ timers' = 0
  BY <1>1, <1>2 DEF UpdateKey
<1>5. OnePacket' /\ PacketOutput'
  BY <1>3, <1>4 DEF OnePacket, PacketOutput, ReceivesNc, Receives, NcPacket
<1>6. ~Paired'
  BY <1>4 DEF Paired, ReceivesNc, Receives, NcPacket
<1> QED
  BY <1>5, <1>6 DEF RoundsInLockstep

LEMMA ServerBeginLockstep ==
  ASSUME LockstepInv, ServerBegin
  PROVE  OnePacket' /\ PacketOutput' /\ RoundsInLockstep'
<1> DEFINE p == Head(toServer)
<1>1. p \in BeginPackets /\ client \in TPMs
  BY QueueTypes, PacketByState
     DEF LockstepInv, TypeInv, TypeOK, NoNullDereference, ServerBegin, ReceivesNc, Receives,
         ToServerPackets
<1>2. toServer = <<p>> /\ toClient = <<>> /\ toServer' = <<>> /\ timers' = 0
  BY DEF LockstepInv, OnePacket, ServerBegin, ReceivesNc, Receives
<1>3. p.tau = client.tau /\ client.round = 0
  BY DEF LockstepInv, PacketOutput, ServerBegin
<1>4. PICK w \in Weights, x \in Inputs :
        LET fresh  == NewTPM(w, p.inVector)
            learnt == UpdateWeights(fresh, p.tau)
        IN  /\ server' = CalculateOutput(learnt, x)
            /\ toClient' = Append(toClient, NcPacket("UPDATE", x, server'.tau, fresh.tau))
  BY DEF ServerBegin
<1> DEFINE fresh  == NewTPM(w, p.inVector)
           learnt == UpdateWeights(fresh, p.tau)
           m == NcPacket("UPDATE", x, server'.tau, fresh.tau)
<1>5. fresh \in TPMs /\ learnt \in TPMs
  BY <1>1, NewTPMType, UpdateWeightsType DEF BeginPackets
<1>6. server' = CalculateOutput(learnt, x) /\ toClient' = <<m>>
  BY <1>2, <1>4
<1>7. fresh.round = 0
  BY NewTPMRound
<1> HIDE DEF fresh
<1>8. server'.round = IF fresh.tau = client.tau THEN 1 ELSE 0
  BY <1>3, <1>5, <1>6, <1>7, RoundAndTau
<1>9. /\ m.type = "NC" /\ m.state = "UPDATE"
      /\ m.tau = server'.tau /\ m.lastTau = fresh.tau
  BY DEF NcPacket
<1> HIDE DEF m
<1>10. OnePacket' /\ PacketOutput'
  BY <1>2, <1>6, <1>9 DEF OnePacket, PacketOutput, ReceivesNc, Receives
<1>11. ClientView' = CatchUp(client, m) /\ ServerView' = server'
  BY <1>2, <1>6, <1>9 DEF ServerBegin, ClientView, ServerView, Pending, ReceivesNc, Receives
<1>12. ClientView'.round = IF client.tau = fresh.tau THEN 1 ELSE 0
  BY <1>1, <1>3, <1>9, <1>11, RoundAndTau DEF CatchUp
<1> QED
  BY <1>8, <1>10, <1>11, <1>12 DEF RoundsInLockstep

(* Reading FINAL makes the pending update; the sender's counter is final.  *)
LEMMA ClientFinalLockstep ==
  ASSUME LockstepInv, ClientFinal
  PROVE  OnePacket' /\ PacketOutput' /\ RoundsInLockstep'
<1> DEFINE p == Head(toClient)
<1>1. client \in TPMs /\ server # NULL
  BY DEF LockstepInv, TypeInv, TypeOK, NoNullDereference, ClientFinal, ReceivesNc, Receives
<1>2. /\ toClient = <<p>> /\ toServer = <<>> /\ toClient' = <<>> /\ toServer' = <<>>
      /\ p.type = "NC" /\ p.state = "FINAL" /\ p.tau = p.lastTau
  BY DEF LockstepInv, OnePacket, PacketOutput, ClientFinal, ReceivesNc, Receives
<1>3. client'.round = CatchUp(client, p).round
  BY <1>1, <1>2, UpdateWeightsType, RoundAndTau DEF ClientFinal, CatchUp
<1>4. OnePacket' /\ PacketOutput'
  BY <1>2 DEF OnePacket, PacketOutput, ReceivesNc, Receives
<1>5. ASSUME Paired'
      PROVE  ClientView'.round = ServerView'.round
  <2>1. ClientView' = client' /\ ServerView' = server
    BY <1>2 DEF ClientFinal, ClientView, ServerView, Pending, ReceivesNc, Receives
  <2>2. ClientView = CatchUp(client, p) /\ ServerView = server
    BY <1>2 DEF ClientView, ServerView, Pending, ReceivesNc, Receives
  <2>3. Paired
    BY <1>1, <1>2, <1>5, NcAssumption DEF ClientFinal, Paired, ReceivesNc, Receives
  <2> QED
    BY <1>3, <2>1, <2>2, <2>3 DEF LockstepInv, RoundsInLockstep
<1> QED
  BY <1>4, <1>5 DEF RoundsInLockstep

(* Behind the first packet of a queue there are only MSGs.                 *)
LEMMA NoNcBehind ==
  ASSUME NEW S, NEW q \in Seq(S), q # <<>>,
         \A i \in DOMAIN q : i > 1 => q[i].type # "NC"
  PROVE  /\ \A i \in DOMAIN Tail(q) : Tail(q)[i].type # "NC"
         /\ ~Receives(Tail(q), "NC")
<1>1. \A i \in DOMAIN Tail(q) : i + 1 \in DOMAIN q /\ i + 1 > 1 /\ Tail(q)[i] = q[i + 1]
  OBVIOUS
<1>2. \A i \in DOMAIN Tail(q) : Tail(q)[i].type # "NC"
  BY <1>1
<1>3. Tail(q) # <<>> => 1 \in DOMAIN Tail(q) /\ Head(Tail(q)) = Tail(q)[1]
  OBVIOUS
<1> QED
  BY <1>2, <1>3 DEF Receives

(* Appending a MSG to a queue adds no packet of the negotiation.           *)
LEMMA AppendMsg ==
  ASSUME NEW S, NEW q \in Seq(S), NEW m \in S, m.type # "NC",
         \A i \in DOMAIN q : i > 1 => q[i].type # "NC"
  PROVE  /\ \A i \in DOMAIN Append(q, m) : i > 1 => Append(q, m)[i].type # "NC"
         /\ q # <<>> => Head(Append(q, m)) = Head(q)
         /\ Append(q, m) # <<>>
         /\ ~Receives(q, "NC") => ~Receives(Append(q, m), "NC")
<1>1. \A i \in DOMAIN Append(q, m) :
        \/ i \in DOMAIN q /\ Append(q, m)[i] = q[i]
        \/ Append(q, m)[i] = m
  OBVIOUS
<1>2. q = <<>> => Head(Append(q, m)) = m
  OBVIOUS
<1>3. q # <<>> => Head(Append(q, m)) = Head(q)
  OBVIOUS
<1>4. Append(q, m) # <<>>
  <2>1. Len(Append(q, m)) = Len(q) + 1 /\ Len(q) \in Nat
    OBVIOUS
  <2> QED
    BY <2>1
<1>5. \A i \in DOMAIN Append(q, m) : i > 1 => Append(q, m)[i].type # "NC"
  <2>1. SUFFICES ASSUME NEW i \in DOMAIN Append(q, m), i > 1
                 PROVE  Append(q, m)[i].type # "NC"
    OBVIOUS
  <2> QED
    BY <1>1, <2>1
<1>6. ~Receives(q, "NC") => ~Receives(Append(q, m), "NC")
  BY <1>2, <1>3 DEF Receives
<1> QED
  BY <1>3, <1>4, <1>5, <1>6

(* A step after which no packet of the negotiation is first in a queue, and*)
(* that changes no machine, keeps the invariant.                           *)
LEMMA QuietStep ==
  ASSUME LockstepInv, client' = client, server' = server,
         ~Receives(toServer, "NC")', ~Receives(toClient, "NC")',
         (\A i \in DOMAIN toServer : i > 1 => toServer[i].type # "NC")',
         (\A i \in DOMAIN toClient : i > 1 => toClient[i].type # "NC")',
         \/ lost'
         \/ lost' = lost /\ ~Receives(toServer, "NC") /\ ~Receives(toClient, "NC")
  PROVE  OnePacket' /\ PacketOutput' /\ RoundsInLockstep'
<1>1. OnePacket' /\ PacketOutput'
  BY DEF OnePacket, PacketOutput, ReceivesNc
<1>2. ASSUME Paired'
      PROVE  ClientView'.round = ServerView'.round
  <2>1. lost' = lost /\ ~Receives(toServer, "NC") /\ ~Receives(toClient, "NC")
    BY <1>2 DEF Paired
  <2>2. Paired
    BY <1>2, <2>1 DEF Paired, ReceivesNc
  <2>3. ClientView = client /\ ServerView = server
    BY <2>1 DEF ClientView, ServerView, Pending, ReceivesNc
  <2>4. ClientView' = client /\ ServerView' = server
    BY DEF ClientView, ServerView, Pending, ReceivesNc
  <2> QED
    BY <2>2, <2>3, <2>4 DEF LockstepInv, RoundsInLockstep
<1> QED
  BY <1>1, <1>2 DEF RoundsInLockstep

LEMMA ServerFinalLockstep ==
  ASSUME LockstepInv, ServerFinal
  PROVE  OnePacket' /\ PacketOutput' /\ RoundsInLockstep'
<1> DEFINE p == Head(toServer)
<1>1. server \in TPMs /\ client # NULL /\ toServer \in Seq(ToServerPackets)
  BY DEF LockstepInv, TypeInv, TypeOK, NoNullDereference, ServerFinal, ReceivesNc, Receives,
         ToServerPackets
<1>2. /\ toServer # <<>> /\ toClient = <<>> /\ toClient' = <<>>
      /\ p.type = "NC" /\ p.state = "FINAL" /\ p.tau = p.lastTau
  BY DEF LockstepInv, OnePacket, PacketOutput, ServerFinal, ReceivesNc, Receives
<1>3. server'.round = CatchUp(server, p).round
  BY <1>1, <1>2, UpdateWeightsType, RoundAndTau DEF ServerFinal, CatchUp
<1>4. /\ toServer' = Tail(toServer)
      /\ \A i \in DOMAIN toServer' : toServer'[i].type # "NC"
      /\ ~Receives(toServer', "NC") /\ ~Receives(toClient', "NC")
  <2>1. \A i \in DOMAIN toServer : i > 1 => toServer[i].type # "NC"
    BY DEF LockstepInv, OnePacket
  <2>2. toServer' = Tail(toServer)
    BY DEF ServerFinal
  <2>3. ~Receives(toClient', "NC")
    BY <1>2 DEF Receives
  <2> QED
    BY <1>1, <1>2, <2>1, <2>2, <2>3, NoNcBehind
<1>5. OnePacket' /\ PacketOutput'
  BY <1>2, <1>4 DEF OnePacket, PacketOutput, ReceivesNc
<1>6. ASSUME Paired'
      PROVE  ClientView'.round = ServerView'.round
  <2>1. ClientView' = client /\ ServerView' = server'
    BY <1>4 DEF ServerFinal, ClientView, ServerView, Pending, ReceivesNc
  <2>2. ClientView = client /\ ServerView = CatchUp(server, p)
    BY <1>2 DEF ClientView, ServerView, Pending, ReceivesNc, Receives
  <2>3. Paired
    BY <1>1, <1>2, <1>6 DEF ServerFinal, Paired, ReceivesNc, Receives
  <2> QED
    BY <1>3, <2>1, <2>2, <2>3 DEF LockstepInv, RoundsInLockstep
<1> QED
  BY <1>5, <1>6 DEF RoundsInLockstep

LEMMA SendEncryptedMessageLockstep ==
  ASSUME LockstepInv, SendEncryptedMessage
  PROVE  OnePacket' /\ PacketOutput' /\ RoundsInLockstep'
<1>1. /\ toServer \in Seq(ToServerPackets) /\ client \in TPMs /\ server # NULL
      /\ timers # 0 /\ timers > 0
  BY DEF LockstepInv, TypeInv, TypeOK, NoNullDereference, SendEncryptedMessage, ToServerPackets
<1>2. PICK m \in AES!EncryptedMessages(client.secret) : toServer' = Append(toServer, m)
  BY DEF SendEncryptedMessage
<1>3. m \in ToServerPackets /\ m.type # "NC"
  <2>1. client.secret \in Weights \cup {NoKey}
    BY <1>1 DEF TPMs
  <2>2. m = AES!EmptyPacket \/ m = AES!Msg(client.secret)
    BY DEF AES!EncryptedMessages
  <2>3. AES!Msg(client.secret) \in MsgPackets
    BY <2>1 DEF AES!Msg, MsgPackets
  <2> QED
    BY <2>2, <2>3 DEF ToServerPackets, AES!Msg, AES!EmptyPacket
<1>4. \A i \in DOMAIN toServer : i > 1 => toServer[i].type # "NC"
  BY DEF LockstepInv, OnePacket
<1>5. /\ \A i \in DOMAIN toServer' : i > 1 => toServer'[i].type # "NC"
      /\ toServer # <<>> => Head(toServer') = Head(toServer)
      /\ toServer' # <<>>
      /\ ~Receives(toServer, "NC") => ~Receives(toServer', "NC")
  BY <1>1, <1>2, <1>3, <1>4, AppendMsg
<1>6. /\ client' = client /\ server' = server /\ toClient' = toClient /\ lost' = lost
      /\ ~Receives(toClient, "NC")
      /\ ~ReceivesNc(toServer, "BEGIN") /\ ~ReceivesNc(toServer, "UPDATE")
  BY <1>1 DEF LockstepInv, OnePacket, SendEncryptedMessage
<1>7. \A st : ReceivesNc(toServer', st) <=> ReceivesNc(toServer, st)
  BY <1>5 DEF ReceivesNc, Receives
<1>8. \A st : ReceivesNc(toServer, st) => Head(toServer') = Head(toServer)
  BY <1>5 DEF ReceivesNc, Receives
<1>9. \A st : ~ReceivesNc(toClient, st) /\ ~ReceivesNc(toClient', st)
  BY <1>6 DEF ReceivesNc
<1>10. OnePacket'
  BY <1>5, <1>6, <1>7 DEF LockstepInv, OnePacket
<1>11. PacketOutput'
  BY <1>6, <1>7, <1>8, <1>9 DEF LockstepInv, PacketOutput
<1>12. RoundsInLockstep'
  <2>1. Paired' <=> Paired
    BY <1>6, <1>7 DEF Paired
  <2>2. ClientView' = ClientView /\ ServerView' = ServerView
    BY <1>6, <1>7, <1>8, <1>9 DEF ClientView, ServerView, Pending
  <2> QED
    BY <2>1, <2>2 DEF LockstepInv, RoundsInLockstep
<1> QED
  BY <1>10, <1>11, <1>12

LEMMA MsgLockstep ==
  ASSUME LockstepInv, ClientDecryptMSG \/ ServerDecryptMSG \/ ServerReadEmpty \/ Lose
  PROVE  OnePacket' /\ PacketOutput' /\ RoundsInLockstep'
<1>1. /\ toServer \in Seq(ToServerPackets) /\ toClient \in Seq(ToClientPackets)
      /\ \A i \in DOMAIN toServer : i > 1 => toServer[i].type # "NC"
      /\ \A i \in DOMAIN toClient : i > 1 => toClient[i].type # "NC"
      /\ toServer # <<>> => ~Receives(toClient, "NC")
      /\ toClient # <<>> => ~Receives(toServer, "NC")
  <2>1. toClient # <<>> => ~Receives(toServer, "NC")
    <3>1. Receives(toServer, "NC") =>
            \/ ReceivesNc(toServer, "BEGIN") \/ ReceivesNc(toServer, "UPDATE")
            \/ ReceivesNc(toServer, "FINAL")
      BY QueueTypes
         DEF LockstepInv, TypeInv, TypeOK, Receives, ReceivesNc, BeginPackets, UpdatePackets,
             FinalPackets, MsgPackets, AES!EmptyPacket
    <3> QED
      BY <3>1 DEF LockstepInv, OnePacket
  <2> QED
    BY <2>1 DEF LockstepInv, TypeInv, TypeOK, OnePacket, ToServerPackets, ToClientPackets
<1>2. CASE ClientDecryptMSG
  <2>1. /\ toClient # <<>> /\ toClient' = Tail(toClient) /\ toServer' = toServer
        /\ client' = client /\ server' = server /\ lost' = lost
        /\ ~Receives(toClient, "NC") /\ ~Receives(toServer, "NC")
    BY <1>1, <1>2 DEF ClientDecryptMSG, Receives
  <2>2. ~Receives(toClient', "NC") /\ \A i \in DOMAIN toClient' : toClient'[i].type # "NC"
    BY <1>1, <2>1, NoNcBehind
  <2> QED
    BY <1>1, <2>1, <2>2, QuietStep
<1>3. CASE ServerDecryptMSG
  <2>1. /\ toServer # <<>> /\ toServer' = Tail(toServer)
        /\ client' = client /\ server' = server /\ lost' = lost
        /\ ~Receives(toServer, "NC") /\ ~Receives(toClient, "NC")
        /\ server \in TPMs
    BY <1>1, <1>3 DEF ServerDecryptMSG, Receives, LockstepInv, TypeInv, TypeOK
  <2>2. ~Receives(toServer', "NC") /\ \A i \in DOMAIN toServer' : toServer'[i].type # "NC"
    BY <1>1, <2>1, NoNcBehind
  <2>3. toClient' = toClient \/ toClient' = Append(toClient, AES!Msg(server.secret))
    BY <1>3 DEF ServerDecryptMSG
  <2>4. AES!Msg(server.secret) \in ToClientPackets /\ AES!Msg(server.secret).type # "NC"
    BY <2>1 DEF AES!Msg, TPMs, MsgPackets, ToClientPackets
  <2>5. /\ ~Receives(toClient', "NC")
        /\ \A i \in DOMAIN toClient' : i > 1 => toClient'[i].type # "NC"
    BY <1>1, <2>1, <2>3, <2>4, AppendMsg
  <2> QED
    BY <2>1, <2>2, <2>5, QuietStep
<1>4. CASE ServerReadEmpty
  <2>1. /\ toServer # <<>> /\ toServer' = Tail(toServer) /\ toClient' = toClient
        /\ client' = client /\ server' = server /\ lost' = lost
        /\ ~Receives(toServer, "NC") /\ ~Receives(toClient, "NC")
    BY <1>1, <1>4 DEF ServerReadEmpty, Receives
  <2>2. ~Receives(toServer', "NC") /\ \A i \in DOMAIN toServer' : toServer'[i].type # "NC"
    BY <1>1, <2>1, NoNcBehind
  <2> QED
    BY <1>1, <2>1, <2>2, QuietStep
<1>5. CASE Lose
  <2>1. CASE toServer # <<>> /\ toServer' = Tail(toServer) /\ UNCHANGED toClient
                /\ lost' = (lost \/ Head(toServer).type = "NC")
    <3>1. ~Receives(toServer', "NC") /\ \A i \in DOMAIN toServer' : toServer'[i].type # "NC"
      BY <1>1, <2>1, NoNcBehind
    <3>2. lost' \/ (lost' = lost /\ ~Receives(toServer, "NC") /\ ~Receives(toClient, "NC"))
      BY <1>1, <2>1 DEF Receives, LockstepInv, TypeInv, TypeOK
    <3> QED
      BY <1>1, <1>5, <2>1, <3>1, <3>2, QuietStep DEF Lose
  <2>2. CASE toClient # <<>> /\ toClient' = Tail(toClient) /\ UNCHANGED toServer
                /\ lost' = (lost \/ Head(toClient).type = "NC")
    <3>1. ~Receives(toClient', "NC") /\ \A i \in DOMAIN toClient' : toClient'[i].type # "NC"
      BY <1>1, <2>2, NoNcBehind
    <3>2. lost' \/ (lost' = lost /\ ~Receives(toServer, "NC") /\ ~Receives(toClient, "NC"))
      BY <1>1, <2>2 DEF Receives, LockstepInv, TypeInv, TypeOK
    <3> QED
      BY <1>1, <1>5, <2>2, <3>1, <3>2, QuietStep DEF Lose
  <2> QED
    BY <1>5, <2>1, <2>2 DEF Lose
<1> QED
  BY <1>2, <1>3, <1>4, <1>5

LEMMA LockstepInvariance ==
  ASSUME Overlap = FALSE
  PROVE  Spec => []LockstepInv
<1>1. Init => LockstepInv
  <2>1. Init => TypeInv
    BY TypeInitially
  <2>2. Init => OnePacket /\ PacketOutput
    BY DEF Init, OnePacket, PacketOutput, ReceivesNc, Receives
  <2>3. Init => RoundsInLockstep
    BY DEF Init, RoundsInLockstep, Paired
  <2> QED
    BY <2>1, <2>2, <2>3 DEF LockstepInv
<1>2. ASSUME LockstepInv, [Next]_vars
      PROVE  LockstepInv'
  <2>1. TypeInv'
    BY <1>2, TypeStep, NullStep DEF LockstepInv, TypeInv
  <2>2. CASE UNCHANGED vars
    BY <1>2, <2>1, <2>2
       DEF vars, LockstepInv, OnePacket, PacketOutput, RoundsInLockstep, Paired,
           ClientView, ServerView, Pending, ReceivesNc, Receives
  <2>3. CASE Next
    BY <1>2, <2>1, <2>3, UpdateKeyLockstep, ClientUpdateLockstep, ClientFinalLockstep,
       SendEncryptedMessageLockstep, ServerBeginLockstep, ServerUpdateLockstep,
       ServerFinalLockstep, MsgLockstep DEF Next, LockstepInv
  <2> QED
    BY <1>2, <2>2, <2>3
<1> QED
  BY <1>1, <1>2, PTL DEF Spec

(* When every negotiation ends before the next refresh, the two round      *)
(* counters never drift apart, with or without packet loss: applying       *)
(* LastOwnOutput and then OwnOutput makes every update once on each side.  *)
THEOREM Lockstep ==
  ASSUME Overlap = FALSE
  PROVE  Spec => []RoundsInLockstep
BY LockstepInvariance, PTL DEF LockstepInv

-----------------------------------------------------------------------------
(* The end of a negotiation: FINAL, the keys, the round at which they are  *)
(* taken and the MSG that follows, when each negotiation ends before the   *)
(* next refresh.                                                           *)

(* A side has no key while packets of the exchange are on their way to the *)
(* side or from it, and the sender of FINAL has one.                       *)
KeysComeWithFinal ==
  /\ ReceivesNc(toServer, "BEGIN") \/ ReceivesNc(toServer, "UPDATE") \/ Receives(toClient, "NC") =>
       ~Keyed(client)
  /\ ReceivesNc(toServer, "UPDATE") \/ ReceivesNc(toServer, "FINAL") \/ ReceivesNc(toClient, "UPDATE") =>
       ~Keyed(server)
  /\ ReceivesNc(toServer, "FINAL") => Keyed(client)
  /\ ReceivesNc(toClient, "FINAL") => Keyed(server)

(* The one packet of a negotiation is first in its queue, until it is lost *)
(* or has brought both sides to their key.                                 *)
Carried ==
  ~lost /\ client # NULL =>
    Receives(toServer, "NC") \/ Receives(toClient, "NC") \/ (Keyed(client) /\ Keyed(server))

KeyInv == LockstepInv /\ KeysComeWithFinal /\ MsgUnderCurrentKey /\ Carried

-----------------------------------------------------------------------------
(* What the operators of TPM do to the secret.                             *)
LEMMA Secrets ==
  ASSUME NEW tpm \in TPMs, NEW x, NEW t
  PROVE  /\ UpdateWeights(tpm, t).secret = tpm.secret
         /\ CalculateOutput(tpm, x).secret = tpm.secret
         /\ GenerateKey(tpm).secret = tpm.weights
         /\ GenerateKey(tpm).secret # NoKey
BY TpmAssumption DEF UpdateWeights, CalculateOutput, GenerateKey, TPMs

LEMMA NewTPMSecret ==
  ASSUME NEW w, NEW x
  PROVE  NewTPM(w, x).secret = NoKey
BY DEF NewTPM

LEMMA LearntSecret ==
  ASSUME NEW tpm \in TPMs, NEW p, p.inVector \in Inputs
  PROVE  Learnt(tpm, p).secret = tpm.secret
<1>1. CatchUp(tpm, p) \in TPMs /\ Answer(tpm, p) \in TPMs
  BY LearntType
<1>2. CatchUp(tpm, p).secret = tpm.secret
  BY Secrets DEF CatchUp
<1>3. Answer(tpm, p).secret = CatchUp(tpm, p).secret
  BY <1>1, Secrets DEF Answer
<1>4. Learnt(tpm, p).secret = Answer(tpm, p).secret
  BY <1>1, Secrets DEF Learnt
<1> QED
  BY <1>2, <1>3, <1>4

(* A queue that holds one packet, and one that holds none.                 *)
LEMMA Single ==
  ASSUME NEW m
  PROVE  /\ \A t : Receives(<<m>>, t) <=> m.type = t
         /\ \A s : ReceivesNc(<<m>>, s) <=> m.type = "NC" /\ m.state = s
         /\ \A t : ~Receives(<<>>, t)
         /\ \A s : ~ReceivesNc(<<>>, s)
BY DEF Receives, ReceivesNc

(* What can be in the queues, from KeyInv.                                 *)
LEMMA Queues ==
  ASSUME KeyInv
  PROVE  /\ toServer \in Seq(ToServerPackets) /\ toClient \in Seq(ToClientPackets)
         /\ \A i \in DOMAIN toServer : i > 1 => toServer[i].type # "NC"
         /\ \A i \in DOMAIN toClient : i > 1 => toClient[i].type # "NC"
         /\ toServer # <<>> => ~Receives(toClient, "NC")
         /\ toClient # <<>> => ~Receives(toServer, "NC")
         /\ ReceivesNc(toServer, "FINAL") => toClient = <<>>
<1>1. Receives(toServer, "NC") =>
        \/ ReceivesNc(toServer, "BEGIN") \/ ReceivesNc(toServer, "UPDATE")
        \/ ReceivesNc(toServer, "FINAL")
  BY QueueTypes
     DEF KeyInv, LockstepInv, TypeInv, TypeOK, Receives, ReceivesNc, BeginPackets,
         UpdatePackets, FinalPackets, MsgPackets, AES!EmptyPacket
<1> QED
  BY <1>1 DEF KeyInv, LockstepInv, TypeInv, TypeOK, OnePacket, ToServerPackets, ToClientPackets

LEMMA QueuesAreEmpty ==
  ASSUME KeyInv, UpdateKey, ~Overlap
  PROVE  toServer = <<>> /\ toClient = <<>>
<1>1. toServer \in Seq(ToServerPackets) /\ toClient \in Seq(ToClientPackets) /\ timers \in Nat
  BY DEF KeyInv, LockstepInv, TypeInv, TypeOK, ToServerPackets, ToClientPackets
<1>2. Len(toServer) + Len(toClient) + timers = 0
  BY DEF UpdateKey, Load
<1>3. Len(toServer) = 0 /\ Len(toClient) = 0
  BY <1>1, <1>2
<1> QED
  BY <1>1, <1>3, EmptySeq

-----------------------------------------------------------------------------
(* One lemma per handler.                                                  *)

LEMMA UpdateKeyKeys ==
  ASSUME KeyInv, UpdateKey, ~Overlap
  PROVE  KeysComeWithFinal' /\ MsgUnderCurrentKey' /\ Carried'
<1>1. toServer = <<>> /\ toClient = <<>> /\ timers = 0
  <2>1. toServer = <<>> /\ toClient = <<>>
    BY QueuesAreEmpty
  <2>2. timers = 0
    BY <2>1 DEF UpdateKey, Load, KeyInv, LockstepInv, TypeInv, TypeOK
  <2> QED
    BY <2>1, <2>2
<1>2. PICK w \in Weights, x \in Inputs :
        /\ client' = NewTPM(w, x)
        /\ toServer' = Append(toServer, NcPacket("BEGIN", x, client'.tau, client'.tau))
  BY DEF UpdateKey
<1> DEFINE m == NcPacket("BEGIN", x, client'.tau, client'.tau)
<1>3. toServer' = <<m>> /\ toClient' = <<>> /\ timers' = 0
  BY <1>1, <1>2 DEF UpdateKey
<1>4. m.type = "NC" /\ m.state = "BEGIN"
  BY DEF NcPacket
<1>5. ~Keyed(client)'
  BY <1>2, NewTPMSecret DEF Keyed
<1> HIDE DEF m
<1>6. KeysComeWithFinal' /\ Carried'
  BY <1>3, <1>4, <1>5, Single DEF KeysComeWithFinal, Carried
<1>7. MsgUnderCurrentKey'
  BY <1>3, <1>4 DEF MsgUnderCurrentKey
<1> QED
  BY <1>6, <1>7

LEMMA ClientUpdateKeys ==
  ASSUME KeyInv, ClientUpdate
  PROVE  KeysComeWithFinal' /\ MsgUnderCurrentKey' /\ Carried'
<1> DEFINE p == Head(toClient)
           learnt == Learnt(client, p)
           lastTau == Answer(client, p).tau
<1>1. p \in UpdatePackets /\ client \in TPMs
  BY QueueTypes, PacketByState
     DEF KeyInv, LockstepInv, TypeInv, TypeOK, ClientUpdate, ReceivesNc, Receives,
         ToServerPackets, ToClientPackets
<1>2. /\ toClient = <<p>> /\ toServer = <<>> /\ toClient' = <<>>
      /\ p.type = "NC" /\ p.state = "UPDATE" /\ timers = 0
  BY <1>1 DEF KeyInv, LockstepInv, OnePacket, ClientUpdate, ReceivesNc, Receives
<1>3. ~Keyed(client) /\ ~Keyed(server) /\ server' = server /\ client # NULL
  BY <1>1, <1>2, NcAssumption
     DEF KeyInv, KeysComeWithFinal, ClientUpdate, ReceivesNc, Receives
<1>4. learnt \in TPMs /\ learnt.secret = NoKey
  BY <1>1, <1>3, LearntType, LearntSecret DEF UpdatePackets, Keyed
<1> HIDE DEF learnt, lastTau
<1>5. CASE BelowThreshold(learnt)
  <2>1. PICK x \in Inputs :
          /\ client' = CalculateOutput(learnt, x)
          /\ toServer' = Append(toServer, NcPacket("UPDATE", x, client'.tau, lastTau))
          /\ timers' = timers
    BY <1>5 DEF ClientUpdate, learnt, lastTau
  <2> DEFINE m == NcPacket("UPDATE", x, client'.tau, lastTau)
  <2>2. ~Keyed(client)' /\ ~Keyed(server)'
    BY <1>3, <1>4, <2>1, Secrets DEF Keyed
  <2>3. toServer' = <<m>> /\ m.type = "NC" /\ m.state = "UPDATE"
    BY <1>2, <2>1 DEF NcPacket
  <2> HIDE DEF m
  <2> QED
    BY <1>2, <2>1, <2>2, <2>3, Single DEF KeysComeWithFinal, Carried, MsgUnderCurrentKey
<1>6. CASE ~BelowThreshold(learnt)
  <2>1. /\ client' = GenerateKey(learnt)
        /\ toServer' = Append(toServer, NcPacket("FINAL", ZeroVector, lastTau, lastTau))
    BY <1>6 DEF ClientUpdate, learnt, lastTau
  <2> DEFINE m == NcPacket("FINAL", ZeroVector, lastTau, lastTau)
  <2>2. Keyed(client)' /\ ~Keyed(server)'
    <3>1. client' \in TPMs /\ client'.secret # NoKey
      BY <1>4, <2>1, Secrets, GenerateKeyType
    <3> QED
      BY <1>3, <3>1, NcAssumption DEF Keyed
  <2>3. toServer' = <<m>> /\ m.type = "NC" /\ m.state = "FINAL"
    BY <1>2, <2>1 DEF NcPacket
  <2> HIDE DEF m
  <2> QED
    BY <1>2, <2>2, <2>3, Single DEF KeysComeWithFinal, Carried, MsgUnderCurrentKey
<1> QED
  BY <1>5, <1>6

LEMMA ServerBeginKeys ==
  ASSUME KeyInv, ServerBegin
  PROVE  KeysComeWithFinal' /\ MsgUnderCurrentKey' /\ Carried'
<1> DEFINE p == Head(toServer)
<1>1. /\ toServer = <<p>> /\ toClient = <<>> /\ toServer' = <<>> /\ timers' = 0
      /\ ~Keyed(client) /\ client' = client /\ p.type = "NC"
  BY DEF KeyInv, LockstepInv, OnePacket, KeysComeWithFinal, ServerBegin, ReceivesNc, Receives
<1>2. p \in BeginPackets
  BY QueueTypes, PacketByState
     DEF KeyInv, LockstepInv, TypeInv, TypeOK, ServerBegin, ReceivesNc, Receives, ToServerPackets
<1>3. PICK w \in Weights, x \in Inputs :
        LET fresh  == NewTPM(w, p.inVector)
            learnt == UpdateWeights(fresh, p.tau)
        IN  /\ server' = CalculateOutput(learnt, x)
            /\ toClient' = Append(toClient, NcPacket("UPDATE", x, server'.tau, fresh.tau))
  BY DEF ServerBegin
<1> DEFINE fresh  == NewTPM(w, p.inVector)
           learnt == UpdateWeights(fresh, p.tau)
           m      == NcPacket("UPDATE", x, server'.tau, fresh.tau)
<1>4. fresh \in TPMs /\ fresh.secret = NoKey
  BY <1>2, NewTPMType, NewTPMSecret DEF BeginPackets
<1> HIDE DEF fresh
<1>5. learnt \in TPMs /\ learnt.secret = NoKey
  BY <1>4, UpdateWeightsType, Secrets
<1> HIDE DEF learnt
<1>6. server' = CalculateOutput(learnt, x) /\ toClient' = <<m>>
  BY <1>1, <1>3 DEF fresh, learnt
<1>7. ~Keyed(server)'
  BY <1>5, <1>6, Secrets DEF Keyed
<1>8. m.type = "NC" /\ m.state = "UPDATE"
  BY DEF NcPacket
<1>9. ~Keyed(client)'
  BY <1>1 DEF Keyed
<1> HIDE DEF m
<1>10. KeysComeWithFinal' /\ Carried'
  BY <1>1, <1>6, <1>7, <1>8, <1>9, Single DEF KeysComeWithFinal, Carried
<1>11. MsgUnderCurrentKey'
  BY <1>1 DEF MsgUnderCurrentKey
<1> QED
  BY <1>10, <1>11

LEMMA ServerUpdateKeys ==
  ASSUME KeyInv, ServerUpdate
  PROVE  KeysComeWithFinal' /\ MsgUnderCurrentKey' /\ Carried'
<1> DEFINE p == Head(toServer)
           learnt == Learnt(server, p)
           lastTau == Answer(server, p).tau
<1>1. p \in UpdatePackets /\ server \in TPMs
  BY QueueTypes, PacketByState
     DEF KeyInv, LockstepInv, TypeInv, TypeOK, ServerUpdate, ReceivesNc, Receives,
         ToServerPackets, ToClientPackets
<1>2. /\ toServer = <<p>> /\ toClient = <<>> /\ toServer' = <<>>
      /\ p.type = "NC" /\ p.state = "UPDATE" /\ timers' = 0
  BY <1>1 DEF KeyInv, LockstepInv, OnePacket, ServerUpdate, ReceivesNc, Receives
<1>3. ~Keyed(client) /\ ~Keyed(server) /\ client' = client /\ server # NULL
  BY <1>1, <1>2, NcAssumption
     DEF KeyInv, KeysComeWithFinal, ServerUpdate, ReceivesNc, Receives
<1>4. learnt \in TPMs /\ learnt.secret = NoKey
  BY <1>1, <1>3, LearntType, LearntSecret DEF UpdatePackets, Keyed
<1>5. ~Keyed(client)' /\ MsgUnderCurrentKey'
  BY <1>2, <1>3 DEF Keyed, MsgUnderCurrentKey
<1> HIDE DEF learnt, lastTau
<1>6. CASE BelowThreshold(learnt)
  <2>1. PICK x \in Inputs :
          /\ server' = CalculateOutput(learnt, x)
          /\ toClient' = Append(toClient, NcPacket("UPDATE", x, server'.tau, lastTau))
    BY <1>6 DEF ServerUpdate, learnt, lastTau
  <2> DEFINE m == NcPacket("UPDATE", x, server'.tau, lastTau)
  <2>2. ~Keyed(server)'
    BY <1>4, <2>1, Secrets DEF Keyed
  <2>3. toClient' = <<m>> /\ m.type = "NC" /\ m.state = "UPDATE"
    BY <1>2, <2>1 DEF NcPacket
  <2> HIDE DEF m
  <2> QED
    BY <1>2, <1>5, <2>2, <2>3, Single DEF KeysComeWithFinal, Carried
<1>7. CASE ~BelowThreshold(learnt)
  <2>1. /\ server' = GenerateKey(learnt)
        /\ toClient' = Append(toClient, NcPacket("FINAL", ZeroVector, lastTau, lastTau))
    BY <1>7 DEF ServerUpdate, learnt, lastTau
  <2> DEFINE m == NcPacket("FINAL", ZeroVector, lastTau, lastTau)
  <2>2. Keyed(server)'
    <3>1. server' \in TPMs /\ server'.secret # NoKey
      BY <1>4, <2>1, Secrets, GenerateKeyType
    <3> QED
      BY <3>1, NcAssumption DEF Keyed
  <2>3. toClient' = <<m>> /\ m.type = "NC" /\ m.state = "FINAL"
    BY <1>2, <2>1 DEF NcPacket
  <2> HIDE DEF m
  <2> QED
    BY <1>2, <1>5, <2>2, <2>3, Single DEF KeysComeWithFinal, Carried
<1> QED
  BY <1>6, <1>7

LEMMA ClientFinalKeys ==
  ASSUME KeyInv, ClientFinal
  PROVE  KeysComeWithFinal' /\ MsgUnderCurrentKey' /\ Carried'
<1> DEFINE p == Head(toClient)
<1>1. /\ client \in TPMs /\ toServer' = <<>> /\ toClient' = <<>> /\ server' = server
      /\ Keyed(server)
  BY DEF KeyInv, LockstepInv, TypeInv, TypeOK, OnePacket, KeysComeWithFinal, ClientFinal,
         ReceivesNc, Receives
<1>2. Keyed(client)' /\ Keyed(server)'
  <2>1. client' \in TPMs /\ client'.secret # NoKey
    BY <1>1, UpdateWeightsType, GenerateKeyType, Secrets DEF ClientFinal
  <2> QED
    BY <1>1, <2>1, NcAssumption DEF Keyed
<1>3. KeysComeWithFinal' /\ Carried'
  <2>1. \A t : ~Receives(toServer', t) /\ ~Receives(toClient', t)
    BY <1>1, Single
  <2> QED
    BY <1>2, <2>1 DEF KeysComeWithFinal, Carried, ReceivesNc
<1>4. MsgUnderCurrentKey'
  BY <1>1, <1>2 DEF MsgUnderCurrentKey
<1> QED
  BY <1>3, <1>4

-----------------------------------------------------------------------------
(* The handlers that change no NC packet but the first of a queue.         *)

(* What is left of a queue of MSGs under one key is MSGs under that key.   *)
LEMMA RestOfMessages ==
  ASSUME NEW S, NEW q \in Seq(S), q # <<>>, NEW m,
         \A i \in DOMAIN q : q[i].type # "NC" => q[i] = m
  PROVE  \A i \in DOMAIN Tail(q) : Tail(q)[i].type # "NC" => Tail(q)[i] = m
<1>1. \A i \in DOMAIN Tail(q) : i + 1 \in DOMAIN q /\ Tail(q)[i] = q[i + 1]
  OBVIOUS
<1> QED
  BY <1>1

LEMMA ServerFinalKeys ==
  ASSUME KeyInv, ServerFinal
  PROVE  KeysComeWithFinal' /\ MsgUnderCurrentKey' /\ Carried'
<1> DEFINE p == Head(toServer)
<1>1. /\ server \in TPMs /\ toServer \in Seq(ToServerPackets) /\ toServer # <<>>
      /\ toClient' = <<>> /\ client' = client /\ timers' = timers
      /\ toServer' = Tail(toServer) /\ Keyed(client)
      /\ \A i \in DOMAIN toServer : i > 1 => toServer[i].type # "NC"
  BY DEF KeyInv, LockstepInv, TypeInv, TypeOK, OnePacket, KeysComeWithFinal, ServerFinal,
         ReceivesNc, Receives, ToServerPackets
<1>2. Keyed(client)' /\ Keyed(server)'
  <2>1. server' \in TPMs /\ server'.secret # NoKey
    BY <1>1, UpdateWeightsType, GenerateKeyType, Secrets DEF ServerFinal
  <2> QED
    BY <1>1, <2>1, NcAssumption DEF Keyed
<1>3. ~Receives(toServer', "NC") /\ ~Receives(toClient', "NC")
  BY <1>1, NoNcBehind, Single
<1>4. KeysComeWithFinal' /\ Carried'
  BY <1>2, <1>3 DEF KeysComeWithFinal, Carried, ReceivesNc
<1>5. MsgUnderCurrentKey'
  <2>1. \A i \in DOMAIN toServer : toServer[i].type # "NC" => toServer[i] = AES!Msg(client.secret)
    BY DEF KeyInv, MsgUnderCurrentKey
  <2>2. \A i \in DOMAIN toServer' :
          toServer'[i].type # "NC" => toServer'[i] = AES!Msg(client.secret)
    BY <1>1, <2>1, RestOfMessages
  <2> QED
    BY <1>1, <1>2, <2>2 DEF MsgUnderCurrentKey
<1> QED
  BY <1>4, <1>5

LEMMA SendEncryptedMessageKeys ==
  ASSUME KeyInv, SendEncryptedMessage
  PROVE  KeysComeWithFinal' /\ MsgUnderCurrentKey' /\ Carried'
<1> DEFINE m == AES!Msg(client.secret)
<1>1. /\ toServer \in Seq(ToServerPackets) /\ client \in TPMs /\ timers \in Nat
      /\ Keyed(client) /\ client.secret # NoKey
  BY DEF KeyInv, LockstepInv, TypeInv, TypeOK, NoNullDereference, MsgUnderCurrentKey, Keyed,
         SendEncryptedMessage, ToServerPackets
<1>2. /\ toServer' = Append(toServer, m)
      /\ client' = client /\ server' = server /\ toClient' = toClient /\ lost' = lost
  BY <1>1 DEF SendEncryptedMessage, AES!EncryptedMessages
<1>3. m \in ToServerPackets /\ m.type # "NC"
  BY <1>1 DEF AES!Msg, MsgPackets, ToServerPackets, TPMs
<1>4. \A i \in DOMAIN toServer : i > 1 => toServer[i].type # "NC"
  BY DEF KeyInv, LockstepInv, OnePacket
<1>5. /\ toServer # <<>> => Head(toServer') = Head(toServer)
      /\ toServer' # <<>>
      /\ ~Receives(toServer, "NC") => ~Receives(toServer', "NC")
  BY <1>1, <1>2, <1>3, <1>4, AppendMsg
<1>6. /\ Receives(toServer', "NC") <=> Receives(toServer, "NC")
      /\ \A s : ReceivesNc(toServer', s) <=> ReceivesNc(toServer, s)
      /\ Receives(toClient', "NC") <=> Receives(toClient, "NC")
      /\ \A s : ReceivesNc(toClient', s) <=> ReceivesNc(toClient, s)
  BY <1>2, <1>5 DEF ReceivesNc, Receives
<1>7. (Keyed(client)' <=> Keyed(client)) /\ (Keyed(server)' <=> Keyed(server))
  BY <1>2 DEF Keyed
<1>8. KeysComeWithFinal' /\ Carried'
  BY <1>2, <1>6, <1>7 DEF KeyInv, KeysComeWithFinal, Carried
<1>9. MsgUnderCurrentKey'
  <2>1. \A i \in DOMAIN toServer' :
          (i \in DOMAIN toServer /\ toServer'[i] = toServer[i]) \/ toServer'[i] = m
    BY <1>1, <1>2
  <2> HIDE DEF m
  <2>2. \A i \in DOMAIN toServer' : toServer'[i].type # "NC" => toServer'[i] = m
    BY <2>1 DEF KeyInv, MsgUnderCurrentKey, m
  <2>3. m = AES!Msg(client'.secret)
    BY <1>2 DEF m
  <2> QED
    BY <1>1, <1>7, <2>2, <2>3 DEF MsgUnderCurrentKey
<1> QED
  BY <1>8, <1>9

(* A step that takes the first packet of toServer or adds or removes MSGs  *)
(* to the client, and changes no machine.                                  *)
LEMMA QuietKeys ==
  ASSUME KeyInv, client' = client, server' = server, timers' = timers,
         ~Receives(toServer, "NC")', ~Receives(toClient, "NC")',
         toServer' = toServer \/ (toServer # <<>> /\ toServer' = Tail(toServer)),
         \/ lost'
         \/ lost' = lost /\ ~Receives(toServer, "NC") /\ ~Receives(toClient, "NC")
  PROVE  KeysComeWithFinal' /\ MsgUnderCurrentKey' /\ Carried'
<1>1. (Keyed(client)' <=> Keyed(client)) /\ (Keyed(server)' <=> Keyed(server))
  BY DEF Keyed
<1>2. KeysComeWithFinal' /\ Carried'
  BY <1>1 DEF KeyInv, KeysComeWithFinal, Carried, ReceivesNc
<1>3. toServer \in Seq(ToServerPackets)
  BY DEF KeyInv, LockstepInv, TypeInv, TypeOK, ToServerPackets
<1>4. \A i \in DOMAIN toServer' :
        toServer'[i].type # "NC" => toServer'[i] = AES!Msg(client.secret)
  <2>1. \A i \in DOMAIN toServer : toServer[i].type # "NC" => toServer[i] = AES!Msg(client.secret)
    BY DEF KeyInv, MsgUnderCurrentKey
  <2>2. CASE toServer' = toServer
    BY <2>1, <2>2
  <2>3. CASE toServer # <<>> /\ toServer' = Tail(toServer)
    BY <1>3, <2>1, <2>3, RestOfMessages
  <2> QED
    BY <2>2, <2>3
<1>5. MsgUnderCurrentKey'
  BY <1>1, <1>4 DEF KeyInv, MsgUnderCurrentKey
<1> QED
  BY <1>2, <1>5

(* After a step about a MSG or an empty packet, and after a loss, no packet *)
(* of the negotiation is first in a queue.                                 *)
LEMMA MsgStep ==
  ASSUME KeyInv, ClientDecryptMSG \/ ServerDecryptMSG \/ ServerReadEmpty \/ Lose
  PROVE  /\ client' = client /\ server' = server /\ timers' = timers
         /\ ~Receives(toServer, "NC")' /\ ~Receives(toClient, "NC")'
         /\ toServer' = toServer \/ (toServer # <<>> /\ toServer' = Tail(toServer))
         /\ \/ lost'
            \/ lost' = lost /\ ~Receives(toServer, "NC") /\ ~Receives(toClient, "NC")
<1>1. /\ toServer \in Seq(ToServerPackets) /\ toClient \in Seq(ToClientPackets)
      /\ \A i \in DOMAIN toServer : i > 1 => toServer[i].type # "NC"
      /\ \A i \in DOMAIN toClient : i > 1 => toClient[i].type # "NC"
      /\ toServer # <<>> => ~Receives(toClient, "NC")
      /\ toClient # <<>> => ~Receives(toServer, "NC")
  BY Queues
<1>2. CASE ClientDecryptMSG
  <2>1. /\ toClient # <<>> /\ toClient' = Tail(toClient) /\ toServer' = toServer
        /\ client' = client /\ server' = server /\ lost' = lost /\ timers' = timers
        /\ ~Receives(toClient, "NC") /\ ~Receives(toServer, "NC")
    BY <1>1, <1>2 DEF ClientDecryptMSG, Receives
  <2>2. ~Receives(toClient', "NC")
    BY <1>1, <2>1, NoNcBehind
  <2> QED
    BY <2>1, <2>2
<1>3. CASE ServerDecryptMSG
  <2>1. /\ toServer # <<>> /\ toServer' = Tail(toServer)
        /\ client' = client /\ server' = server /\ lost' = lost /\ timers' = timers
        /\ ~Receives(toServer, "NC") /\ ~Receives(toClient, "NC")
        /\ server \in TPMs
    BY <1>1, <1>3 DEF ServerDecryptMSG, Receives, KeyInv, LockstepInv, TypeInv, TypeOK
  <2>2. ~Receives(toServer', "NC")
    BY <1>1, <2>1, NoNcBehind
  <2>3. toClient' = toClient \/ toClient' = Append(toClient, AES!Msg(server.secret))
    BY <1>3 DEF ServerDecryptMSG
  <2>4. AES!Msg(server.secret) \in ToClientPackets /\ AES!Msg(server.secret).type # "NC"
    BY <2>1 DEF AES!Msg, TPMs, MsgPackets, ToClientPackets
  <2>5. ~Receives(toClient', "NC")
    BY <1>1, <2>1, <2>3, <2>4, AppendMsg
  <2> QED
    BY <2>1, <2>2, <2>5
<1>4. CASE ServerReadEmpty
  <2>1. /\ toServer # <<>> /\ toServer' = Tail(toServer) /\ toClient' = toClient
        /\ client' = client /\ server' = server /\ lost' = lost /\ timers' = timers
        /\ ~Receives(toServer, "NC") /\ ~Receives(toClient, "NC")
    BY <1>1, <1>4 DEF ServerReadEmpty, Receives
  <2>2. ~Receives(toServer', "NC")
    BY <1>1, <2>1, NoNcBehind
  <2> QED
    BY <2>1, <2>2
<1>5. CASE Lose
  <2>1. CASE toServer # <<>> /\ toServer' = Tail(toServer) /\ UNCHANGED toClient
                /\ lost' = (lost \/ Head(toServer).type = "NC")
    <3>1. ~Receives(toServer', "NC")
      BY <1>1, <2>1, NoNcBehind
    <3>2. lost' \/ (lost' = lost /\ ~Receives(toServer, "NC") /\ ~Receives(toClient, "NC"))
      BY <1>1, <2>1 DEF Receives, KeyInv, LockstepInv, TypeInv, TypeOK
    <3>3. ~Receives(toClient', "NC")
      BY <1>1, <2>1
    <3> QED
      BY <1>5, <2>1, <3>1, <3>2, <3>3 DEF Lose
  <2>2. CASE toClient # <<>> /\ toClient' = Tail(toClient) /\ UNCHANGED toServer
                /\ lost' = (lost \/ Head(toClient).type = "NC")
    <3>1. ~Receives(toClient', "NC")
      BY <1>1, <2>2, NoNcBehind
    <3>2. lost' \/ (lost' = lost /\ ~Receives(toServer, "NC") /\ ~Receives(toClient, "NC"))
      BY <1>1, <2>2 DEF Receives, KeyInv, LockstepInv, TypeInv, TypeOK
    <3>3. ~Receives(toServer', "NC")
      BY <1>1, <2>2
    <3> QED
      BY <1>5, <2>2, <3>1, <3>2, <3>3 DEF Lose
  <2> QED
    BY <1>5, <2>1, <2>2 DEF Lose
<1> QED
  BY <1>2, <1>3, <1>4, <1>5

LEMMA MsgKeys ==
  ASSUME KeyInv, ClientDecryptMSG \/ ServerDecryptMSG \/ ServerReadEmpty \/ Lose
  PROVE  KeysComeWithFinal' /\ MsgUnderCurrentKey' /\ Carried'
<1>1. /\ client' = client /\ server' = server /\ timers' = timers
      /\ ~Receives(toServer, "NC")' /\ ~Receives(toClient, "NC")'
      /\ toServer' = toServer \/ (toServer # <<>> /\ toServer' = Tail(toServer))
      /\ \/ lost'
         \/ lost' = lost /\ ~Receives(toServer, "NC") /\ ~Receives(toClient, "NC")
  BY MsgStep
<1> QED
  BY <1>1, QuietKeys

-----------------------------------------------------------------------------
LEMMA KeyInvariance ==
  ASSUME Overlap = FALSE
  PROVE  Spec => []KeyInv
<1>1. Init => KeysComeWithFinal /\ MsgUnderCurrentKey /\ Carried
  BY DEF Init, KeysComeWithFinal, MsgUnderCurrentKey, Carried, Keyed, ReceivesNc, Receives
<1>2. ASSUME KeyInv, [Next]_vars
      PROVE  KeysComeWithFinal' /\ MsgUnderCurrentKey' /\ Carried'
  <2>1. CASE UNCHANGED vars
    BY <1>2, <2>1
       DEF vars, KeyInv, KeysComeWithFinal, MsgUnderCurrentKey, Carried, Keyed, ReceivesNc, Receives
  <2>2. CASE Next
    BY <1>2, <2>2, UpdateKeyKeys, ClientUpdateKeys, ClientFinalKeys, SendEncryptedMessageKeys,
       ServerBeginKeys, ServerUpdateKeys, ServerFinalKeys, MsgKeys DEF Next
  <2> QED
    BY <1>2, <2>1, <2>2
<1>3. Spec => []LockstepInv
  BY LockstepInvariance
<1>4. LockstepInv /\ (KeysComeWithFinal /\ MsgUnderCurrentKey /\ Carried) /\ [Next]_vars
        => (KeysComeWithFinal /\ MsgUnderCurrentKey /\ Carried)'
  BY <1>2 DEF KeyInv
<1> QED
  BY <1>1, <1>3, <1>4, PTL DEF Spec, KeyInv

(* Every MSG, and every timer that will send one, finds the key the        *)
(* negotiation ended with (Client.cc:395): no refresh comes between, and no*)
(* loss can set a timer without a key.                                     *)
THEOREM MessagesUnderCurrentKey ==
  ASSUME Overlap = FALSE
  PROVE  Spec => []MsgUnderCurrentKey
BY KeyInvariance, PTL DEF KeyInv

(* A side that has its key is sent no other packet of that negotiation.    *)
THEOREM OneFinal ==
  ASSUME Overlap = FALSE
  PROVE  Spec => []FinalOnce
<1>1. KeyInv => FinalOnce
  <2> SUFFICES ASSUME KeyInv
               PROVE  FinalOnce
    OBVIOUS
  <2>1. /\ toServer \in Seq(ToServerPackets) /\ toClient \in Seq(ToClientPackets)
        /\ \A i \in DOMAIN toServer : i > 1 => toServer[i].type # "NC"
        /\ \A i \in DOMAIN toClient : i > 1 => toClient[i].type # "NC"
    BY DEF KeyInv, LockstepInv, TypeInv, TypeOK, OnePacket, ToServerPackets, ToClientPackets
  <2>2. Keyed(client) => NcIn(toClient) = {}
    <3>1. SUFFICES ASSUME Keyed(client), NEW i \in DOMAIN toClient, toClient[i].type = "NC"
                   PROVE  FALSE
      BY DEF NcIn
    <3>2. i = 1 /\ toClient # <<>> /\ Head(toClient) = toClient[1]
      BY <2>1, <3>1
    <3> QED
      BY <3>1, <3>2 DEF KeyInv, KeysComeWithFinal, Receives
  <2>3. Keyed(server) => \A i \in NcIn(toServer) : toServer[i].state = "BEGIN"
    <3>1. SUFFICES ASSUME Keyed(server), NEW i \in DOMAIN toServer, toServer[i].type = "NC"
                   PROVE  toServer[i].state = "BEGIN"
      BY DEF NcIn
    <3>2. i = 1 /\ toServer # <<>> /\ Head(toServer) = toServer[1]
      BY <2>1, <3>1
    <3>3. \/ ReceivesNc(toServer, "BEGIN") \/ ReceivesNc(toServer, "UPDATE")
          \/ ReceivesNc(toServer, "FINAL")
      BY <2>1, <3>1, <3>2
         DEF ReceivesNc, Receives, ToServerPackets, BeginPackets, UpdatePackets, FinalPackets,
             MsgPackets, AES!EmptyPacket
    <3> QED
      BY <3>1, <3>2, <3>3 DEF KeyInv, KeysComeWithFinal, ReceivesNc
  <2> QED
    BY <2>2, <2>3 DEF FinalOnce
<1> QED
  BY <1>1, KeyInvariance, PTL

(* Without loss a negotiation under way has a packet travelling until both *)
(* sides have their key: no handler forgets to answer.                     *)
THEOREM NoStall ==
  ASSUME Overlap = FALSE
  PROVE  Spec => []NeverStalls
<1>1. KeyInv => NeverStalls
  <2>1. ASSUME NEW S, NEW q \in Seq(S), Receives(q, "NC")
        PROVE  NcIn(q) # {}
    <3>1. 1 \in DOMAIN q /\ q[1] = Head(q)
      BY <2>1 DEF Receives
    <3> QED
      BY <2>1, <3>1 DEF NcIn, Receives
  <2>2. TypeOK => toServer \in Seq(ToServerPackets) /\ toClient \in Seq(ToClientPackets)
    BY DEF TypeOK, ToServerPackets, ToClientPackets
  <2>3. TypeOK /\ Receives(toServer, "NC") => NcIn(toServer) # {}
    BY <2>1, <2>2
  <2>4. TypeOK /\ Receives(toClient, "NC") => NcIn(toClient) # {}
    BY <2>1, <2>2
  <2> QED
    BY <2>3, <2>4 DEF KeyInv, LockstepInv, TypeInv, Carried, NeverStalls
<1> QED
  BY <1>1, KeyInvariance, PTL

(* A MSG meets a server without a key only when a packet of the negotiation*)
(* was lost, as the comment at Server.cc:358 has it.                       *)
THEOREM NoKeyMeansLoss ==
  ASSUME Overlap = FALSE
  PROVE  Spec => []KeyTooShortMeansLoss
<1>1. KeyInv => KeyTooShortMeansLoss
  <2> SUFFICES ASSUME KeyInv, Receives(toServer, "MSG"), server.secret = NoKey
               PROVE  lost
    BY DEF KeyTooShortMeansLoss
  <2>1. client # NULL /\ toServer # <<>> /\ ~Receives(toServer, "NC")
    BY DEF KeyInv, LockstepInv, TypeInv, NoNullDereference, Receives
  <2>2. ~Receives(toClient, "NC")
    BY <2>1 DEF KeyInv, LockstepInv, OnePacket
  <2>3. ~Keyed(server)
    BY DEF Keyed
  <2> QED
    BY <2>1, <2>2, <2>3 DEF KeyInv, Carried
<1> QED
  BY <1>1, KeyInvariance, PTL

-----------------------------------------------------------------------------
(* The round at which the two sides take their keys.                       *)

(* The rounds a machine with a key can have reached.                       *)
Reached(round) == round = RoundThreshold \/ (RoundThreshold = 1 /\ round = 2)

KeyedAt(tpm) == Keyed(tpm) => Reached(tpm.round) /\ tpm.secret = tpm.weights

(* While packets of a negotiation travel nothing was lost, and the sender  *)
(* of UPDATE was below the threshold; only BEGIN is answered without that  *)
(* test.                                                                   *)
BelowUntilFinal ==
  /\ Receives(toServer, "NC") \/ Receives(toClient, "NC") => ~lost
  /\ ReceivesNc(toServer, "UPDATE") => client.round < RoundThreshold
  /\ ReceivesNc(toClient, "UPDATE") =>
       server.round < RoundThreshold \/ (RoundThreshold = 1 /\ server.round = 1)

ThresholdInv == BelowUntilFinal /\ KeyedAt(client) /\ KeyedAt(server)

LEMMA KeyAtThresholdSplit == KeyAtThreshold <=> KeyedAt(client) /\ KeyedAt(server)
BY DEF KeyAtThreshold, KeyedAt, Reached

(* UPDATE and FINAL meet a pair whose counters agree.                      *)
LEMMA PendingRounds ==
  ASSUME KeyInv, ThresholdInv
  PROVE  /\ ReceivesNc(toServer, "UPDATE") \/ ReceivesNc(toServer, "FINAL") =>
              CatchUp(server, Head(toServer)).round = client.round
         /\ Pending(toClient) => CatchUp(client, Head(toClient)).round = server.round
<1>1. TypeInv /\ RoundsInLockstep /\ OnePacket
  BY DEF KeyInv, LockstepInv
<1>2. ASSUME ReceivesNc(toServer, "UPDATE") \/ ReceivesNc(toServer, "FINAL")
      PROVE  CatchUp(server, Head(toServer)).round = client.round
  <2>1. Paired
    <3>1. client # NULL /\ server # NULL
      BY <1>1, <1>2 DEF TypeInv, TypeOK, NoNullDereference, ReceivesNc, Receives
    <3>2. ~ReceivesNc(toServer, "BEGIN") /\ ~lost
      BY <1>2 DEF ReceivesNc, ThresholdInv, BelowUntilFinal
    <3> QED
      BY <3>1, <3>2 DEF Paired
  <2>2. ServerView = CatchUp(server, Head(toServer))
    BY <1>2 DEF ServerView, Pending
  <2>3. ClientView = client
    BY <1>1, <1>2 DEF ClientView, Pending, OnePacket, ReceivesNc, Receives
  <2> QED
    BY <1>1, <2>1, <2>2, <2>3 DEF RoundsInLockstep
<1>3. ASSUME Pending(toClient)
      PROVE  CatchUp(client, Head(toClient)).round = server.round
  <2>1. toServer = <<>> /\ toClient # <<>> /\ ~lost
    BY <1>1, <1>3 DEF Pending, OnePacket, ReceivesNc, Receives, ThresholdInv, BelowUntilFinal
  <2>2. Paired
    BY <1>1, <2>1 DEF TypeInv, NoNullDereference, Paired, ReceivesNc, Receives
  <2>3. ClientView = CatchUp(client, Head(toClient)) /\ ServerView = server
    BY <1>3, <2>1 DEF ClientView, ServerView, Pending, ReceivesNc, Receives
  <2> QED
    BY <1>1, <2>2, <2>3 DEF RoundsInLockstep
<1> QED
  BY <1>2, <1>3

-----------------------------------------------------------------------------
LEMMA UpdateKeyThreshold ==
  ASSUME KeyInv, ThresholdInv, UpdateKey, ~Overlap
  PROVE  ThresholdInv'
<1>1. toClient = <<>> /\ toServer = <<>>
  BY QueuesAreEmpty
<1>2. PICK w \in Weights, x \in Inputs :
        /\ client' = NewTPM(w, x)
        /\ toServer' = Append(toServer, NcPacket("BEGIN", x, client'.tau, client'.tau))
  BY DEF UpdateKey
<1> DEFINE m == NcPacket("BEGIN", x, client'.tau, client'.tau)
<1>3. toServer' = <<m>> /\ toClient' = <<>> /\ server' = server /\ ~lost'
  BY <1>1, <1>2 DEF UpdateKey
<1>4. m.type = "NC" /\ m.state = "BEGIN"
  BY DEF NcPacket
<1> HIDE DEF m
<1>5. BelowUntilFinal'
  BY <1>3, <1>4, Single DEF BelowUntilFinal
<1>6. KeyedAt(client)' /\ KeyedAt(server)'
  BY <1>2, <1>3, NewTPMSecret DEF KeyedAt, Keyed, Reached, ThresholdInv
<1> QED
  BY <1>5, <1>6 DEF ThresholdInv

LEMMA ServerBeginThreshold ==
  ASSUME KeyInv, ThresholdInv, ServerBegin
  PROVE  ThresholdInv'
<1> DEFINE p == Head(toServer)
<1>1. /\ toClient = <<>> /\ toServer' = <<>> /\ client' = client /\ ~lost'
  BY DEF KeyInv, LockstepInv, OnePacket, ServerBegin, ReceivesNc, Receives, ThresholdInv,
         BelowUntilFinal
<1>2. p \in BeginPackets
  BY QueueTypes, PacketByState
     DEF KeyInv, LockstepInv, TypeInv, TypeOK, ServerBegin, ReceivesNc, Receives, ToServerPackets
<1>3. PICK w \in Weights, x \in Inputs :
        LET fresh  == NewTPM(w, p.inVector)
            learnt == UpdateWeights(fresh, p.tau)
        IN  /\ server' = CalculateOutput(learnt, x)
            /\ toClient' = Append(toClient, NcPacket("UPDATE", x, server'.tau, fresh.tau))
  BY DEF ServerBegin
<1> DEFINE fresh  == NewTPM(w, p.inVector)
           learnt == UpdateWeights(fresh, p.tau)
           m      == NcPacket("UPDATE", x, server'.tau, fresh.tau)
<1>4. fresh \in TPMs /\ fresh.secret = NoKey /\ fresh.round = 0
  BY <1>2, NewTPMType, NewTPMSecret, NewTPMRound DEF BeginPackets
<1> HIDE DEF fresh
<1>5. learnt \in TPMs /\ learnt.secret = NoKey /\ learnt.round \in {0, 1}
  BY <1>4, UpdateWeightsType, Secrets, RoundAndTau
<1> HIDE DEF learnt
<1>6. server' = CalculateOutput(learnt, x) /\ toClient' = <<m>>
  BY <1>1, <1>3 DEF fresh, learnt
<1>7. server'.secret = NoKey /\ server'.round \in {0, 1}
  BY <1>5, <1>6, Secrets, RoundAndTau
<1>8. server'.round < RoundThreshold \/ (RoundThreshold = 1 /\ server'.round = 1)
  BY <1>7, NcAssumption
<1> HIDE DEF m
<1>9. BelowUntilFinal'
  BY <1>1, <1>6, <1>8, Single DEF BelowUntilFinal
<1>10. KeyedAt(client)' /\ KeyedAt(server)'
  BY <1>1, <1>7 DEF KeyedAt, Keyed, Reached, ThresholdInv
<1> QED
  BY <1>9, <1>10 DEF ThresholdInv

LEMMA ClientUpdateThreshold ==
  ASSUME KeyInv, ThresholdInv, ClientUpdate
  PROVE  ThresholdInv'
<1> DEFINE p == Head(toClient)
           learnt == Learnt(client, p)
           lastTau == Answer(client, p).tau
<1>1. p \in UpdatePackets /\ client \in TPMs
  BY QueueTypes, PacketByState
     DEF KeyInv, LockstepInv, TypeInv, TypeOK, ClientUpdate, ReceivesNc, Receives,
         ToServerPackets, ToClientPackets
<1>2. server \in TPMs
  BY DEF KeyInv, LockstepInv, TypeInv, TypeOK, NoNullDereference, ClientUpdate, ReceivesNc, Receives
<1>3. /\ toClient = <<p>> /\ toServer = <<>> /\ toClient' = <<>>
      /\ ~Keyed(client) /\ server' = server /\ ~lost'
  BY <1>1 DEF KeyInv, LockstepInv, OnePacket, ClientUpdate, ReceivesNc, Receives,
              KeysComeWithFinal, ThresholdInv, BelowUntilFinal
<1>4. /\ CatchUp(client, p).round = server.round
      /\ server.round < RoundThreshold \/ (RoundThreshold = 1 /\ server.round = 1)
  BY PendingRounds DEF ClientUpdate, Pending, ThresholdInv, BelowUntilFinal
<1>5. learnt \in TPMs /\ learnt.secret = NoKey /\ learnt.round <= server.round + 1
  <2>1. learnt \in TPMs /\ learnt.secret = client.secret
    BY <1>1, LearntType, LearntSecret DEF UpdatePackets
  <2>2. client.secret = NoKey
    BY <1>1, <1>3, NcAssumption DEF Keyed
  <2>3. learnt.round = server.round + 1 \/ learnt.round = server.round
    BY <1>1, <1>4, LearntRound DEF UpdatePackets
  <2>4. server.round \in Nat
    BY <1>2 DEF TPMs
  <2> QED
    BY <2>1, <2>2, <2>3, <2>4
<1>6. KeyedAt(server)'
  BY <1>3 DEF KeyedAt, Keyed, Reached, ThresholdInv
<1> HIDE DEF learnt, lastTau
<1>7. CASE BelowThreshold(learnt)
  <2>1. PICK x \in Inputs :
          /\ client' = CalculateOutput(learnt, x)
          /\ toServer' = Append(toServer, NcPacket("UPDATE", x, client'.tau, lastTau))
    BY <1>7 DEF ClientUpdate, learnt, lastTau
  <2> DEFINE m == NcPacket("UPDATE", x, client'.tau, lastTau)
  <2>2. client'.secret = NoKey /\ client'.round < RoundThreshold
    BY <1>5, <1>7, <2>1, Secrets, RoundAndTau DEF BelowThreshold
  <2>3. toServer' = <<m>>
    BY <1>3, <2>1
  <2> HIDE DEF m
  <2>4. BelowUntilFinal'
    BY <1>3, <2>2, <2>3, Single DEF BelowUntilFinal
  <2> QED
    BY <1>6, <2>2, <2>4 DEF ThresholdInv, KeyedAt, Keyed
<1>8. CASE ~BelowThreshold(learnt)
  <2>1. /\ client' = GenerateKey(learnt)
        /\ toServer' = Append(toServer, NcPacket("FINAL", ZeroVector, lastTau, lastTau))
    BY <1>8 DEF ClientUpdate, learnt, lastTau
  <2> DEFINE m == NcPacket("FINAL", ZeroVector, lastTau, lastTau)
  <2>2. Reached(learnt.round)
    <3>1. learnt.round \in Nat /\ server.round \in Nat
      BY <1>2, <1>5 DEF TPMs
    <3> QED
      BY <1>4, <1>5, <1>8, <3>1, NcAssumption DEF BelowThreshold, Reached
  <2>3. KeyedAt(client)'
    <3>1. client'.round = learnt.round /\ client'.secret = client'.weights
      BY <1>5, <2>1 DEF GenerateKey, TPMs
    <3> QED
      BY <2>2, <3>1 DEF KeyedAt, Reached
  <2>4. toServer' = <<m>> /\ m.type = "NC" /\ m.state = "FINAL"
    BY <1>3, <2>1 DEF NcPacket
  <2> HIDE DEF m
  <2>5. BelowUntilFinal'
    BY <1>3, <2>4, Single DEF BelowUntilFinal
  <2> QED
    BY <1>6, <2>3, <2>5 DEF ThresholdInv
<1> QED
  BY <1>7, <1>8

LEMMA ServerUpdateThreshold ==
  ASSUME KeyInv, ThresholdInv, ServerUpdate
  PROVE  ThresholdInv'
<1> DEFINE p == Head(toServer)
           learnt == Learnt(server, p)
           lastTau == Answer(server, p).tau
<1>1. p \in UpdatePackets /\ server \in TPMs
  BY QueueTypes, PacketByState
     DEF KeyInv, LockstepInv, TypeInv, TypeOK, ServerUpdate, ReceivesNc, Receives,
         ToServerPackets, ToClientPackets
<1>2. client \in TPMs
  BY DEF KeyInv, LockstepInv, TypeInv, TypeOK, NoNullDereference, ServerUpdate, ReceivesNc, Receives
<1>3. /\ toServer = <<p>> /\ toClient = <<>> /\ toServer' = <<>>
      /\ ~Keyed(server) /\ client' = client /\ ~lost'
  BY <1>1 DEF KeyInv, LockstepInv, OnePacket, ServerUpdate, ReceivesNc, Receives,
              KeysComeWithFinal, ThresholdInv, BelowUntilFinal
<1>4. CatchUp(server, p).round = client.round /\ client.round < RoundThreshold
  BY PendingRounds DEF ServerUpdate, ThresholdInv, BelowUntilFinal
<1>5. learnt \in TPMs /\ learnt.secret = NoKey /\ learnt.round <= client.round + 1
  <2>1. learnt \in TPMs /\ learnt.secret = server.secret
    BY <1>1, LearntType, LearntSecret DEF UpdatePackets
  <2>2. server.secret = NoKey
    BY <1>1, <1>3, NcAssumption DEF Keyed
  <2>3. learnt.round = client.round + 1 \/ learnt.round = client.round
    BY <1>1, <1>4, LearntRound DEF UpdatePackets
  <2>4. client.round \in Nat
    BY <1>2 DEF TPMs
  <2> QED
    BY <2>1, <2>2, <2>3, <2>4
<1>6. KeyedAt(client)'
  BY <1>3 DEF KeyedAt, Keyed, Reached, ThresholdInv
<1> HIDE DEF learnt, lastTau
<1>7. CASE BelowThreshold(learnt)
  <2>1. PICK x \in Inputs :
          /\ server' = CalculateOutput(learnt, x)
          /\ toClient' = Append(toClient, NcPacket("UPDATE", x, server'.tau, lastTau))
    BY <1>7 DEF ServerUpdate, learnt, lastTau
  <2> DEFINE m == NcPacket("UPDATE", x, server'.tau, lastTau)
  <2>2. server'.secret = NoKey /\ server'.round < RoundThreshold
    BY <1>5, <1>7, <2>1, Secrets, RoundAndTau DEF BelowThreshold
  <2>3. toClient' = <<m>>
    BY <1>3, <2>1
  <2> HIDE DEF m
  <2>4. BelowUntilFinal'
    BY <1>3, <2>2, <2>3, Single DEF BelowUntilFinal
  <2> QED
    BY <1>6, <2>2, <2>4 DEF ThresholdInv, KeyedAt, Keyed
<1>8. CASE ~BelowThreshold(learnt)
  <2>1. /\ server' = GenerateKey(learnt)
        /\ toClient' = Append(toClient, NcPacket("FINAL", ZeroVector, lastTau, lastTau))
    BY <1>8 DEF ServerUpdate, learnt, lastTau
  <2> DEFINE m == NcPacket("FINAL", ZeroVector, lastTau, lastTau)
  <2>2. Reached(learnt.round)
    <3>1. learnt.round \in Nat /\ client.round \in Nat
      BY <1>2, <1>5 DEF TPMs
    <3> QED
      BY <1>4, <1>5, <1>8, <3>1, NcAssumption DEF BelowThreshold, Reached
  <2>3. KeyedAt(server)'
    <3>1. server'.round = learnt.round /\ server'.secret = server'.weights
      BY <1>5, <2>1 DEF GenerateKey, TPMs
    <3> QED
      BY <2>2, <3>1 DEF KeyedAt, Reached
  <2>4. toClient' = <<m>> /\ m.type = "NC" /\ m.state = "FINAL"
    BY <1>3, <2>1 DEF NcPacket
  <2> HIDE DEF m
  <2>5. BelowUntilFinal'
    BY <1>3, <2>4, Single DEF BelowUntilFinal
  <2> QED
    BY <1>6, <2>3, <2>5 DEF ThresholdInv
<1> QED
  BY <1>7, <1>8

LEMMA ClientFinalThreshold ==
  ASSUME KeyInv, ThresholdInv, ClientFinal
  PROVE  ThresholdInv'
<1> DEFINE p == Head(toClient)
           tpm == UpdateWeights(client, p.tau)
<1>1. /\ client \in TPMs /\ server' = server /\ toServer' = <<>> /\ toClient' = <<>>
      /\ Keyed(server) /\ p.tau = p.lastTau
  BY DEF KeyInv, LockstepInv, TypeInv, TypeOK, OnePacket, PacketOutput, KeysComeWithFinal,
         ClientFinal, ReceivesNc, Receives
<1>2. CatchUp(client, p).round = server.round
  BY PendingRounds DEF ClientFinal, Pending
<1>3. tpm \in TPMs /\ tpm.round = server.round
  BY <1>1, <1>2, UpdateWeightsType DEF CatchUp
<1>4. client' = GenerateKey(tpm)
  BY DEF ClientFinal
<1>5. client'.round = server.round /\ client'.secret = client'.weights
  BY <1>3, <1>4 DEF GenerateKey, TPMs
<1>6. KeyedAt(client)' /\ KeyedAt(server)'
  BY <1>1, <1>5 DEF ThresholdInv, KeyedAt, Keyed, Reached
<1>7. BelowUntilFinal'
  BY <1>1, Single DEF BelowUntilFinal
<1> QED
  BY <1>6, <1>7 DEF ThresholdInv

LEMMA ServerFinalThreshold ==
  ASSUME KeyInv, ThresholdInv, ServerFinal
  PROVE  ThresholdInv'
<1> DEFINE p == Head(toServer)
           tpm == UpdateWeights(server, p.tau)
<1>1. /\ server \in TPMs /\ client' = client /\ toServer' = Tail(toServer) /\ toClient' = <<>>
      /\ toServer \in Seq(ToServerPackets) /\ toServer # <<>>
      /\ \A i \in DOMAIN toServer : i > 1 => toServer[i].type # "NC"
      /\ Keyed(client) /\ p.tau = p.lastTau
  BY DEF KeyInv, LockstepInv, TypeInv, TypeOK, OnePacket, PacketOutput, KeysComeWithFinal,
         ServerFinal, ReceivesNc, Receives, ToServerPackets
<1>2. CatchUp(server, p).round = client.round
  BY PendingRounds DEF ServerFinal
<1>3. tpm \in TPMs /\ tpm.round = client.round
  BY <1>1, <1>2, UpdateWeightsType DEF CatchUp
<1>4. server' = GenerateKey(tpm)
  BY DEF ServerFinal
<1>5. server'.round = client.round /\ server'.secret = server'.weights
  BY <1>3, <1>4 DEF GenerateKey, TPMs
<1>6. KeyedAt(client)' /\ KeyedAt(server)'
  BY <1>1, <1>5 DEF ThresholdInv, KeyedAt, Keyed, Reached
<1>7. ~Receives(toServer', "NC") /\ ~Receives(toClient', "NC")
  BY <1>1, NoNcBehind, Single
<1>8. BelowUntilFinal'
  BY <1>7 DEF BelowUntilFinal, ReceivesNc
<1> QED
  BY <1>6, <1>8 DEF ThresholdInv

(* The other handlers, and a loss, change no machine and bring no packet of*)
(* the negotiation to the head of a queue.                                 *)
LEMMA QuietThreshold ==
  ASSUME KeyInv, ThresholdInv,
         SendEncryptedMessage \/ ClientDecryptMSG \/ ServerDecryptMSG \/ ServerReadEmpty \/ Lose
  PROVE  ThresholdInv'
<1>1. client' = client /\ server' = server
  BY DEF SendEncryptedMessage, ClientDecryptMSG, ServerDecryptMSG, ServerReadEmpty, Lose
<1>2. KeyedAt(client)' /\ KeyedAt(server)'
  BY <1>1 DEF ThresholdInv, KeyedAt, Keyed, Reached
<1>3. /\ toServer \in Seq(ToServerPackets) /\ toClient \in Seq(ToClientPackets)
      /\ \A i \in DOMAIN toServer : i > 1 => toServer[i].type # "NC"
      /\ \A i \in DOMAIN toClient : i > 1 => toClient[i].type # "NC"
      /\ toServer # <<>> => ~Receives(toClient, "NC")
  BY DEF KeyInv, LockstepInv, TypeInv, TypeOK, OnePacket, ToServerPackets, ToClientPackets
<1>4. BelowUntilFinal'
  <2>1. CASE SendEncryptedMessage
    <3>1. /\ client \in TPMs /\ client.secret # NoKey /\ lost' = lost /\ toClient' = toClient
      BY <2>1 DEF KeyInv, LockstepInv, TypeInv, TypeOK, MsgUnderCurrentKey, Keyed,
                  SendEncryptedMessage
    <3>2. toServer' = Append(toServer, AES!Msg(client.secret))
      BY <2>1, <3>1 DEF SendEncryptedMessage, AES!EncryptedMessages
    <3>3. AES!Msg(client.secret) \in ToServerPackets /\ AES!Msg(client.secret).type # "NC"
      BY <3>1 DEF AES!Msg, MsgPackets, ToServerPackets, TPMs
    <3>4. /\ toServer # <<>> => Head(toServer') = Head(toServer)
          /\ ~Receives(toServer, "NC") => ~Receives(toServer', "NC")
      BY <1>3, <3>2, <3>3, AppendMsg
    <3>5. Receives(toServer', "NC") => Receives(toServer, "NC") /\ Head(toServer') = Head(toServer)
      BY <3>4 DEF Receives
    <3> QED
      BY <1>1, <3>1, <3>5 DEF ThresholdInv, BelowUntilFinal, ReceivesNc, Receives
  <2>2. CASE ClientDecryptMSG
    <3>1. toClient # <<>> /\ toClient' = Tail(toClient) /\ toServer' = toServer /\ lost' = lost
      BY <2>2 DEF ClientDecryptMSG, Receives
    <3>2. ~Receives(toClient', "NC")
      BY <1>3, <3>1, NoNcBehind
    <3> QED
      BY <1>1, <3>1, <3>2 DEF ThresholdInv, BelowUntilFinal, ReceivesNc
  <2>3. CASE ServerDecryptMSG \/ ServerReadEmpty
    <3>1. toServer # <<>> /\ toServer' = Tail(toServer) /\ lost' = lost
      BY <2>3 DEF ServerDecryptMSG, ServerReadEmpty, Receives
    <3>2. ~Receives(toServer', "NC") /\ ~Receives(toClient, "NC")
      BY <1>3, <3>1, NoNcBehind
    <3>3. ~Receives(toClient', "NC")
      <4>1. server \in TPMs \/ toClient' = toClient
        BY <2>3 DEF ServerDecryptMSG, ServerReadEmpty, KeyInv, LockstepInv, TypeInv, TypeOK
      <4>2. toClient' = toClient \/ toClient' = Append(toClient, AES!Msg(server.secret))
        BY <2>3 DEF ServerDecryptMSG, ServerReadEmpty
      <4>3. server \in TPMs =>
              AES!Msg(server.secret) \in ToClientPackets /\ AES!Msg(server.secret).type # "NC"
        BY DEF AES!Msg, TPMs, MsgPackets, ToClientPackets
      <4> QED
        BY <1>3, <3>2, <4>1, <4>2, <4>3, AppendMsg
    <3> QED
      BY <3>2, <3>3 DEF BelowUntilFinal, ReceivesNc
  <2>4. CASE Lose
    <3>1. CASE toServer # <<>> /\ toServer' = Tail(toServer) /\ UNCHANGED toClient
      <4>1. ~Receives(toServer', "NC") /\ ~Receives(toClient', "NC")
        BY <1>3, <3>1, NoNcBehind
      <4> QED
        BY <4>1 DEF BelowUntilFinal, ReceivesNc
    <3>2. CASE /\ toClient # <<>> /\ toClient' = Tail(toClient) /\ UNCHANGED toServer
               /\ lost' = (lost \/ Head(toClient).type = "NC")
      <4>1. ~Receives(toClient', "NC")
        BY <1>3, <3>2, NoNcBehind
      <4>2. CASE toServer = <<>>
        BY <3>2, <4>1, <4>2 DEF BelowUntilFinal, ReceivesNc, Receives
      <4>3. CASE toServer # <<>>
        <5>1. lost' = lost
          BY <1>3, <3>2, <4>3 DEF Receives, KeyInv, LockstepInv, TypeInv, TypeOK
        <5> QED
          BY <1>1, <3>2, <4>1, <5>1 DEF ThresholdInv, BelowUntilFinal, ReceivesNc
      <4> QED
        BY <4>2, <4>3
    <3> QED
      BY <2>4, <3>1, <3>2 DEF Lose
  <2> QED
    BY <2>1, <2>2, <2>3, <2>4
<1> QED
  BY <1>2, <1>4 DEF ThresholdInv

-----------------------------------------------------------------------------
LEMMA ThresholdInvariance ==
  ASSUME Overlap = FALSE
  PROVE  Spec => []ThresholdInv
<1>1. Init => ThresholdInv
  BY DEF Init, ThresholdInv, BelowUntilFinal, KeyedAt, Keyed, ReceivesNc, Receives
<1>2. ASSUME KeyInv, ThresholdInv, [Next]_vars
      PROVE  ThresholdInv'
  <2>1. CASE UNCHANGED vars
    BY <1>2, <2>1
       DEF vars, ThresholdInv, BelowUntilFinal, KeyedAt, Keyed, Reached, ReceivesNc, Receives
  <2>2. CASE Next
    BY <1>2, <2>2, UpdateKeyThreshold, ClientUpdateThreshold, ClientFinalThreshold,
       ServerBeginThreshold, ServerUpdateThreshold, ServerFinalThreshold, QuietThreshold DEF Next
  <2> QED
    BY <1>2, <2>1, <2>2
<1> QED
  BY <1>1, <1>2, KeyInvariance, PTL DEF Spec

(* Both sides take their key from the weights they have when their counter *)
(* reaches the threshold, the side included that does not test it because  *)
(* it takes the key on FINAL (Client.cc:330, Server.cc:298).               *)
THEOREM KeysAtThreshold ==
  ASSUME Overlap = FALSE
  PROVE  Spec => []KeyAtThreshold
BY ThresholdInvariance, KeyAtThresholdSplit, PTL DEF ThresholdInv

(* Two sides with their keys have the same key exactly when their machines *)
(* were synchronised: the digest that is the key is of the weights both    *)
(* still have.                                                             *)
THEOREM KeysTellSync ==
  ASSUME Overlap = FALSE
  PROVE  Spec => []KeysAgreeIffInSync
<1>1. KeyAtThreshold => KeysAgreeIffInSync
  BY KeyAtThresholdSplit DEF KeyedAt, KeysAgreeIffInSync, InSync, ClientView, ServerView
<1> QED
  BY <1>1, KeysAtThreshold, PTL

-----------------------------------------------------------------------------
(* The number of packets of negotiations.                                  *)

NcCount(q) == Cardinality(NcIn(q))

LEMMA NcInIsFinite ==
  ASSUME NEW S, NEW q \in Seq(S)
  PROVE  IsFiniteSet(NcIn(q)) /\ NcCount(q) \in Nat
<1>1. IsFiniteSet(1 .. Len(q)) /\ DOMAIN q = 1 .. Len(q)
  <2>1. Len(q) \in Nat /\ DOMAIN q = 1 .. Len(q)
    OBVIOUS
  <2> QED
    BY <2>1, FS_Interval
<1>2. NcIn(q) \in SUBSET (1 .. Len(q))
  BY <1>1 DEF NcIn
<1> QED
  BY <1>1, <1>2, FS_Subset, FS_CardinalityType DEF NcCount

LEMMA AppendCounts ==
  ASSUME NEW S, NEW q \in Seq(S), NEW p \in S
  PROVE  /\ NcCount(Append(q, p)) <= NcCount(q) + 1
         /\ p.type # "NC" => NcCount(Append(q, p)) = NcCount(q)
<1>1. /\ Append(q, p) \in Seq(S) /\ Len(q) \in Nat
      /\ DOMAIN q = 1 .. Len(q) /\ DOMAIN Append(q, p) = 1 .. Len(q) + 1
      /\ \A i \in 1 .. Len(q) : Append(q, p)[i] = q[i]
      /\ Append(q, p)[Len(q) + 1] = p
  OBVIOUS
<1>2. NcIn(Append(q, p)) \in SUBSET (NcIn(q) \cup {Len(q) + 1})
  BY <1>1 DEF NcIn
<1>3. p.type # "NC" => NcIn(Append(q, p)) = NcIn(q)
  BY <1>1 DEF NcIn
<1>4. IsFiniteSet(NcIn(q)) /\ NcCount(q) \in Nat /\ NcCount(Append(q, p)) \in Nat
  BY <1>1, NcInIsFinite
<1>5. /\ IsFiniteSet(NcIn(q) \cup {Len(q) + 1})
      /\ \/ Cardinality(NcIn(q) \cup {Len(q) + 1}) = NcCount(q)
         \/ Cardinality(NcIn(q) \cup {Len(q) + 1}) = NcCount(q) + 1
  BY <1>4, FS_AddElement DEF NcCount
<1>6. NcCount(Append(q, p)) <= Cardinality(NcIn(q) \cup {Len(q) + 1})
  BY <1>2, <1>5, FS_Subset DEF NcCount
<1> HIDE DEF NcCount
<1>7. NcCount(Append(q, p)) <= NcCount(q) + 1
  BY <1>4, <1>5, <1>6
<1> QED
  BY <1>3, <1>7 DEF NcCount

LEMMA TailCounts ==
  ASSUME NEW S, NEW q \in Seq(S), q # <<>>
  PROVE  /\ NcCount(Tail(q)) <= NcCount(q)
         /\ Head(q).type = "NC" => NcCount(Tail(q)) + 1 <= NcCount(q)
<1>1. /\ Tail(q) \in Seq(S) /\ Len(q) \in Nat
      /\ DOMAIN q = 1 .. Len(q) /\ DOMAIN Tail(q) = 1 .. Len(q) - 1
      /\ \A i \in 1 .. Len(q) - 1 : Tail(q)[i] = q[i + 1]
      /\ 1 \in DOMAIN q /\ Head(q) = q[1]
  OBVIOUS
<1>2. /\ IsFiniteSet(NcIn(q)) /\ NcCount(q) \in Nat /\ NcCount(Tail(q)) \in Nat
  BY <1>1, NcInIsFinite
<1> DEFINE rest == NcIn(q) \ {1}
           f == [i \in NcIn(Tail(q)) |-> i + 1]
<1>3. /\ IsFiniteSet(rest)
      /\ Cardinality(rest) = IF 1 \in NcIn(q) THEN NcCount(q) - 1 ELSE NcCount(q)
  BY <1>2, FS_RemoveElement DEF NcCount
<1>4. f \in Injection(NcIn(Tail(q)), rest)
  <2>1. \A i \in NcIn(Tail(q)) : i \in Nat /\ i + 1 \in rest
    BY <1>1 DEF NcIn
  <2>2. \A i, j \in NcIn(Tail(q)) : f[i] = f[j] => i = j
    BY <2>1
  <2>3. f \in [NcIn(Tail(q)) -> rest]
    BY <2>1
  <2> HIDE DEF f, rest
  <2> QED
    BY <2>2, <2>3 DEF Injection, IsInjective
<1> HIDE DEF rest, f
<1>5. NcCount(Tail(q)) <= Cardinality(rest)
  BY <1>3, <1>4, FS_Injection DEF NcCount
<1>6. Head(q).type = "NC" <=> 1 \in NcIn(q)
  BY <1>1 DEF NcIn
<1> QED
  BY <1>2, <1>3, <1>5, <1>6

(* A queue from which its first packet was taken, and one to which a packet*)
(* was added.                                                              *)
LEMMA AnswerCounts ==
  ASSUME NEW S, NEW q \in Seq(S), NEW T, NEW r \in Seq(T), NEW p \in T,
         Receives(q, "NC")
  PROVE  NcCount(Tail(q)) + NcCount(Append(r, p)) <= NcCount(q) + NcCount(r)
<1>1. NcCount(Tail(q)) + 1 <= NcCount(q)
  BY TailCounts DEF Receives
<1>2. NcCount(Append(r, p)) <= NcCount(r) + 1
  BY AppendCounts
<1>3. /\ NcCount(q) \in Nat /\ NcCount(r) \in Nat
      /\ NcCount(Tail(q)) \in Nat /\ NcCount(Append(r, p)) \in Nat
  <2>1. Tail(q) \in Seq(S) /\ Append(r, p) \in Seq(T)
    BY QueueTypes DEF Receives
  <2> QED
    BY <2>1, NcInIsFinite
<1> QED
  BY <1>1, <1>2, <1>3

LEMMA TokensStep ==
  ASSUME TypeInv, TypeInv', Next, ~UpdateKey
  PROVE  ~(Tokens' > Tokens)
<1> DEFINE old == NcCount(toServer) + NcCount(toClient)
           new == NcCount(toServer') + NcCount(toClient')
<1>1. /\ toServer \in Seq(ToServerPackets) /\ toServer' \in Seq(ToServerPackets)
      /\ toClient \in Seq(ToClientPackets) /\ toClient' \in Seq(ToClientPackets)
  BY DEF TypeInv, TypeOK, ToServerPackets, ToClientPackets, BeginPackets, UpdatePackets,
         FinalPackets, MsgPackets, AES!EmptyPacket
<1>2. /\ NcCount(toServer) \in Nat /\ NcCount(toServer') \in Nat
      /\ NcCount(toClient) \in Nat /\ NcCount(toClient') \in Nat
  BY <1>1, NcInIsFinite
<1>3. Tokens = old /\ Tokens' = new
  BY DEF Tokens, NcCount, NcIn
<1> SUFFICES new <= old
  BY <1>2, <1>3
<1>4. ASSUME NEW p, toServer' = Append(toServer, p), toClient' = Tail(toClient),
             ReceivesNc(toClient, "UPDATE")
      PROVE  new <= old
  <2>1. p \in ToServerPackets
    <3>1. toServer'[Len(toServer) + 1] = p /\ Len(toServer') = Len(toServer) + 1
      BY <1>1, <1>4
    <3> QED
      BY <1>1, <3>1
  <2> QED
    BY <1>1, <1>2, <1>4, <2>1, AnswerCounts DEF ReceivesNc
<1>5. ASSUME NEW p, toClient' = Append(toClient, p), toServer' = Tail(toServer),
             Receives(toServer, "NC")
      PROVE  new <= old
  <2>1. p \in ToClientPackets
    <3>1. toClient'[Len(toClient) + 1] = p /\ Len(toClient') = Len(toClient) + 1
      BY <1>1, <1>5
    <3> QED
      BY <1>1, <3>1
  <2> QED
    BY <1>1, <1>2, <1>5, <2>1, AnswerCounts
<1>6. toServer # <<>> /\ toServer' = Tail(toServer) /\ UNCHANGED toClient => new <= old
  BY <1>1, <1>2, TailCounts
<1>7. toClient # <<>> /\ toClient' = Tail(toClient) /\ UNCHANGED toServer => new <= old
  BY <1>1, <1>2, TailCounts
<1>8. CASE ClientUpdate
  BY <1>4, <1>8 DEF ClientUpdate
<1>9. CASE ServerBegin
  BY <1>5, <1>9 DEF ServerBegin, ReceivesNc
<1>10. CASE ServerUpdate
  BY <1>5, <1>10 DEF ServerUpdate, ReceivesNc
<1>11. CASE ClientFinal \/ ClientDecryptMSG
  BY <1>7, <1>11 DEF ClientFinal, ClientDecryptMSG, ReceivesNc, Receives
<1>12. CASE ServerFinal \/ ServerReadEmpty
  BY <1>6, <1>12 DEF ServerFinal, ServerReadEmpty, ReceivesNc, Receives
<1>13. CASE Lose
  BY <1>6, <1>7, <1>13 DEF Lose
<1>14. CASE SendEncryptedMessage
  <2>1. PICK m \in AES!EncryptedMessages(client.secret) : toServer' = Append(toServer, m)
    BY <1>14 DEF SendEncryptedMessage
  <2>2. m.type # "NC"
    BY DEF AES!EncryptedMessages, AES!Msg, AES!EmptyPacket
  <2>3. m \in ToServerPackets
    <3>1. toServer'[Len(toServer) + 1] = m /\ Len(toServer') = Len(toServer) + 1
      BY <1>1, <2>1
    <3> QED
      BY <1>1, <3>1
  <2>4. NcCount(toServer') = NcCount(toServer)
    BY <1>1, <2>1, <2>2, <2>3, AppendCounts
  <2>5. UNCHANGED toClient
    BY <1>14 DEF SendEncryptedMessage
  <2> QED
    BY <1>2, <2>4, <2>5
<1>15. CASE ServerDecryptMSG
  <2>1. toServer # <<>> /\ toServer' = Tail(toServer)
    BY <1>15 DEF ServerDecryptMSG, Receives
  <2>2. CASE toClient' = toClient
    BY <1>6, <2>1, <2>2
  <2>3. CASE toClient' = Append(toClient, AES!Msg(server.secret))
    <3> DEFINE m == AES!Msg(server.secret)
    <3>1. m.type # "NC"
      BY DEF AES!Msg
    <3>2. m \in ToClientPackets
      <4>1. toClient'[Len(toClient) + 1] = m /\ Len(toClient') = Len(toClient) + 1
        BY <1>1, <2>3
      <4> QED
        BY <1>1, <4>1
    <3> HIDE DEF m
    <3>3. NcCount(toClient') = NcCount(toClient)
      BY <1>1, <2>3, <3>1, <3>2, AppendCounts DEF m
    <3>4. NcCount(toServer') <= NcCount(toServer)
      BY <1>1, <2>1, TailCounts
    <3> QED
      BY <1>2, <3>3, <3>4
  <2> QED
    BY <1>15, <2>2, <2>3 DEF ServerDecryptMSG
<1> QED
  BY <1>8, <1>9, <1>10, <1>11, <1>12, <1>13, <1>14, <1>15 DEF Next

(* However many negotiations overlap and whichever packets are lost, a     *)
(* handler answers a packet of a negotiation with at most one: only        *)
(* Client::UpdateKey adds to them.                                         *)
THEOREM PacketsDoNotMultiply == Spec => OnlyRefreshAddsPackets
<1>1. TypeInv /\ TypeInv' /\ [Next]_vars => [Tokens' > Tokens => UpdateKey]_vars
  BY TokensStep
<1> QED
  BY <1>1, TypeInvariance, PTL DEF Spec, OnlyRefreshAddsPackets
=============================================================================
