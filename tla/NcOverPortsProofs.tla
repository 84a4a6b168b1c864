------------------------- MODULE NcOverPortsProofs -------------------------
(***************************************************************************)
(* Theorems about NC negotiations of nodes that run out of ports, for      *)
(* every number of ports, size of the machines and threshold, when each    *)
(* negotiation ends before the next refresh.                               *)
(***************************************************************************)
EXTENDS NcOverPorts, NcNegotiationProofs

(* Ports add nothing the negotiation does not already cope with: a packet  *)
(* without a port is one of the losses of NcNegotiation.                   *)
THEOREM PortsAreLosses == PortsSpec => Spec
<1>1. PortsInit => Init
  BY DEF PortsInit
<1>2. [PortsNext]_portsVars => [Next]_vars
  <2>1. PortsNext => Next
    BY DEF PortsNext, Refresh, SendMessage, ServerReceives, ClientReceives, NoPort, Next
  <2>2. UNCHANGED portsVars => UNCHANGED vars
    BY DEF portsVars
  <2> QED
    BY <2>1, <2>2
<1> QED
  BY <1>1, <1>2, PTL DEF PortsSpec, Spec

-----------------------------------------------------------------------------
PortsType == portsLeft = [h \in {"client", "server"} |-> portsLeft[h]]

Waiting(host) == keyFile.row # NoRow /\ keyFile.row.node = host

(* A row waits for its partner only while FINAL is on its way, or for ever,*)
(* because the host that wrote it has no port left.                        *)
RowsWait ==
  /\ DOMAIN keyFile = {"row", "pair"}
  /\ keyFile.row # NoRow => Waiting("client") \/ Waiting("server")
  /\ Waiting("client") => \/ ReceivesNc(toServer, "FINAL") /\ ~oldRow
                          \/ portsLeft["client"] = 0 /\ ~Receives(toClient, "NC")
  /\ Waiting("server") => \/ ReceivesNc(toClient, "FINAL") /\ ~oldRow
                          \/ /\ portsLeft["server"] = 0
                             /\ ~ReceivesNc(toServer, "UPDATE")
                             /\ ~ReceivesNc(toServer, "FINAL")
  /\ ReceivesNc(toServer, "FINAL") => Waiting("client")
  /\ ReceivesNc(toClient, "FINAL") => Waiting("server")

(* The client's key is the server's too, or FINAL is on its way, or will   *)
(* never be: then the MSG will not be either.                              *)
KeyOrNoPort ==
  /\ Keyed(client) =>
       Keyed(server) \/ ReceivesNc(toServer, "FINAL") \/ portsLeft["client"] = 0
  /\ (\E i \in DOMAIN toServer : toServer[i].type # "NC") => Keyed(client)

RowsInv == PortsType /\ RowsWait /\ KeyRowsArePairs
PortsInv == RowsInv /\ KeyOrNoPort

LEMMA PortUsed ==
  ASSUME PortsType, NEW host \in {"client", "server"}, portsLeft[host] # 0, UsePort(host)
  PROVE  /\ PortsType'
         /\ \A h \in {"client", "server"} : portsLeft[h] = 0 => portsLeft'[h] = 0
BY DEF PortsType, UsePort

(* A row for a key completes the pair, or waits.                           *)
LEMMA KeyWritten ==
  ASSUME DOMAIN keyFile = {"row", "pair"}, KeyRowsArePairs,
         NEW host \in {"client", "server"}, NEW key \in Weights \cup {NoKey},
         WriteKey(host, key),
         keyFile.row # NoRow => keyFile.row.node # host /\ ~oldRow
  PROVE  /\ DOMAIN keyFile' = {"row", "pair"}
         /\ KeyRowsArePairs'
         /\ keyFile.row = NoRow => keyFile'.row # NoRow /\ keyFile'.row.node = host /\ ~oldRow'
         /\ keyFile.row # NoRow => keyFile'.row = NoRow
<1>1. keyFile' = LogKey(keyFile, host, key) /\ oldRow' = (oldRow /\ keyFile.row # NoRow)
  BY DEF WriteKey
<1> DEFINE row == [node |-> host, key |-> key]
<1>2. row # NoRow
  BY PortsAssumption
<1>3. CASE keyFile.row = NoRow
  <2>1. keyFile' = [keyFile EXCEPT !.row = row] /\ ~oldRow'
    BY <1>1, <1>3 DEF LogKey, ReadKey, Read
  <2>2. keyFile'.row = row /\ keyFile'.pair = keyFile.pair /\ DOMAIN keyFile' = {"row", "pair"}
    BY <2>1
  <2> QED
    BY <1>2, <1>3, <2>1, <2>2 DEF KeyRowsArePairs
<1>4. CASE keyFile.row # NoRow
  <2>1. /\ keyFile'.row = NoRow /\ DOMAIN keyFile' = {"row", "pair"}
        /\ keyFile'.pair.nodes = <<keyFile.row.node, host>>
    BY <1>1, <1>4 DEF LogKey, ReadKey, Read
  <2>2. keyFile'.pair.nodes[1] # keyFile'.pair.nodes[2]
    <3>1. keyFile'.pair.nodes[1] = keyFile.row.node /\ keyFile'.pair.nodes[2] = host
      BY <2>1
    <3> QED
      BY <1>4, <3>1
  <2>3. ~oldRow'
    BY <1>1, <1>4
  <2> QED
    BY <1>4, <2>1, <2>2, <2>3 DEF KeyRowsArePairs
<1> QED
  BY <1>3, <1>4

LEMMA NothingWritten ==
  ASSUME DOMAIN keyFile = {"row", "pair"}, keyFile' = Forget(keyFile)
  PROVE  /\ DOMAIN keyFile' = {"row", "pair"} /\ keyFile'.row = keyFile.row
         /\ KeyRowsArePairs'
         /\ \A h \in {"client", "server"} : Waiting(h)' <=> Waiting(h)
BY DEF Forget, KeyRowsArePairs, Waiting

LEMMA SecretType ==
  ASSUME NEW tpm \in TPMs
  PROVE  tpm.secret \in Weights \cup {NoKey}
BY DEF TPMs

-----------------------------------------------------------------------------
(* One lemma per step.                                                     *)

LEMMA RefreshRows ==
  ASSUME KeyInv, PortsInv, Refresh, ~Overlap
  PROVE  PortsInv'
<1>1. /\ toServer = <<>> /\ toClient = <<>> /\ toClient' = <<>>
      /\ portsLeft' = portsLeft /\ keyFile' = Forget(keyFile)
  BY QueuesAreEmpty DEF Refresh, UpdateKey
<1>2. PICK w \in Weights, x \in Inputs :
        /\ client' = NewTPM(w, x)
        /\ toServer' = Append(toServer, NcPacket("BEGIN", x, client'.tau, client'.tau))
  BY DEF Refresh, UpdateKey
<1> DEFINE m == NcPacket("BEGIN", x, client'.tau, client'.tau)
<1>3. toServer' = <<m>> /\ m.type = "NC" /\ m.state = "BEGIN"
  BY <1>1, <1>2 DEF NcPacket
<1>4. ~Keyed(client)'
  BY <1>2, NewTPMSecret DEF Keyed
<1> HIDE DEF m
<1>5. /\ DOMAIN keyFile' = {"row", "pair"} /\ keyFile'.row = keyFile.row
      /\ KeyRowsArePairs'
      /\ \A h \in {"client", "server"} : Waiting(h)' <=> Waiting(h)
  BY <1>1, NothingWritten DEF PortsInv, RowsInv, RowsWait
<1>6. /\ Waiting("client") => portsLeft["client"] = 0
      /\ Waiting("server") => portsLeft["server"] = 0
  BY <1>1, Single DEF PortsInv, RowsInv, RowsWait
<1>7. RowsWait'
  BY <1>1, <1>3, <1>5, <1>6, Single DEF RowsWait, PortsInv, RowsInv
<1>8. KeyOrNoPort'
  BY <1>3, <1>4 DEF KeyOrNoPort
<1>9. PortsType'
  BY <1>1 DEF PortsType, PortsInv, RowsInv
<1> QED
  BY <1>5, <1>7, <1>8, <1>9 DEF PortsInv, RowsInv

LEMMA ServerBeginRows ==
  ASSUME KeyInv, PortsInv, portsLeft["client"] # 0, UsePort("client"),
         ServerBegin, WriteNothing
  PROVE  PortsInv'
<1> DEFINE p == Head(toServer)
<1>1. /\ toServer = <<p>> /\ toClient = <<>> /\ toServer' = <<>>
      /\ ~Keyed(client) /\ client' = client /\ p.type = "NC" /\ p.state = "BEGIN"
  BY DEF KeyInv, LockstepInv, OnePacket, KeysComeWithFinal, ServerBegin, ReceivesNc, Receives
<1>2. PICK x, t, u : toClient' = Append(toClient, NcPacket("UPDATE", x, t, u))
  BY DEF ServerBegin
<1> DEFINE m == NcPacket("UPDATE", x, t, u)
<1>3. toClient' = <<m>> /\ m.type = "NC" /\ m.state = "UPDATE"
  BY <1>1, <1>2 DEF NcPacket
<1> HIDE DEF m, p
<1>4. /\ DOMAIN keyFile' = {"row", "pair"} /\ keyFile'.row = keyFile.row
      /\ KeyRowsArePairs'
      /\ \A h \in {"client", "server"} : Waiting(h)' <=> Waiting(h)
  BY NothingWritten DEF PortsInv, RowsInv, RowsWait, WriteNothing
<1>5. PortsType' /\ \A h \in {"client", "server"} : portsLeft[h] = 0 => portsLeft'[h] = 0
  BY PortUsed DEF PortsInv, RowsInv
<1>6. ~Waiting("client") /\ (Waiting("server") => portsLeft["server"] = 0)
  BY <1>1, Single DEF PortsInv, RowsInv, RowsWait
<1>7. RowsWait'
  BY <1>1, <1>3, <1>4, <1>5, <1>6, Single DEF RowsWait, PortsInv, RowsInv
<1>8. KeyOrNoPort'
  BY <1>1 DEF KeyOrNoPort, Keyed
<1> QED
  BY <1>4, <1>5, <1>7, <1>8 DEF PortsInv, RowsInv

LEMMA ServerUpdateRows ==
  ASSUME KeyInv, PortsInv, portsLeft["client"] # 0, UsePort("client"), ServerUpdate,
         IF toClient'[Len(toClient')].state = "FINAL"
         THEN WriteKey("server", server'.secret) ELSE WriteNothing
  PROVE  PortsInv'
<1> DEFINE p == Head(toServer)
           learnt == Learnt(server, p)
           lastTau == Answer(server, p).tau
<1>1. p \in UpdatePackets /\ server \in TPMs
  BY QueueTypes, PacketByState
     DEF KeyInv, LockstepInv, TypeInv, TypeOK, ServerUpdate, ReceivesNc, Receives,
         ToServerPackets, ToClientPackets
<1>2. /\ toServer = <<p>> /\ toClient = <<>> /\ toServer' = <<>>
      /\ p.type = "NC" /\ p.state = "UPDATE"
      /\ ~Keyed(client) /\ client' = client
  BY <1>1
     DEF KeyInv, LockstepInv, OnePacket, KeysComeWithFinal, ServerUpdate, ReceivesNc, Receives
<1>3. learnt \in TPMs
  BY <1>1, LearntType DEF UpdatePackets
<1> HIDE DEF learnt, lastTau
<1>4. ~Waiting("client") /\ ~Waiting("server") /\ keyFile.row = NoRow
  BY <1>2, Single DEF PortsInv, RowsInv, RowsWait
<1>5. PortsType'
  BY PortUsed DEF PortsInv, RowsInv
<1>6. KeyOrNoPort'
  BY <1>2 DEF KeyOrNoPort, Keyed
<1>7. CASE BelowThreshold(learnt)
  <2>1. PICK x : toClient' = Append(toClient, NcPacket("UPDATE", x, server'.tau, lastTau))
    BY <1>7 DEF ServerUpdate, learnt, lastTau
  <2> DEFINE m == NcPacket("UPDATE", x, server'.tau, lastTau)
  <2>2. toClient' = <<m>> /\ m.type = "NC" /\ m.state = "UPDATE"
    BY <1>2, <2>1 DEF NcPacket
  <2> HIDE DEF m, p
  <2>3. WriteNothing
    BY <2>2
  <2>4. /\ DOMAIN keyFile' = {"row", "pair"} /\ keyFile'.row = keyFile.row
        /\ KeyRowsArePairs'
        /\ \A h \in {"client", "server"} : Waiting(h)' <=> Waiting(h)
    BY <2>3, NothingWritten DEF PortsInv, RowsInv, RowsWait, WriteNothing
  <2>5. RowsWait'
    BY <1>2, <1>4, <2>2, <2>4, Single DEF RowsWait
  <2> QED
    BY <1>5, <1>6, <2>4, <2>5 DEF PortsInv, RowsInv
<1>8. CASE ~BelowThreshold(learnt)
  <2>1. /\ server' = GenerateKey(learnt)
        /\ toClient' = Append(toClient, NcPacket("FINAL", ZeroVector, lastTau, lastTau))
    BY <1>8 DEF ServerUpdate, learnt, lastTau
  <2> DEFINE m == NcPacket("FINAL", ZeroVector, lastTau, lastTau)
  <2>2. toClient' = <<m>> /\ m.type = "NC" /\ m.state = "FINAL"
    BY <1>2, <2>1 DEF NcPacket
  <2>3. server'.secret \in Weights \cup {NoKey}
    BY <1>3, <2>1, GenerateKeyType, SecretType
  <2> HIDE DEF m, p
  <2>4. WriteKey("server", server'.secret)
    BY <2>2
  <2>5. /\ DOMAIN keyFile' = {"row", "pair"} /\ KeyRowsArePairs'
        /\ keyFile'.row # NoRow /\ keyFile'.row.node = "server" /\ ~oldRow'
    BY <1>4, <2>3, <2>4, KeyWritten DEF PortsInv, RowsInv, RowsWait
  <2>6. RowsWait'
    BY <1>2, <2>2, <2>5, Single DEF RowsWait, Waiting
  <2> QED
    BY <1>5, <1>6, <2>5, <2>6 DEF PortsInv, RowsInv
<1> QED
  BY <1>7, <1>8

LEMMA ServerFinalRows ==
  ASSUME KeyInv, PortsInv, portsLeft["client"] # 0, UsePort("client"),
         ServerFinal, WriteKey("server", server'.secret)
  PROVE  PortsInv'
<1>1. /\ server \in TPMs /\ toServer \in Seq(ToServerPackets) /\ toServer # <<>>
      /\ toClient = <<>> /\ toClient' = <<>> /\ client' = client /\ Keyed(client)
      /\ toServer' = Tail(toServer) /\ ReceivesNc(toServer, "FINAL")
      /\ \A i \in DOMAIN toServer : i > 1 => toServer[i].type # "NC"
  BY DEF KeyInv, LockstepInv, TypeInv, TypeOK, OnePacket, KeysComeWithFinal, ServerFinal,
         ReceivesNc, Receives, ToServerPackets
<1>2. server' \in TPMs /\ server'.secret # NoKey /\ server'.secret \in Weights \cup {NoKey}
  BY <1>1, UpdateWeightsType, GenerateKeyType, Secrets, SecretType DEF ServerFinal
<1>3. ~Receives(toServer', "NC") /\ ~Receives(toClient', "NC")
  BY <1>1, NoNcBehind, Single
<1>4. keyFile.row # NoRow /\ keyFile.row.node = "client" /\ ~oldRow
  BY <1>1 DEF PortsInv, RowsInv, RowsWait, Waiting
<1>5. DOMAIN keyFile' = {"row", "pair"} /\ KeyRowsArePairs' /\ keyFile'.row = NoRow
  BY <1>2, <1>4, KeyWritten DEF PortsInv, RowsInv, RowsWait
<1>6. RowsWait'
  BY <1>3, <1>5 DEF RowsWait, Waiting, ReceivesNc
<1>7. KeyOrNoPort'
  BY <1>1, <1>2, NcAssumption DEF KeyOrNoPort, Keyed
<1>8. PortsType'
  BY PortUsed DEF PortsInv, RowsInv
<1> QED
  BY <1>5, <1>6, <1>7, <1>8 DEF PortsInv, RowsInv

LEMMA ClientUpdateRows ==
  ASSUME KeyInv, PortsInv, portsLeft["server"] # 0, UsePort("server"), ClientUpdate,
         IF toServer'[Len(toServer')].state = "FINAL"
         THEN WriteKey("client", client'.secret) ELSE WriteNothing
  PROVE  PortsInv'
<1> DEFINE p == Head(toClient)
           learnt == Learnt(client, p)
           lastTau == Answer(client, p).tau
<1>1. p \in UpdatePackets /\ client \in TPMs
  BY QueueTypes, PacketByState
     DEF KeyInv, LockstepInv, TypeInv, TypeOK, ClientUpdate, ReceivesNc, Receives,
         ToServerPackets, ToClientPackets
<1>2. /\ toClient = <<p>> /\ toServer = <<>> /\ toClient' = <<>>
      /\ p.type = "NC" /\ p.state = "UPDATE"
  BY <1>1 DEF KeyInv, LockstepInv, OnePacket, ClientUpdate, ReceivesNc, Receives
<1>3. learnt \in TPMs
  BY <1>1, LearntType DEF UpdatePackets
<1>4. KeysComeWithFinal'
  BY ClientUpdateKeys
<1> HIDE DEF learnt, lastTau
<1>5. ~Waiting("client") /\ ~Waiting("server") /\ keyFile.row = NoRow
  BY <1>2, Single DEF PortsInv, RowsInv, RowsWait
<1>6. PortsType'
  BY PortUsed DEF PortsInv, RowsInv
<1>7. CASE BelowThreshold(learnt)
  <2>1. PICK x : toServer' = Append(toServer, NcPacket("UPDATE", x, client'.tau, lastTau))
    BY <1>7 DEF ClientUpdate, learnt, lastTau
  <2> DEFINE m == NcPacket("UPDATE", x, client'.tau, lastTau)
  <2>2. toServer' = <<m>> /\ m.type = "NC" /\ m.state = "UPDATE"
    BY <1>2, <2>1 DEF NcPacket
  <2> HIDE DEF m, p
  <2>3. WriteNothing
    BY <2>2
  <2>4. /\ DOMAIN keyFile' = {"row", "pair"} /\ keyFile'.row = keyFile.row
        /\ KeyRowsArePairs'
        /\ \A h \in {"client", "server"} : Waiting(h)' <=> Waiting(h)
    BY <2>3, NothingWritten DEF PortsInv, RowsInv, RowsWait, WriteNothing
  <2>5. RowsWait'
    BY <1>2, <1>5, <2>2, <2>4, Single DEF RowsWait
  <2>6. ~Keyed(client)'
    BY <1>4, <2>2, Single DEF KeysComeWithFinal
  <2>7. KeyOrNoPort'
    BY <2>2, <2>6 DEF KeyOrNoPort
  <2> QED
    BY <1>6, <2>4, <2>5, <2>7 DEF PortsInv, RowsInv
<1>8. CASE ~BelowThreshold(learnt)
  <2>1. /\ client' = GenerateKey(learnt)
        /\ toServer' = Append(toServer, NcPacket("FINAL", ZeroVector, lastTau, lastTau))
    BY <1>8 DEF ClientUpdate, learnt, lastTau
  <2> DEFINE m == NcPacket("FINAL", ZeroVector, lastTau, lastTau)
  <2>2. toServer' = <<m>> /\ m.type = "NC" /\ m.state = "FINAL"
    BY <1>2, <2>1 DEF NcPacket
  <2>3. client'.secret \in Weights \cup {NoKey}
    BY <1>3, <2>1, GenerateKeyType, SecretType
  <2> HIDE DEF m, p
  <2>4. WriteKey("client", client'.secret)
    BY <2>2
  <2>5. /\ DOMAIN keyFile' = {"row", "pair"} /\ KeyRowsArePairs'
        /\ keyFile'.row # NoRow /\ keyFile'.row.node = "client" /\ ~oldRow'
    BY <1>5, <2>3, <2>4, KeyWritten DEF PortsInv, RowsInv, RowsWait
  <2>6. RowsWait'
    BY <1>2, <2>2, <2>5, Single DEF RowsWait, Waiting
  <2>7. KeyOrNoPort'
    BY <2>2, Single DEF KeyOrNoPort
  <2> QED
    BY <1>6, <2>5, <2>6, <2>7 DEF PortsInv, RowsInv
<1> QED
  BY <1>7, <1>8

LEMMA ClientFinalRows ==
  ASSUME KeyInv, PortsInv, portsLeft["server"] # 0, UsePort("server"),
         ClientFinal, WriteKey("client", client'.secret)
  PROVE  PortsInv'
<1>1. /\ client \in TPMs /\ toServer' = <<>> /\ toClient' = <<>> /\ server' = server
      /\ Keyed(server) /\ ReceivesNc(toClient, "FINAL")
  BY DEF KeyInv, LockstepInv, TypeInv, TypeOK, OnePacket, KeysComeWithFinal, ClientFinal,
         ReceivesNc, Receives
<1>2. client'.secret \in Weights \cup {NoKey}
  BY <1>1, UpdateWeightsType, GenerateKeyType, SecretType DEF ClientFinal
<1>3. keyFile.row # NoRow /\ keyFile.row.node = "server" /\ ~oldRow
  BY <1>1 DEF PortsInv, RowsInv, RowsWait, Waiting
<1>4. DOMAIN keyFile' = {"row", "pair"} /\ KeyRowsArePairs' /\ keyFile'.row = NoRow
  BY <1>2, <1>3, KeyWritten DEF PortsInv, RowsInv, RowsWait
<1>5. RowsWait'
  BY <1>1, <1>4, Single DEF RowsWait, Waiting
<1>6. KeyOrNoPort'
  BY <1>1 DEF KeyOrNoPort, Keyed
<1>7. PortsType'
  BY PortUsed DEF PortsInv, RowsInv
<1> QED
  BY <1>4, <1>5, <1>6, <1>7 DEF PortsInv, RowsInv

(* A step that takes the first packet of a queue or adds a MSG to the      *)
(* client, changes no machine and writes no row.                           *)
LEMMA QuietRows ==
  ASSUME KeyInv, PortsInv, client' = client, server' = server, WriteNothing, PortsType',
         ~Receives(toServer', "NC"), ~Receives(toClient', "NC"),
         toServer' = toServer \/ (toServer # <<>> /\ toServer' = Tail(toServer)),
         \A h \in {"client", "server"} : portsLeft[h] = 0 => portsLeft'[h] = 0,
         \A h \in {"client", "server"} : Waiting(h) => portsLeft[h] = 0,
         ReceivesNc(toServer, "FINAL") => portsLeft["client"] = 0
  PROVE  PortsInv'
<1>1. /\ DOMAIN keyFile' = {"row", "pair"} /\ keyFile'.row = keyFile.row
      /\ KeyRowsArePairs'
      /\ \A h \in {"client", "server"} : Waiting(h)' <=> Waiting(h)
  BY NothingWritten DEF PortsInv, RowsInv, RowsWait, WriteNothing
<1>2. RowsWait'
  <2>1. \A s : ~ReceivesNc(toServer', s) /\ ~ReceivesNc(toClient', s)
    BY DEF ReceivesNc
  <2>2. keyFile'.row # NoRow => Waiting("client")' \/ Waiting("server")'
    BY <1>1 DEF PortsInv, RowsInv, RowsWait
  <2> QED
    BY <1>1, <2>1, <2>2 DEF RowsWait
<1>3. KeyOrNoPort'
  <2>1. toServer \in Seq(ToServerPackets)
    BY DEF KeyInv, LockstepInv, TypeInv, TypeOK, ToServerPackets
  <2>2. (\E i \in DOMAIN toServer' : toServer'[i].type # "NC") =>
          \E i \in DOMAIN toServer : toServer[i].type # "NC"
    <3>1. CASE toServer' = toServer
      BY <3>1
    <3>2. CASE toServer # <<>> /\ toServer' = Tail(toServer)
      <4>1. \A i \in DOMAIN Tail(toServer) :
              i + 1 \in DOMAIN toServer /\ Tail(toServer)[i] = toServer[i + 1]
        BY <2>1, <3>2
      <4> QED
        BY <3>2, <4>1
    <3> QED
      BY <3>1, <3>2
  <2> QED
    BY <2>2 DEF PortsInv, KeyOrNoPort, Keyed
<1> QED
  BY <1>1, <1>2, <1>3 DEF PortsInv, RowsInv

LEMMA ServerMsgRows ==
  ASSUME KeyInv, PortsInv, portsLeft["client"] # 0, UsePort("client"),
         ServerDecryptMSG \/ ServerReadEmpty, WriteNothing
  PROVE  PortsInv'
<1>1. /\ toServer \in Seq(ToServerPackets) /\ toClient \in Seq(ToClientPackets)
      /\ \A i \in DOMAIN toServer : i > 1 => toServer[i].type # "NC"
      /\ \A i \in DOMAIN toClient : i > 1 => toClient[i].type # "NC"
      /\ toServer # <<>> => ~Receives(toClient, "NC")
  BY Queues
<1>2. /\ toServer # <<>> /\ toServer' = Tail(toServer)
      /\ client' = client /\ server' = server
      /\ ~Receives(toServer, "NC") /\ ~Receives(toClient, "NC")
  BY <1>1 DEF ServerDecryptMSG, ServerReadEmpty, Receives
<1>3. ~Receives(toServer', "NC")
  BY <1>1, <1>2, NoNcBehind
<1>4. ~Receives(toClient', "NC")
  <2>1. CASE ServerDecryptMSG
    <3>1. server \in TPMs
      BY <2>1 DEF ServerDecryptMSG, KeyInv, LockstepInv, TypeInv, TypeOK
    <3>2. toClient' = toClient \/ toClient' = Append(toClient, AES!Msg(server.secret))
      BY <2>1 DEF ServerDecryptMSG
    <3>3. AES!Msg(server.secret) \in ToClientPackets /\ AES!Msg(server.secret).type # "NC"
      BY <3>1 DEF AES!Msg, TPMs, MsgPackets, ToClientPackets
    <3> QED
      BY <1>1, <1>2, <3>2, <3>3, AppendMsg
  <2>2. CASE ServerReadEmpty
    BY <1>2, <2>2 DEF ServerReadEmpty
  <2> QED
    BY <2>1, <2>2
<1>5. PortsType' /\ \A h \in {"client", "server"} : portsLeft[h] = 0 => portsLeft'[h] = 0
  BY PortUsed DEF PortsInv, RowsInv
<1>6. /\ \A s : ~ReceivesNc(toServer, s) /\ ~ReceivesNc(toClient, s)
      /\ \A h \in {"client", "server"} : Waiting(h) => portsLeft[h] = 0
  BY <1>2 DEF ReceivesNc, PortsInv, RowsInv, RowsWait
<1> QED
  BY <1>2, <1>3, <1>4, <1>5, <1>6, QuietRows

LEMMA ClientMsgRows ==
  ASSUME KeyInv, PortsInv, portsLeft["server"] # 0, UsePort("server"),
         ClientDecryptMSG, WriteNothing
  PROVE  PortsInv'
<1>1. /\ toClient \in Seq(ToClientPackets)
      /\ \A i \in DOMAIN toClient : i > 1 => toClient[i].type # "NC"
      /\ toClient # <<>> => ~Receives(toServer, "NC")
  BY Queues
<1>2. /\ toClient # <<>> /\ toClient' = Tail(toClient) /\ toServer' = toServer
      /\ client' = client /\ server' = server
      /\ ~Receives(toServer, "NC") /\ ~Receives(toClient, "NC")
  BY <1>1 DEF ClientDecryptMSG, Receives
<1>3. ~Receives(toClient', "NC")
  BY <1>1, <1>2, NoNcBehind
<1>4. ~Receives(toServer', "NC")
  BY <1>2
<1>5. PortsType' /\ \A h \in {"client", "server"} : portsLeft[h] = 0 => portsLeft'[h] = 0
  BY PortUsed DEF PortsInv, RowsInv
<1>6. /\ \A s : ~ReceivesNc(toServer, s) /\ ~ReceivesNc(toClient, s)
      /\ \A h \in {"client", "server"} : Waiting(h) => portsLeft[h] = 0
  BY <1>2 DEF ReceivesNc, PortsInv, RowsInv, RowsWait
<1> QED
  BY <1>2, <1>3, <1>4, <1>5, <1>6, QuietRows

LEMMA NoPortRows ==
  ASSUME KeyInv, PortsInv, NoPort
  PROVE  PortsInv'
<1>1. /\ toServer \in Seq(ToServerPackets) /\ toClient \in Seq(ToClientPackets)
      /\ \A i \in DOMAIN toServer : i > 1 => toServer[i].type # "NC"
      /\ \A i \in DOMAIN toClient : i > 1 => toClient[i].type # "NC"
      /\ toServer # <<>> => ~Receives(toClient, "NC")
      /\ toClient # <<>> => ~Receives(toServer, "NC")
  BY Queues
<1>2. /\ client' = client /\ server' = server /\ WriteNothing /\ portsLeft' = portsLeft
  BY DEF NoPort, Lose
<1>3. PortsType'
  BY <1>2 DEF PortsType, PortsInv, RowsInv
<1>4. CASE portsLeft["client"] = 0 /\ toServer' # toServer
  <2>1. toServer # <<>> /\ toServer' = Tail(toServer) /\ toClient' = toClient
    BY <1>4 DEF NoPort, Lose
  <2>2. ~Receives(toServer', "NC")
    BY <1>1, <2>1, NoNcBehind
  <2>3. ~Receives(toClient, "NC")
    BY <1>1, <2>1
  <2>4. \A h \in {"client", "server"} : Waiting(h) => portsLeft[h] = 0
    BY <1>4, <2>3 DEF ReceivesNc, Receives, PortsInv, RowsInv, RowsWait
  <2> QED
    BY <1>2, <1>3, <1>4, <2>1, <2>2, <2>3, <2>4, QuietRows
<1>5. CASE portsLeft["server"] = 0 /\ toClient' # toClient
  <2>1. toClient # <<>> /\ toClient' = Tail(toClient) /\ toServer' = toServer
    BY <1>5 DEF NoPort, Lose
  <2>2. ~Receives(toClient', "NC")
    BY <1>1, <2>1, NoNcBehind
  <2>3. ~Receives(toServer, "NC") /\ ~Receives(toServer', "NC")
    BY <1>1, <2>1
  <2>4. ~ReceivesNc(toServer, "FINAL")
    BY <2>3 DEF ReceivesNc
  <2>5. \A h \in {"client", "server"} : Waiting(h) => portsLeft[h] = 0
    BY <1>5, <2>4 DEF PortsInv, RowsInv, RowsWait
  <2> QED
    BY <1>2, <1>3, <1>5, <2>1, <2>2, <2>3, <2>4, <2>5, QuietRows
<1> QED
  BY <1>4, <1>5 DEF NoPort

LEMMA SendMessageRows ==
  ASSUME KeyInv, PortsInv, SendMessage
  PROVE  PortsInv'
<1> DEFINE m == AES!Msg(client.secret)
<1>1. /\ toServer \in Seq(ToServerPackets) /\ client \in TPMs
      /\ Keyed(client) /\ client.secret # NoKey
  BY DEF KeyInv, LockstepInv, TypeInv, TypeOK, NoNullDereference, MsgUnderCurrentKey, Keyed,
         SendMessage, SendEncryptedMessage, ToServerPackets
<1>2. /\ toServer' = Append(toServer, m) /\ WriteNothing /\ portsLeft' = portsLeft
      /\ client' = client /\ server' = server /\ toClient' = toClient
  BY <1>1 DEF SendMessage, SendEncryptedMessage, AES!EncryptedMessages
<1>3. m \in ToServerPackets /\ m.type # "NC"
  BY <1>1 DEF AES!Msg, MsgPackets, ToServerPackets, TPMs
<1>4. /\ toServer # <<>> => Head(toServer') = Head(toServer)
      /\ toServer' # <<>>
      /\ ~Receives(toServer, "NC") => ~Receives(toServer', "NC")
  BY <1>1, <1>2, <1>3, AppendMsg DEF KeyInv, LockstepInv, OnePacket
<1> HIDE DEF m
<1>5. /\ \A s : ReceivesNc(toServer', s) <=> ReceivesNc(toServer, s)
      /\ \A s : ReceivesNc(toClient', s) <=> ReceivesNc(toClient, s)
      /\ Receives(toClient', "NC") <=> Receives(toClient, "NC")
  BY <1>2, <1>4 DEF ReceivesNc, Receives
<1>6. /\ DOMAIN keyFile' = {"row", "pair"} /\ keyFile'.row = keyFile.row /\ oldRow' = oldRow
      /\ KeyRowsArePairs'
      /\ \A h \in {"client", "server"} : Waiting(h)' <=> Waiting(h)
  BY <1>2, NothingWritten DEF PortsInv, RowsInv, RowsWait, WriteNothing
<1>7. RowsWait'
  BY <1>2, <1>5, <1>6 DEF PortsInv, RowsInv, RowsWait
<1>8. KeyOrNoPort'
  BY <1>1, <1>2, <1>5 DEF PortsInv, KeyOrNoPort, Keyed
<1>9. PortsType'
  BY <1>2 DEF PortsType, PortsInv, RowsInv
<1> QED
  BY <1>6, <1>7, <1>8, <1>9 DEF PortsInv, RowsInv

-----------------------------------------------------------------------------
LEMMA PortsInvariance ==
  ASSUME Overlap = FALSE
  PROVE  PortsSpec => [](KeyInv /\ PortsInv)
<1>1. PortsInit => PortsInv
  BY DEF PortsInit, Init, NewFile, PortsInv, RowsInv, PortsType, RowsWait, KeyRowsArePairs,
         KeyOrNoPort, Keyed, Waiting, ReceivesNc, Receives
<1>2. ASSUME KeyInv, PortsInv, [PortsNext]_portsVars
      PROVE  PortsInv'
  <2>1. CASE UNCHANGED portsVars
    BY <1>2, <2>1
       DEF portsVars, vars, PortsInv, RowsInv, PortsType, RowsWait, KeyRowsArePairs,
           KeyOrNoPort, Keyed, Waiting, ReceivesNc, Receives
  <2>2. CASE ServerReceives
    BY <1>2, <2>2, ServerBeginRows, ServerUpdateRows, ServerFinalRows, ServerMsgRows
       DEF ServerReceives
  <2>3. CASE ClientReceives
    BY <1>2, <2>3, ClientUpdateRows, ClientFinalRows, ClientMsgRows DEF ClientReceives
  <2> QED
    BY <1>2, <2>1, <2>2, <2>3, RefreshRows, SendMessageRows, NoPortRows DEF PortsNext
<1>3. PortsSpec => []KeyInv
  BY PortsAreLosses, KeyInvariance, PTL
<1>4. KeyInv /\ PortsInv /\ [PortsNext]_portsVars => PortsInv'
  BY <1>2
<1> QED
  BY <1>1, <1>3, <1>4, PTL DEF PortsSpec

(* Ports that run out leave no row of the key file beside the row of       *)
(* another negotiation: every two rows that the script compares are of the *)
(* two nodes and of one negotiation.                                       *)
THEOREM RowsArePairs ==
  ASSUME Overlap = FALSE
  PROVE  PortsSpec => []KeyRowsArePairs
<1>1. PortsInv => KeyRowsArePairs
  BY DEF PortsInv, RowsInv
<1> QED
  BY <1>1, PortsInvariance, PTL

(* A MSG that has a port meets a server that has a key.                    *)
THEOREM MsgsMeetKeys ==
  ASSUME Overlap = FALSE
  PROVE  PortsSpec => []MsgMeetsKey
<1>1. KeyInv /\ PortsInv => MsgMeetsKey
  <2>1. SUFFICES ASSUME KeyInv, PortsInv, portsLeft["client"] # 0, Receives(toServer, "MSG")
                 PROVE  Keyed(server)
    BY DEF MsgMeetsKey
  <2>2. toServer \in Seq(ToServerPackets) /\ toServer # <<>> /\ Head(toServer).type = "MSG"
    BY <2>1, Queues DEF Receives
  <2>3. 1 \in DOMAIN toServer /\ toServer[1].type # "NC"
    BY <2>2
  <2>4. ~ReceivesNc(toServer, "FINAL")
    BY <2>2 DEF ReceivesNc, Receives
  <2> QED
    BY <2>1, <2>3, <2>4 DEF PortsInv, KeyOrNoPort
<1> QED
  BY <1>1, PortsInvariance, PTL
=============================================================================
