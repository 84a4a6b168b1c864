---------------------------- MODULE NcOverPorts -----------------------------
(***************************************************************************)
(* The nc negotiation between nodes that run out of ephemeral ports        *)
(* (SenderPorts), and the key file it leaves (Logger).  SendPacket hands a *)
(* host's first packets to IP, one for each port, and none after them, so  *)
(* of the packets a handler sends exactly the first ones arrive.  Like in  *)
(* NcNegotiation a packet that will not arrive is dropped when it would    *)
(* have been the next.                                                     *)
(***************************************************************************)
EXTENDS NcNegotiation, Logger

CONSTANTS
  PortCounts,  \* possible numbers of ports of a host
  Plenty       \* more ports than the simulation has packets

ASSUME PortsAssumption ==
  /\ PortCounts \subseteq Nat /\ Plenty \notin Nat
  /\ NoRow \notin [node : {"client", "server"}, key : Weights \cup {NoKey}]

VARIABLES
  portsLeft,  \* packets of each host still to arrive before its ports are used up
  keyFile,    \* Logger: the KeyExchange file
  oldRow      \* history: was the key refreshed after the first row of a pair?

portsVars == <<vars, portsLeft, keyFile, oldRow>>

UsePort(host) ==
  portsLeft' = [portsLeft EXCEPT ![host] = IF @ = Plenty THEN Plenty ELSE @ - 1]

PortsInit ==
  /\ Init
  /\ portsLeft \in [{"client", "server"} -> PortCounts \cup {Plenty}]
  /\ keyFile = NewFile /\ oldRow = FALSE

WriteKey(host, key) ==
  /\ keyFile' = LogKey(keyFile, host, key)
  /\ oldRow' = (oldRow /\ keyFile.row # NoRow)

WriteNothing == keyFile' = Forget(keyFile) /\ UNCHANGED oldRow

Refresh ==
  /\ UpdateKey
  /\ keyFile' = Forget(keyFile)
  /\ oldRow' = (keyFile.row # NoRow)
  /\ UNCHANGED portsLeft

SendMessage == SendEncryptedMessage /\ WriteNothing /\ UNCHANGED portsLeft

(* UpdateNC calls LogKey where it generates a key: on FINAL, and on UPDATE *)
(* when it answers FINAL.                                                  *)
ServerReceives ==
  /\ portsLeft["client"] # 0 /\ UsePort("client")
  /\ \/ ServerFinal /\ WriteKey("server", server'.secret)
     \/ ServerUpdate /\ IF toClient'[Len(toClient')].state = "FINAL"
                        THEN WriteKey("server", server'.secret) ELSE WriteNothing
     \/ (ServerBegin \/ ServerDecryptMSG \/ ServerReadEmpty) /\ WriteNothing

ClientReceives ==
  /\ portsLeft["server"] # 0 /\ UsePort("server")
  /\ \/ ClientFinal /\ WriteKey("client", client'.secret)
     \/ ClientUpdate /\ IF toServer'[Len(toServer')].state = "FINAL"
                        THEN WriteKey("client", client'.secret) ELSE WriteNothing
     \/ ClientDecryptMSG /\ WriteNothing

(* A packet for which Bind found no port.                                  *)
NoPort ==
  /\ Lose
  /\ \/ portsLeft["client"] = 0 /\ toServer' # toServer
     \/ portsLeft["server"] = 0 /\ toClient' # toClient
  /\ WriteNothing /\ UNCHANGED portsLeft

PortsNext == Refresh \/ SendMessage \/ ServerReceives \/ ClientReceives \/ NoPort

PortsSpec == PortsInit /\ [][PortsNext]_portsVars

FairPortsSpec ==
  /\ PortsSpec
  /\ WF_portsVars(ServerReceives) /\ WF_portsVars(ClientReceives)
  /\ WF_portsVars(NoPort) /\ WF_portsVars(SendMessage)
-----------------------------------------------------------------------------
(* Properties                                                              *)

Exhausted == portsLeft["client"] = 0 \/ portsLeft["server"] = 0

(* Ports that run out can leave one side with a key and the other without, *)
(* but no MSG tells: a client whose FINAL found no port has none for its   *)
(* MSG either, and a server whose FINAL found none hears of no MSG.  So    *)
(* the case Server.cc:358 expects does not come of this kind of loss.      *)
MsgMeetsKey == portsLeft["client"] # 0 /\ Receives(toServer, "MSG") => Keyed(server)

(* Nor does it shift the rows of the key file, as other losses do: every   *)
(* two rows extractKeyExchangeSuccess.py compares are of the two nodes and *)
(* of one negotiation, and a row without its partner is the last.          *)
KeyRowsArePairs ==
  keyFile.pair # NoRow => keyFile.pair.nodes[1] # keyFile.pair.nodes[2] /\ ~oldRow

(* Once synchronised, the negotiation ends in a MSG under the common key   *)
(* that reaches the client, unless the ports of a host are used up.        *)
ConfirmedOrExhausted ==
  InSync /\ (Pending(toClient) \/ Pending(toServer)) ~>
    Exhausted \/ (Receives(toClient, "MSG") /\ Head(toClient).key = client.secret)
=============================================================================
