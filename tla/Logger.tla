------------------------------- MODULE Logger -------------------------------
(***************************************************************************)
(* The two files Logger.cc writes and what the scripts beside the program  *)
(* read from them.  LogKey appends a row for every secret a side computes  *)
(* to the key file; TraceTransmitPacket and TraceReceivePacket append a    *)
(* row for every packet to the packet trace.  No row names a negotiation.  *)
(* extractKeyExchangeSuccess.py and packetDataToBoxplot.py take the rows   *)
(* that interest them in twos, each two for one exchange.                  *)
(*                                                                         *)
(* A file is kept as its script will read it: the row still without a      *)
(* partner, and what comes of two rows until the simulator moves on.       *)
(***************************************************************************)
EXTENDS Integers

CONSTANT
  NoRow  \* no row is waiting for a partner, or no pair has just been completed

(* A file with its heading only.                                           *)
NewFile == [row |-> NoRow, pair |-> NoRow]

(* Simulator::Now moves on.                                                *)
Forget(file) == [file EXCEPT !.pair = NoRow]

(* The script reads data[i + 1] and there is none: it ends in IndexError.  *)
EndsInIndexError(file) == file.row # NoRow

(* A row is the first of two, or completes a pair.                         *)
Read(file, row, pair) ==
  IF file.row = NoRow THEN [file EXCEPT !.row = row] ELSE [row |-> NoRow, pair |-> pair]

-----------------------------------------------------------------------------
(* The key file and extractKeyExchangeSuccess.py.                          *)

(* The script compares the keys of two rows.                               *)
ReadKey(file, node, key) ==
  Read(file, [node |-> node, key |-> key],
       [nodes |-> <<file.row.node, node>>, same |-> file.row.key = key])

(* Seeded faults: the server writes no row, or two. *)
LogKeyClientOnly(file, node, key) ==
  IF node = "server" THEN file ELSE ReadKey(file, node, key)

LogKeyServerTwice(file, node, key) ==
  IF node = "server" THEN ReadKey(ReadKey(file, node, key), node, key)
  ELSE ReadKey(file, node, key)

(* A row for every secret computed.                                        *)
LogKey(file, node, key) == ReadKey(file, node, key)

-----------------------------------------------------------------------------
(* The packet trace and packetDataToBoxplot.py.                            *)

(* strs[1] of the data; what is read there for a packet without data is    *)
(* no state the script looks for.                                          *)
PacketState(packet) == IF packet.type = "ECDH" THEN packet.state ELSE ""

(* Seeded fault: the row of a FINAL transmitted is kept. *)
KeptAlsoFinalTransmitted(packet, comment) ==
  /\ packet.type # "MSG" /\ PacketState(packet) # "UPDATE"
  /\ ~(PacketState(packet) = "BEGIN" /\ comment = "receive")

(* Seeded fault: the rows of the MSGs are kept. *)
KeptAlsoMessages(packet, comment) ==
  /\ PacketState(packet) # "UPDATE"
  /\ ~(PacketState(packet) = "BEGIN" /\ comment = "receive")
  /\ ~(PacketState(packet) = "FINAL" /\ comment = "transmit")

(* The rows the script does not drop.                                      *)
Kept(packet, comment) ==
  /\ packet.type # "MSG" /\ PacketState(packet) # "UPDATE"
  /\ ~(PacketState(packet) = "BEGIN" /\ comment = "receive")
  /\ ~(PacketState(packet) = "FINAL" /\ comment = "transmit")

(* Seeded fault: the packets between the two are counted. *)
ReadPacketRowWithoutOne(file, packet, comment, newer) ==
  IF ~Kept(packet, comment) THEN file
  ELSE Read(file, [state |-> PacketState(packet), age |-> 0, newer |-> newer],
            [states  |-> <<file.row.state, PacketState(packet)>>,
             time    |-> file.row.age,
             packets |-> file.row.newer - newer])

(* The row waiting for a partner has an age, and counts the packets whose  *)
(* uid is higher than its own; newer is that count for the packet traced.  *)
(* A pair gives the difference of the times, and that of the uids plus 1.  *)
ReadPacketRow(file, packet, comment, newer) ==
  IF ~Kept(packet, comment) THEN file
  ELSE Read(file, [state |-> PacketState(packet), age |-> 0, newer |-> newer],
            [states  |-> <<file.row.state, PacketState(packet)>>,
             time    |-> file.row.age,
             packets |-> file.row.newer - newer + 1])

TraceReceivePacket(file, packet, newer) == ReadPacketRow(file, packet, "receive", newer)

(* SendPacket has just created the packet, so its uid is the highest.      *)
TraceTransmitPacket(file, packet) ==
  ReadPacketRow(IF file.row = NoRow THEN file ELSE [file EXCEPT !.row.newer = @ + 1],
                packet, "transmit", 0)

Later(file) ==
  Forget(IF file.row = NoRow THEN file ELSE [file EXCEPT !.row.age = @ + 1])
=============================================================================
