CONSTANTS
  Hosts = {client, server}
  First = 4
  Last = 13
  MaxPackets = 13
SPECIFICATION Spec
INVARIANTS
  TracedIsTransmitted
CHECK_DEADLOCK FALSE
