CONSTANTS
  Hosts = {client, server}
  First = 8
  Last = 10
  MaxPackets = 4
  TxTimes = {0, 1}
  Delays = {0, 2}
  QueueLimit = 1
  StopTimes = {3}
SPECIFICATION FairPathSpec
INVARIANTS
  PathTypeOK
  PortsAreDistinct
  SilentOnceExhausted
PROPERTIES
  ImplementsLossyFifo
  DrainsUnlessStopped
CHECK_DEADLOCK FALSE
