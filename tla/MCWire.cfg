SPECIFICATION Spec
CONSTANTS
  Addrs <- MCAddrs
  Servers <- MCServers
  Measured <- MCMeasured
  MaxRows = 2
  Ports <- MCPorts
  SeqIds <- MCSeqIds
  Noise = {0}
INVARIANTS
  DroppedOnlyAtCarry AdvertArrives ProbeKeepsAddress
  PingChecksumRight SmallRateArrives 
CHECK_DEADLOCK FALSE
