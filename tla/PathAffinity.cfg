SPECIFICATION AffinitySpec
CONSTANTS
  Sites = {"site1", "site2"}
  Transports = {"mpls", "bb"}
  Slot <- MCSlot
  Index <- MCIndex
  Uplinks = {"bb"}
  Mpls = "mpls"
  ActiveGateways <- MCGateways
  PreferredHub <- MCPreferredHub
  Flows <- MCFlows
  MaxChanges <- MCMaxChanges
  MaxPackets = 3
INVARIANTS
  AffinityInv
  RepliesReturn
PROPERTIES
  PinKept
CHECK_DEADLOCK FALSE
