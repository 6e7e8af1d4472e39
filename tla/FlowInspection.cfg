SPECIFICATION Spec
CONSTANTS
  t = t
  u = u
  TcpKeys = {t}
  UdpKeys = {u}
  Paths = {1, 2}
  FallbackPath = 1
  FailOpen = TRUE
  MaxFlows = 1
  TcpBudget = 2
  UdpBudget = 1
  SeqSpace = 3
  InspectionTimeout = 1
  HandshakeTimeout = 2
  EstablishedTimeout = 3
  ClosingTimeout = 1
  UdpTimeout = 2
  DnsTimeout = 1
  MetadataTimeout = 2
  MaxLifetime = 3
  OverloadCircuit = 1
INVARIANTS
  InspectionInv
  RetransmissionsFree
PROPERTIES
  TerminalStays
  RecordsEnd
