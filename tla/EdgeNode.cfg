SPECIFICATION NodeSpec
CONSTANTS
  SuspectFailures = 1
  FailedFailures = 2
  RecoverySuccesses = 1
  HoldDown = 0
  StaleAfter = 1
  Transports = {"bb"}
  Slots = {"bb"}
  Interfaces = {"h1_bb", "h2_bb"}
  Hubs = {"hub1", "hub2"}
  HubOf <- MCHubOf
  TransportOf <- MCTransportOf
  TransportIndex <- MCTransportIndex
  PreferredHub = "hub1"
  Prefixes = {"lan"}
  DrainTimeout = 1
  MaxVersion = 2
  Contents = {"c1"}
INVARIANT NodeInv
PROPERTIES
  ConfirmedNeverRegresses
  EventuallyForwards
