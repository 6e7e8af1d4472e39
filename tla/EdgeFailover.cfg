SPECIFICATION Spec
CONSTANTS
  SuspectFailures = 1
  FailedFailures = 2
  RecoverySuccesses = 2
  HoldDown = 1
  StaleAfter = 1
  Transports = {"bb", "lte"}
  Slots = {"bb"}
  Interfaces <- MCThreeInterfaces
  Hubs <- MCTwoHubs
  HubOf <- MCHubOf
  TransportOf <- MCTransportOf
  TransportIndex <- MCTransportIndex
  PreferredHub = "hub1"
  Prefixes = {"lan", "dc"}
  DrainTimeout = 1
INVARIANTS
  MonitorInv
  TableFollowsManager
  DrainArmed
  HubNeverVetoes
  NoSlotLeftBehind
PROPERTIES
  NoDirectJump
  MovesOntoHealthy
  EmergencyEnds
