\* The run ends when the site is ACTIVE and calm: nobody asks for more.
SPECIFICATION Spec
CONSTANTS
  Numbered = FALSE
  Backlog = 2
INVARIANTS
  LifecycleInv
  HubFirst
PROPERTIES
  DeletionIsFinal
  ResumeCompletes
CHECK_DEADLOCK FALSE
