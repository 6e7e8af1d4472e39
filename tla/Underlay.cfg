\* The end of a connection that is known late makes the controller forget the
\* switch, and then nothing happens any more.
SPECIFICATION Spec
CONSTANTS
  h = h
  inet = inet
  a = a
  b = b
  c = c
  Hubs = {h}
  Gateway = inet
  Internet = TRUE
  Sites = {a, b, c}
  Seeds = {a}
  Clashing = {c}
  PortNumbers = {1, 2}
  FirstPorts <- MCFirstPorts
  Turn <- MCTurn
  Turns = 2
  MaxEvents = 2
  MaxChanges = 2
INVARIANTS
  UnderlayInv
  SpokesIsolated
PROPERTY Converges
CHECK_DEADLOCK FALSE
