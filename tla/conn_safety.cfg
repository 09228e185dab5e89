SPECIFICATION Spec
CONSTANTS
  Users = {u1, u2}
  Messages = {m1}
  MaxSockets = 2
  MaxRetries = 2
  AutoReconnect = TRUE
  Backpressure = TRUE
  Nobody = Nobody
CONSTRAINT MessageOrRaise
SYMMETRY ConnectionSymmetry
INVARIANTS
  CurrentServed
  OneListener
PROPERTIES
  KeepsWorkingSocket
