\* One application task, the listen and the heartbeat tasks; sends that do not suspend.
SPECIFICATION LiveSpec
CONSTANTS
  Users = {u1}
  Messages = {m1}
  MaxSockets = 2
  MaxRetries = 2
  AutoReconnect = TRUE
  Backpressure = FALSE
  Nobody = Nobody
PROPERTIES
  LossIsNoticed
  CallsReturn
  BufferedIsSent
