\* A sender's reconnect beside the client's own, four refs, fair scheduling.
SPECIFICATION LiveSpec
CONSTANTS
  Pushes = {}
  Join = Join
  Leave = Leave
  Senders = {s1}
  MaxRef = 4
  AutoReconnect = TRUE
  Backpressure = FALSE
PROPERTIES ErroredRetries
