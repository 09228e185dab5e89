\* One push, or a sender's reconnect beside the client's own; three refs, sends that suspend.
SPECIFICATION Spec
CONSTANTS
  Pushes = {p1}
  Join = Join
  Leave = Leave
  Senders = {s1}
  MaxRef = 3
  AutoReconnect = TRUE
  Backpressure = TRUE
CONSTRAINT PushAlone
INVARIANTS TypeOK TimerIdle NoStrandedError JoinCanBeAnswered HandedOnce NoStrandedPush
PROPERTIES ExpiredNotHanded GoneForGood
