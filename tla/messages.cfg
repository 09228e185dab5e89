\* Two keys, presences and batches up to three; two callbacks and one added; two joins.
CONSTANTS
  None = None
  k1 = k1
  k2 = k2
  Keys = {k1, k2}
  Features <- OneFeature
  Bindings <- SomeBindings
  Changes <- SomeChanges
  MaxRefs = 3
  MaxWire = 3
  MaxJoins = 2
  MaxBehind = 2
SPECIFICATION MessagesSpec
INVARIANTS PresenceFollows RightCallback
PROPERTY KeepsPromise
CHECK_DEADLOCK FALSE
