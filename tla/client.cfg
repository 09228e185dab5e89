\* Two sessions' tokens, two auth events, two channels, sends that suspend or not.
CONSTANTS
  t1 = t1
  t2 = t2
  Tokens = {t1, t2}
  Key = Key
  Given = Given
  None = None
  c1 = c1
  c2 = c2
  Topics = {c1, c2}
  Clients = {"storage", "functions"}
  CallHeaders = {}
  MaxTold = 2
  MaxAhead = 2
SPECIFICATION ClientSpec
SYMMETRY ClientSymmetry
INVARIANTS OneIdentity RealtimeFollows JoinedHaveToken
