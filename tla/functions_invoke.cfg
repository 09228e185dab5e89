\* Two invocations of a function.
CONSTANTS
  t1 = t1
  Tokens = {t1}
  Key = Key
  Given = Given
  None = None
  Topics = {}
  Clients = {"functions"}
  CallHeaders = {"x-region", "Content-Type"}
  MaxTold = 1
  MaxAhead = 1
SPECIFICATION ClientSpec
INVARIANT InvokeOwnHeaders
