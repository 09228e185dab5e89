\* One query built in up to three calls, executed once, every answer; a server that answers.
CONSTANTS
  e1 = e1
  Executions = {e1}
  Methods = {"GET", "HEAD", "POST", "PATCH", "DELETE"}
  MaxRetries = 3
  a = a
  b = b
  Columns = {a, b}
  Calls = {"eq"}
  Counts = {"none", "exact"}
  ClientPrefers <- SomePrefers
  MaxCalls = 3
SPECIFICATION QuerySpec
INVARIANTS TypeOK WritesOnce AskedIsSent ShapeFits
PROPERTIES CountsUp ClientHeadersKept
