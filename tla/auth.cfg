\* Two tasks.  Flows: two accounts, two redirects, either flow type.  Claims: two keys,
\* five ticks of time, a cache good for two and requests that take up to two.
CONSTANTS
  t1 = t1
  t2 = t2
  Tasks = {t1, t2}
  Callers = {t1, t2}
  a = a
  b = b
  Accounts = {a, b}
  None = None
  FlowTypes = {"pkce", "implicit"}
  MaxFlows = 2
  k1 = k1
  k2 = k2
  Kids = {k1, k2}
  Absent = Absent
  TTL = 2
  MaxDelay = 2
  MaxTime = 5
SPECIFICATION AuthSpec
SYMMETRY AuthSymmetry
INVARIANTS RefusedIfOvertaken ClaimsAreRecent RefusedKeyUnknown
