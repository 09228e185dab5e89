\* Every call of one application task against the refresh timer.
CONSTANTS
  u1 = u1
  t1 = t1
  t2 = t2
  Timers = {t1, t2}
  MaxRetries = 2
  AutoRefresh = TRUE
  Nobody = Nobody
  Users = {u1}
  Operations <- AllOperations
  MaxTokens = 2
  Storages = {"none", "prompt", "suspending"}
  Errors = {"AuthApiError", "AuthRetryableError", "ConnectError"}
SPECIFICATION Spec
INVARIANTS OneRefresher KeptFresh
PROPERTY ToldIsStored
