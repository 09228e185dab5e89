\* Two application tasks at once, a storage that does not suspend, fair scheduling.
CONSTANTS
  u1 = u1
  u2 = u2
  t1 = t1
  t2 = t2
  Timers = {t1, t2}
  MaxRetries = 1
  AutoRefresh = TRUE
  Nobody = Nobody
  Users = {u1, u2}
  Operations = {"sign_in", "sign_out"}
  MaxTokens = 2
  Storages = {"prompt"}
  Errors = {"AuthRetryableError"}
SPECIFICATION LiveSpec
INVARIANT TimerIsForStored
PROPERTY Refreshed
