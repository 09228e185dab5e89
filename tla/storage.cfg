\* Two paths, options used for up to two calls, one signed upload, every failure of a request.
CONSTANTS
  p1 = p1
  p2 = p2
  Paths = {p1, p2}
  None = None
  Dicts <- SomeDicts
  MaxUses = 2
  MaxTokens = 1
SPECIFICATION StorageSpec
SYMMETRY StorageSymmetry
PROPERTIES NoSilentOverwrite FailedCanRetry
