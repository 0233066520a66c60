CONSTANTS
  MaxLoads = 2
  Meta <- MCMeta
  Api <- MCApi
  Format <- MCFormat
SPECIFICATION Spec
INVARIANT DefaultPixelFormat
CHECK_DEADLOCK FALSE
