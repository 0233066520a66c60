CONSTANTS
  MaxLoads = 2
  Meta <- MCMeta
  Api <- MCApi
  Format <- MCFormat
SPECIFICATION Spec
INVARIANTS TypeOK OwnContext
 
CHECK_DEADLOCK FALSE
CONSTRAINT InShutdown
