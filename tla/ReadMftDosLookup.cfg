CONSTANTS
  Records <- MCRecords
  LookupDos = TRUE
  MaxReparse <- MCMaxReparse
  PageSize <- MCPageSize
SPECIFICATION Spec
INVARIANT ReadMatchesReference
CHECK_DEADLOCK FALSE
