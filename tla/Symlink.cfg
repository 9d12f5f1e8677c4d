CONSTANTS
  Records <- MCRecords
  LookupDos = FALSE
  MaxReparse <- MCMaxReparse
  PageSize <- MCPageSize
  MaxGetLinks <- MCMaxGetLinks
SPECIFICATION SSpec
INVARIANT ReadMatchesReference
INVARIANT CreateReadBack
INVARIANT LinkReadBack
PROPERTY Terminates
CHECK_DEADLOCK FALSE
