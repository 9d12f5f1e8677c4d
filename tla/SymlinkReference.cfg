CONSTANTS
  Records <- MCRecordsWindowsLayouts
  LookupDos = FALSE
  MaxReparse <- MCMaxReparse
  PageSize <- MCPageSize
  MaxGetLinks <- MCMaxGetLinks
SPECIFICATION SSpec
INVARIANT GetLinkMatchesReference
CHECK_DEADLOCK FALSE
