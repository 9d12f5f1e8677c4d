CONSTANTS
  Recs <- MCRecs
  Dirs <- MCDirs
  Names <- MCNames
  WinRec = "r0"
  WinDir = "d1"
  LongName = "L"
  ShortName = "S"
  TotalClusters <- MCTotalClusters
  ReparseClusters <- MCReparseClusters
  MaxSeq <- MCMaxSeq
  FailPoints <- UndoneFailPoints
  AclEnabled = FALSE
SPECIFICATION Spec
INVARIANT TypeOK
INVARIANT IndexMatchesRecords
INVARIANT LinksMatchNames
INVARIANT PoolsAccounted
