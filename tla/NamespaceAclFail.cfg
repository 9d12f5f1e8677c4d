CONSTANTS
  Recs <- MCRecs
  Dirs <- MCDirs
  Names <- MCNames
  WinRec = "r0"
  WinDir = "d1"
  LongName = "L"
  ShortName = "S"
  TotalClusters <- MCTotalClusters
  ReparseClusters <- MCReparseClusters
  MaxSeq <- MCMaxSeq
  FailPoints <- AclFail
  AclEnabled = TRUE
SPECIFICATION Spec
INVARIANT IndexMatchesRecords
