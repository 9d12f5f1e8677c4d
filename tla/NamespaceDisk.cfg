CONSTANTS
  Recs <- MCDiskRecs
  Dirs <- MCDiskDirs
  Names <- MCNames
  WinRec = "r0"
  WinDir = "d1"
  LongName = "L"
  ShortName = "S"
  TotalClusters <- MCTotalClusters
  ReparseClusters <- MCReparseClusters
  MaxSeq <- MCMaxSeq
  FailPoints <- UnlinkFailPoints
  AclEnabled = FALSE
SPECIFICATION DSpec
INVARIANT CrashImageMarked
