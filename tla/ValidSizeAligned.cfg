CONSTANTS
  BlockSize <- MCBlockSize
  MaxSize <- MCMaxSize
  ValidAlign <- MCAligned
SPECIFICATION Spec
INVARIANT TypeOK
INVARIANT CacheCoherent
INVARIANT DiskReadable
PROPERTY Implements
