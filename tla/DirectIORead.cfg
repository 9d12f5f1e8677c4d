CONSTANTS
  BlockSize <- MCBlockSize
  MaxSize <- MCMaxSize
  ValidAlign <- MCAligned
SPECIFICATION DioSpec
INVARIANT DirectReadReturnsContent
