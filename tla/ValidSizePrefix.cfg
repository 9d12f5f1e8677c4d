CONSTANTS
  BlockSize <- MCBlockSize
  MaxSize <- MCMaxSize
  ValidAlign <- MCUnaligned
SPECIFICATION Spec
INVARIANT ValidPrefixIntact
