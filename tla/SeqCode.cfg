SPECIFICATION Spec
CONSTANTS
  PageSize = 4
  Page <- MCPage
  Insn <- MCInsn
  Bytes <- MCBytes
  Uops <- MCUops
  Block <- MCBlock
  Succ <- MCSucc
  CallTarget <- MCCallTarget
  NoBlock = NoBlock
  StoreTarget <- MCStoreTarget
  Program = "plain"
INVARIANTS
  TypeOK
  CacheCoherent
  NoStaleExecute
PROPERTY
  KeepsCompleting
