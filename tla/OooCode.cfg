SPECIFICATION Spec
CONSTANTS
  PageSize = 4
  Page <- MCPage
  Insn <- MCInsn
  Bytes <- MCBytes
  Uops <- MCUops
  Block <- MCBlock
  Succ <- MCSucc
  CallTarget <- MCCallTarget
  NoBlock = NoBlock
  PipeSize = 4
  CommitWidth = 2
  Program = "apart"
INVARIANTS
  TypeOK
  CacheCoherent
PROPERTIES
  NoStaleCommit
  KeepsCommitting
