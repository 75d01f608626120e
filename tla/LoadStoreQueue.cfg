SPECIFICATION Spec
CONSTANTS
  A = A
  B = B
  Chunk = {A, B}
  Byte = {0, 1}
  Programs <- AllPrograms
  LsqSize = 5
  LdqSize = 3
  StqSize = 3
  LsapWays = 2
  MaxAnnuls = 1
INVARIANTS TypeOK FencesHold
PROPERTY RefinesSequential
