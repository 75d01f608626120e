SPECIFICATION Spec
CONSTANTS
  PageSize = 2
  NumPages = 16
  TotalPages = 18
  Space = {s1}
  NoSpace = NoSpace
  Limits <- MCLimits
  MaxInsns = 4
  StopAt = 4
  BrkBase = 4
  MmapBase = 8
  MremapBase = 12
  StaleCodePaths = FALSE
  StrayMarks = {1}
  HostFd = {0, 1, 2, 3, 4, 5}
  GuestFd = {0, 1, 2, 3, 4, 5}
  Pipe = {1, 2}
  MaxPath = 3
  MayCloseAll = FALSE
  Programs <- MCPrograms
  Group <- MCGroup
  StackPages = 6
  AuxWords = 2
  Prots <- MCProts
CHECK_DEADLOCK FALSE
INVARIANTS
  TypeOK
  AttributesOnlyOfMappedPages
  ExecutesCurrentCode
  TransferCountExact
  DescriptorsOwned
  PipeMapSound
  ProgramLoaded
PROPERTIES
  OnlyNamedPagesChange
  MremapKeepsData
