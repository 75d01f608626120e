SPECIFICATION Spec
CONSTANTS
  PhysReg <- MCPhysReg
  NullReg = 0
  File = {"int"}
  FileOf <- MCFileOf
  ArchReg <- MCArchReg
  ZeroReg = "zero"
  FlagsReg = "flags"
  TempReg <- MCTempReg
  FlagReg <- MCFlagReg
  HomeFile <- MCHomeFile
  Uop <- MCUop
  RobSize = 4
  LdqSize = 2
  StqSize = 2
  CommitWidth = 2
  NumRegs = 6
ACTION_CONSTRAINT LowestFirst
INVARIANT NullRefcountExact
