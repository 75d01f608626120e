CONSTANTS
  ByteBits = 2
  Ripstart = 40
  Rip = 42
  Target = 50
  Limit = 2
  MemSize = 32
  PageSize = 16
  Restartable = {"push", "call", "enter", "stos", "movs", "pop_ev"}
  MaxRestarts = 1
  Family = {"fill"}
  Cases <- Start
SPECIFICATION Spec
INVARIANT StateInPlace
