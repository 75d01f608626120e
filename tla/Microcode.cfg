CONSTANTS
  ByteBits = 2
  Ripstart = 40
  Rip = 42
  Target = 50
  Limit = 2
  MemSize = 32
  PageSize = 16
  Restartable = {"push", "call", "enter", "stos", "movs", "pop_ev"}
  MaxRestarts = 1
  Family = {"arithmetic", "forms", "memory", "addressing", "shifts", "bits", "products", "moves", "exchanges", "calls", "strings", "services"}
  Cases <- Start
SPECIFICATION Spec
INVARIANTS TypeOK FaultPrecise
PROPERTIES RefinesX86 Completes
