SPECIFICATION TokenSpec
CONSTANTS
  NumFPGAEntries = 2
  NumOperand = 2
  NumOperandEntries = 6
  NumOperandPerCacheline = 3
  Insts <- Fma
  AnyInst = "fma"
  Ternary <- Fma
  Values = {0, 1}
  Zero = 0
  Apply <- MCApply
  Latency <- MCLatency
  None = None
  Coalesce = TRUE
  Backpressure = FALSE
  MaxCsr = 2
  MaxWrites = 2
INVARIANTS
  TypeOK
  EntryLifeCycle
  DispatchedIsHeld
  InfetchExact
  GrantsInRotation
  RingKeepsOperands
PROPERTIES
  ImplementsResultSlots
