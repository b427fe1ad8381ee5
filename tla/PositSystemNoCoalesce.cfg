SPECIFICATION TokenSpec
CONSTANTS
  NumFPGAEntries = 3
  NumOperand = 1
  NumOperandEntries = 6
  NumOperandPerCacheline = 2
  Insts <- Add
  AnyInst = "add"
  Ternary <- Add
  Values = {0, 1}
  Zero = 0
  Apply <- MCApply
  Latency <- MCLatency
  None = None
  Coalesce = FALSE
  Backpressure = FALSE
  MaxCsr = 2
  MaxWrites = 2
INVARIANTS
  InfetchExact
PROPERTIES
  ImplementsResultSlots
