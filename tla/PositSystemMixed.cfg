SPECIFICATION FairSpec
CONSTANTS
  NumFPGAEntries = 2
  NumOperand = 2
  NumOperandEntries = 6
  NumOperandPerCacheline = 3
  Insts <- MulFma
  AnyInst = "mul"
  Ternary <- Fma
  Values = {0}
  Zero = 0
  Apply <- MCApply
  Latency <- MCLatency
  None = None
  Coalesce = TRUE
  Backpressure = FALSE
  MaxCsr = 1
  MaxWrites = 2
INVARIANTS
  NoRequestDropped
  ReadHasReader
  OneWritePerRequest
PROPERTIES
  EventuallyShown
