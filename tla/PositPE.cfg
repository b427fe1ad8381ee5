SPECIFICATION FairSpec
CONSTANTS
  NumFPGAEntries = 2
  NumOperand = 2
  Values = {0, 1}
  Insts <- MCInsts
  Apply <- MCApply
  Latency <- MCLatency
  None = None
  Backpressure = FALSE
INVARIANTS
  PETypeOK
  ResultRegisterFree
  CoreStartsOnce
PROPERTIES
  ImplementsFifo
  EventuallyDelivered
