SPECIFICATION FairSpec
CONSTANTS
  NumFPGAEntries = 2
  NumOperand = 2
  NumCacheline = 2
  Lower <- MCLower
  Upper <- MCUpper
  None = None
  MaxCsr = 2
  MaxAsked = 2
  MaxPolls = 2
INVARIANTS
  ShellTypeOK
  BuffersOnly
  RequestIsInOnePlace
  ReadIsInOnePlace
  ReportCountsReads
PROPERTIES
  HostGetsAnswers
CHECK_DEADLOCK FALSE
