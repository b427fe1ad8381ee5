SPECIFICATION FairSpec
CONSTANTS
  Objs = {a, b}
  NumFPGAEntries = 2
  SimulatedEntries = 2
  Values = {0, 1}
  Insts = {"ADDSUB", "FMA"}
  AnyInst = "ADDSUB"
  Zero = 0
  Apply <- MCApply
  Negated <- MCNegated
  Builds = {"REUSE", "NOREUSE", "BASELINE"}
  Usage = {}
  MaxCsr = 2
  MaxWrites = 2
  None = None
PROPERTIES
  CallsReturn
