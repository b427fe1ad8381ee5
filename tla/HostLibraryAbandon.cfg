SPECIFICATION Spec
CONSTANTS
  Objs = {a, b, c}
  NumFPGAEntries = 2
  SimulatedEntries = 2
  Values = {0, 1}
  Insts = {"ADDSUB"}
  AnyInst = "ADDSUB"
  Zero = 0
  Apply <- MCApply
  Negated <- MCNegated
  Builds = {"REUSE"}
  Usage = {"abandon"}
  MaxCsr = 2
  MaxWrites = 2
  None = None
SYMMETRY ObjSymmetry
INVARIANTS
  NoRequestDropped
