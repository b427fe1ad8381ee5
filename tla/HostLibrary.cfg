SPECIFICATION Spec
CONSTANTS
  Objs = {a, b, c}
  NumFPGAEntries = 2
  SimulatedEntries = 2
  Values = {0, 1}
  Insts = {"ADDSUB"}
  AnyInst = "ADDSUB"
  Zero = 0
  Apply <- MCApply
  Negated <- MCNegated
  Builds = {"REUSE", "BASELINE"}
  Usage = {"abandon", "float", "negate"}
  MaxCsr = 2
  MaxWrites = 2
  None = None
SYMMETRY ObjSymmetry
INVARIANTS
  TypeOK
  ValuesInOrder
  OverrunsNeedStraying
  ListsUntilFloat
  RequestsInOrder
  BaselineWaits
CHECK_DEADLOCK FALSE
CONSTRAINT InOrder
