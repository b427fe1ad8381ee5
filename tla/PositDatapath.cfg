SPECIFICATION Spec
CONSTANTS
  NBits = 7
  ES = 1
  PowerUp = {TRUE}
  FirstOps <- WarmUps
  NextOps <- Requests
INVARIANTS
  DatapathTypeOK
  SumsRounded
  ProductsRounded
  FusedRounded
  QuotientsAndRootsRounded
  ComparisonsOrder
  QuotientDigits
  RootDigits
  AnswerOnTheWay
CHECK_DEADLOCK FALSE
