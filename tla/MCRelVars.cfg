SPECIFICATION Spec
CONSTANTS
  MaxId = 3
  RelationIds <- MCRelationIds
  InvalidRid <- MCInvalidRid
  Values = {a, b}
  EmptyValue = EmptyValue
  Limits = {0, 1, 2}
  MaxElements = 2
INVARIANTS
  IndexOK
  WalksComplete
PROPERTIES
  HandlesStayValid
  ImplementsRelMap
  OnlyClearingIsUnmarked
