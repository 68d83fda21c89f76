CONSTANTS
  c1 = c1
  c2 = c2
  n1 = n1
  n2 = n2
  n3 = n3
  n4 = n4
  NoClient = NoClient
  Amounts = 4
  Null = Null
  Clients = {c1, c2}
  Nodes = {n1, n2, n3, n4}
SYMMETRY Symmetry
SPECIFICATION Spec
INVARIANTS
  TypeOK
  ChainOwnsNodes
  IteratorsLive
PROPERTIES
  ClientListSpec
  AmountFollowsLength
  CursorKeepsClient
