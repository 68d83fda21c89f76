SPECIFICATION Spec
CONSTANTS
  n1 = n1
  n2 = n2
  u1 = u1
  e1 = e1
  e2 = e2
  c1 = c1
  c2 = c2
  gw = gw
  NoText = NoText
  Localhost = Localhost
  FixedScope = FixedScope
  InSubnet <- OwnSubnets
  PublicIps <- Private
  Names = {n1, n2}
  Urls = {u1}
  Templates = {u1}
  Dimensions = {100}
  Scopes = {"s1"}
  Interfaces = {e1}
  Addressed = {e1}
  Clients = {c1}
  Ops <- AllOps
  Types = {0, 2}
  MaxScopes = 1
  MaxIfs = 1
INVARIANT AcceptedProfileListed
