\* Three kinds of port, two clients each.
CONSTANTS
  g1 = g1
  g2 = g2
  s1 = s1
  s2 = s2
  Groups = {g1, g2}
  Clients = {c1, c2}
  Sources = {s1, s2}
  AnySource = any
  Versions = {3}
  Setups <- Kinds
SPECIFICATION Spec
INVARIANTS TypeOK CapacityKept ClientsAreHosts
PROPERTY NothingUnauthorised
