\* Two ports, one client; behaviours end when the identifiers of the bound are used up.
SPECIFICATION Spec
CONSTANTS
  Owners <- MCOwners
  MaxIds = 4
  N = 2
  Clients = {c1}
  ActTime = 2
  AgeTimes = {1, 2}
  MaxGen = 2
  Starts <- Entities
INVARIANTS OneCircularWait  EventsNameGroups
PROPERTIES PacketsEnd QueriedAges
CHECK_DEADLOCK FALSE
