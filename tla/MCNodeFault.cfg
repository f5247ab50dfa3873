SPECIFICATION FairSpec
CONSTANTS
  Clients = {c}
  Requests = {r1, r2}
  Clustered = TRUE
  MaxPorts = 1
  MaxFaults = 2
INVARIANT TypeOK
PROPERTIES NoPortWhileDraining Recovers
