SPECIFICATION FairSpec
CONSTANTS
  Clients = {c}
  Requests = {r}
  Clustered = FALSE
  MaxPorts = 1
  MaxFaults = 2
PROPERTY Recovers
