SPECIFICATION FairSpec
CONSTANTS
    c1 = c1  c2 = c2  r1 = r1  r2 = r2  k1 = k1  k2 = k2
    Clients = {c1}
    Requests = {r1}
    Watchdog = watchdog
    NoClient = nobody
    Modes = {"controller", "edge"}
    Ports = {2}
    NodePorts = {1, 2, 3}
    Reserved = {1}
    Policies <- MCPolicies
    Commands = {k1}
    CommandOf <- MCCommandOf
    Terminating = {k1}
    MaxLeases = 2
    MaxChanges = 1
    MaxRestarts = 1
CHECK_DEADLOCK FALSE
PROPERTIES  CommandSettled
