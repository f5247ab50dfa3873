SPECIFICATION Spec
CONSTANTS
    c1 = c1  c2 = c2  r1 = r1  r2 = r2  k1 = k1  k2 = k2
    Clients = {c1, c2}
    Requests = {r1, r2}
    Watchdog = watchdog
    NoClient = nobody
    Modes = {"controller", "edge"}
    Ports = {1, 2}
    NodePorts = {1, 2}
    Reserved = {1}
    Policies <- MCOnePolicy
    Commands = {}
    CommandOf <- MCCommandOf
    Terminating = {}
    MaxLeases = 2
    MaxChanges = 1
    MaxRestarts = 1
CHECK_DEADLOCK FALSE
SYMMETRY MCSymmetry
INVARIANTS PortExclusive  IssuerCurrent
