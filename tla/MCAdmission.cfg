SPECIFICATION Spec
CONSTANTS
    Runs = {r1, r2}
    Names = {p, q}
    l1 = l1
    l2 = l2
    c1 = c1
    Leases = {l1, l2}
    Clients = {c1}
    ClientOf <- MCClientOf
    NoLease = NoLease
    NoName = NoName
    ZeroKey = ZeroKey
INVARIANTS
    CountsExact
    ZeroMeansDrained
PROPERTIES
    DrainingNeverOpens
    FenceCompletes
