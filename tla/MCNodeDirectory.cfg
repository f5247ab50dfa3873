SPECIFICATION FairSpec
CONSTANTS
    r1 = r1  r2 = r2  t1 = t1  t2 = t2
    Requests = {r1, r2}
    Tokens = {t1, t2}
    MaxSerials = 2
    MaxDeletes = 1
    MaxTrouble = 1
INVARIANTS TypeOK DeletedStaysOut MarkedStaysOut TokenServesOnce
PROPERTIES CatalogueFollows EnrolledAccepted
