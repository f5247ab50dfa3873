SPECIFICATION FairSpec
CONSTANT MaxTrouble = 1
INVARIANTS TypeOK FlagsAgree
PROPERTIES PortsNeedIdentities Reopens Closes
