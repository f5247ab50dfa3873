SPECIFICATION Spec
CONSTANTS
  Configs = {}
  Blocks = {b}
  Unblocks = {u}
  Kicks = {}
  Cuts = {}
  None = None
  Workloads = {{b, u}}
  MaxFaults = 1
  MaxLeases = 0
  MaxCopies = 1
PROPERTY ReplayHarmless
CHECK_DEADLOCK FALSE
