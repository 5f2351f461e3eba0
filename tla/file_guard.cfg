SPECIFICATION FairSpec
CONSTANTS
  Processes = {p1, p2}
  Dirs = {d1, d2}
  p1 = p1
  p2 = p2
  d1 = d1
  Home = d1
  d2 = d2
  MaxSaves = 1
  MaxUpsets = 2
INVARIANTS FileInv
PROPERTIES OnlyOwnUpdate
PROPERTY LockLetGo
