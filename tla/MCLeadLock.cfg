SPECIFICATION LockSpec
CONSTANTS
  p1 = p1
  p2 = p2
  p3 = p3
  l1 = l1
  l2 = l2
  NoProc = NoProc
  Orphan = Orphan
  Procs <- MCProcs
  Leads <- MCLeads
  Faults <- MCFaults
  MaxPolls = 2
INVARIANTS LockTypeOK KeyHasItsOwner
PROPERTIES OnlyOwnerReleases WaitsEnd KeysFree
