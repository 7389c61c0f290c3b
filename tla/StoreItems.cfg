SPECIFICATION Spec
CONSTANTS
  Items = {i1, i2}
  Keys = {k1}
  Queriers = {}
  MaxItems = 1
  MaxForgotten = 1
  MaxSeries = 1
  TPM = 1
  Failing = TRUE
  Disks = {"none", "ring", "unreadable", "corrupt"}
  MaxTime = 2
  MaxEntries = 3
  MaxRecords = 3
  MaxSweeps = 1
  MaxForgets = 2
SYMMETRY ItemSymmetry
INVARIANTS ItemCaps 
PROPERTY RefusedKept
