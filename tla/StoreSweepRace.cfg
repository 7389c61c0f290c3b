SPECIFICATION Spec
CONSTANTS
  Items = {i1}
  Keys = {k1}
  Queriers = {}
  MaxItems = 1
  MaxForgotten = 1
  MaxSeries = 1
  TPM = 1
  Failing = FALSE
  Disks = {"none"}
  MaxTime = 3
  MaxEntries = 2
  MaxRecords = 3
  MaxSweeps = 1
  MaxForgets = 0
PROPERTY SweepJustified
