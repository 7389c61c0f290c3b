SPECIFICATION FairSpec
CONSTANTS
  Items = {i1}
  Keys = {k1, k2}
  Queriers = {q1}
  MaxItems = 1
  MaxForgotten = 1
  MaxSeries = 1
  TPM = 2
  Failing = FALSE
  Disks = {"none"}
  MaxTime = 4
  MaxEntries = 2
  MaxRecords = 3
  MaxSweeps = 1
  MaxForgets = 0
INVARIANTS SeriesCap MinuteOfSamples TypeOK HooksInOrder HookSeesMinute QueryAnswer
PROPERTY CloseReturns
