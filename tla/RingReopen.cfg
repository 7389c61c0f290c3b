SPECIFICATION Spec
CONSTANTS
  Keys = {k1}
  Minutes = 1
  MaxSeries = 1
  NCols = 1
  Readers = {}
  Faults = {"io", "restart", "power"}
  MaxMinute = 1
  MaxWrites = 1
  MaxSeq = 4
  MaxLives = 2
INVARIANT OneValidCopy
CHECK_DEADLOCK FALSE
