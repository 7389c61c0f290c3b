SPECIFICATION Spec
CONSTANTS
  Keys = {k1}
  Minutes = 2
  MaxSeries = 1
  NCols = 2
  Readers = {}
  Faults = {"io", "restart", "power"}
  MaxMinute = 3
  MaxWrites = 2
  MaxSeq = 2
  MaxLives = 1
INVARIANTS TypeOK StampedWhole LoseOneMinute
CHECK_DEADLOCK FALSE
