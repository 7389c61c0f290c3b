SPECIFICATION MCSpec
CONSTANTS
  k1 = k1
  k2 = k2
  Keys = {k1, k2}
  Minutes = 1
  MaxSeries = 2
  NCols = 2
  Readers = {r1}
  Faults = {"io", "power"}
  MaxMinute = 2
  MaxWrites = 3
  MaxSeq = 4
  MaxLives = 1
  LiveKeys = {k1, k2}
  LiveSlots = 2
  LiveSeries = 1
  liveStep = 2
  MinuteLen = 4
  LastTime = 10
  MaxPuts = 3
  Steps = {4, 8}
  Points = {2}
INVARIANTS HeaderSurvives ReadWhole LiveExact StoredExact
PROPERTY KeysStable
CHECK_DEADLOCK FALSE
