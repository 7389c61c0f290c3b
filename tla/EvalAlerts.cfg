SPECIFICATION Spec
CONSTANTS
  Items = {i1}
  NKeys = 1
  Levels = {1, 2}
  Thresholds = {1, 2}
  Windows = {1, 2}
  DefaultTh = 2
  DefaultMin = 2
  MaxRun = 2
  FreshFor = 0
  Faults = {"readMinute", "readHistory", "write", "badFile", "restart", "stepBack", "remove"}
  MaxMinute = 3
  MaxCalls = 2
INVARIANTS TypeOK RunsTrue 
PROPERTIES  FiresOnFullRun
