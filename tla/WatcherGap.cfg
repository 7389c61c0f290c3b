SPECIFICATION FairSpec
CONSTANTS
  Configs = {c1, c2}
  Bad = bad
  Absent = absent
  Stamps = {s1, s2}
  MaxWrites = 1
  MaxEvents = 2

PROPERTY AlwaysConverges
