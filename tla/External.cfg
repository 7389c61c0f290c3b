SPECIFICATION MCSpec
CONSTANTS
  Configs = {c1, c2}
  Bad = bad
  Absent = absent
  Stamps = {s1, s2}
  MaxWrites = 3
  MaxEvents = 2
  Callers = {g1, g2}
  MaxCalls = 3
  Holds = TRUE
  Clients = {client}
  Operations = {"ChangePort", "SendNotify", "Publish", "RequireModule"}
  MaxTries = 1
  MaxStarts = 2
  MaxClientCalls = 2
  Users = {u1, u2}
  MaxUses = 2
INVARIANTS NoSilentWrite KeepsValidating Faithful ClientTrue 
  
