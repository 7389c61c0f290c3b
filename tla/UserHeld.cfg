SPECIFICATION UserSpec
CONSTANTS
  Callers = {g1, g2}
  MaxCalls = 3
  Holds = TRUE

PROPERTY SeenKeyServes
