\* The queue is as in its proofs: three callers, two faults.
SPECIFICATION MCSpec
CONSTANTS
  Procs = {g1, g2, g3}
  Event = {firing, resolved}
  Faults = {"panic", "restart"}
  MaxBatch = 2
  MaxEvents = 4
  Selections = {{"root"}, {"d", "y"}, {"x"}}
  MaxChanges = 1
  Keys = {"key"}
  Cap = 1
  MaxKeys = 2
  MaxOutput = 2
  Entries = 3
  MaxDoCalls = 3
INVARIANTS EmitOrder OneDrainer NoneStranded   ScriptsTold 
PROPERTIES Delivered ImplementsEventLog 
