SPECIFICATION Spec
CONSTANTS
  Surface = {k1}
  Session = {s1}
  NoTarget = NoTarget
  MaxEvents = 2
  MaxFaults = 0
  MaxRestarts = 0
INVARIANTS OneConnectionPerText
