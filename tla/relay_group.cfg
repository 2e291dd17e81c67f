SPECIFICATION Spec
CONSTANTS
  Session = {1}
  Surface = {k1}
  NoTarget = NoTarget
  Relay = {r1, r2}
  ReadCount = 1
  MaxLen = 3
  MaxReplies = 2
  MaxFaults = 1
  MaxCrashes = 1
SYMMETRY Symmetry
INVARIANTS AtMostOnce AckedIsSettled OneHolder IndInv
PROPERTIES ImplementsDelivery
