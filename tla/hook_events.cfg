SPECIFICATION Spec
CONSTANTS
  Surface = {k1, k2}
  Session = {s1, s2}
  NoTarget = NoTarget
  MaxEvents = 3
  MaxFaults = 1
  MaxRestarts = 1
SYMMETRY Symmetry
INVARIANTS TypeOK OneReader ControlStaysHere RoutedIsThere CachedClientIsUsed
PROPERTIES ImplementsRouting
