\* Three addresses and six packets received from them, so that a list can lose
\* its first cell twice while it grows.  The run ends with the last packet.
SPECIFICATION Spec
CONSTANTS
  Addr = {a1, a2, a3}
  MaxTime = 6
INVARIANTS
  TimesIntact
SYMMETRY Symmetry
CHECK_DEADLOCK FALSE
