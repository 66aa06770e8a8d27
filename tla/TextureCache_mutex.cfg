\* The same cards, for the use of the map.
CONSTANTS
  Cards = {c1, c2, c3}
  Others = {menu}
  Failing = {c3}
  MaxRequests = 2
  MaxLocks = 2
  None = None

SPECIFICATION Spec

INVARIANTS
  MutexGuardsCache
