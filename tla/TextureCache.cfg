\* Three cards, one of them without a file, for two places in the queue.
CONSTANTS
  Cards = {c1, c2, c3}
  Others = {menu}
  Failing = {c3}
  MaxRequests = 2
  MaxLocks = 2
  None = None

SPECIFICATION FairSpec

INVARIANTS
  TypeOK
  LookupIsInFlight
  NothingReplaced
  RequestToPop

PROPERTIES
  WorkerServes
