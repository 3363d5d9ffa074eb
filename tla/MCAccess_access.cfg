SPECIFICATION Spec
CONSTANTS
  Ids = {1, 2}
  Owners = {1, 2}
  Limit = 2
  Window = 2
  MaxBuckets = 1
  Apis = {a1}
  Workers = {w}
  Clients = {c1, c2}
  Network <- OneNetwork
  Addresses = {x}
  KeyIds = {k1, k2}
  Written <- SomePlaces
  MaxTime = 3
  MaxUsers = 2
  MaxStored = 2
  MaxSecret = 2
  None = None
INVARIANTS WindowIsBounded OneAccountPerAddress StoredIsReadable CopiesAreRefused
SYMMETRY Symmetry
CONSTRAINT Apart
CHECK_DEADLOCK FALSE
