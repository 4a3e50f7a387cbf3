SPECIFICATION Spec
CONSTANTS
  A = A
  n = n
  a1 = a1
  d1 = d1
  inA = inA
  inAll = inAll
  Namespaces = {A, B}
  Names = {n}
  NoNS = NoNS
  Clients = {inA, inAll}
  HomeOf <- MCHome
  Apps = {a1, a2}
  Data = {d1}
  Seeds <- MCSeeds
  Watchers = {w1, w2}
  ChanSize = 2
INVARIANTS
  TypeOK
  KeysAreUnique
  WatchesKeepUp
PROPERTY
  ErrorsChangeNothing
\* A full channel panics, and that is the end of the test.
CHECK_DEADLOCK FALSE
