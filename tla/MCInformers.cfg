SPECIFICATION Spec
CONSTANTS
  A = A
  Namespaces = {A}
  Names = {n}
  Clients = {u}
  Controllers = {}
  HomeOf <- MCHome
  Apps = {in, out}
  Absent = Absent
  MaxRevision = 3
  Callers = {t}
  All = All
  Scope = All
  Tweak = {in}
  Resyncs = TRUE
  OneServer = TRUE
  MaxLists = 2
INVARIANTS
  TypeOK
  OnlySelected
  SyncedMeansComplete
PROPERTIES
  CacheForward
  WaitReturns
  CatchesUp
