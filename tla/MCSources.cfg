SPECIFICATION ClientsSpec
CONSTANTS
  A = A
  B = B
  u1 = u1
  u2 = u2
  u3 = u3
  ctl = ctl
  Namespaces = {A, B}
  Names = {n}
  Clients = {u1, u2, u3, ctl}
  Controllers = {ctl}
  HomeOf <- MCHome
  Apps = {a1, a2}
  Absent = Absent
  MaxRevision = 3
INVARIANTS
  VersionNamesContent
  EachWritesItsHalf
  HandlesKeepToTheirNamespace
PROPERTIES
  EditsAreAtomic
