SPECIFICATION Spec
CONSTANTS
  Worker = {w1, w2}
  Caller = {c1, c2}
  Key = {k1, k2}
  TTL = 1
  MaxNow = 4
  Name = {n1, n2}
  Setup = {s1, s2}
  MaxProvider = 2
  Prefix = {p1, p2}
  Seeds = {p1}
  MaxPrice = 2
  Size = {1, 2}
  Limit = 1
  Entered <- SomeEntered
  Hash = {h1, h2}
  Scope = {m1, m2}
  MaxVectors = 1
  MaxWriters = 3
  None = None
INVARIANTS RevokedStaysOut RoutesFollowTable PricesFollowTable CatalogueIsAuthoritative SettingsStick TableFollows
CHECK_DEADLOCK FALSE
SYMMETRY Symmetry
