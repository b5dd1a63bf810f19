CONSTANTS
  p1 = p1
  p2 = p2
  s1 = s1
  s2 = s2
  s3 = s3
  Pods <- TwoPods
  Sids <- ThreeSids
  MaxVisits = 3
  CacheTtl = 2
  MaxEntries = 2
  MaxVersion = 2
  k1 = k1
  k2 = k2
  k3 = k3
  v1 = v1
  r1 = r1
  r2 = r2
  Requests = {r1, r2}
  Keys = {k1, k2, k3}
  Values = {v1}
  None = None
  Same = Same
  MaxSettings = 2
  Sendable <- MCSendable
SPECIFICATION ServedSpec
SYMMETRY Symmetry
INVARIANTS
  BootstrapTypeOK
  StaleNoLongerThanTtl
  OwnUpdateServed
  CacheBounded
  TypeOK
  UnwrittenKeysKept
PROPERTIES
  Document
