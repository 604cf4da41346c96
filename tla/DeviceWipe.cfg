SPECIFICATION FairSpec
CONSTANTS
  Users = {u1, u2}
  Devices = {i1}
  IdemKeys = {k1, k2}
  Deletions = {d1, d2}
  Receipts = {r1}
  Scopes = {"account"}
  Secrets = {s1, s2}
  Hooks = {h1, h2}
  NoSecret = NoSecret
  NoHook = NoHook
  NoTag = NoTag
  u1 = u1
  u2 = u2
  i1 = i1
  k1 = k1
  k2 = k2
  d1 = d1
  d2 = d2
  r1 = r1
  s1 = s1
  s2 = s2
  h1 = h1
  h2 = h2
  MaxRevision = 2
  MaxBindings = 2
  MaxKeys = 2
  MaxList = 2
  MaxFaults = 2
CONSTRAINT FirstRegistration
INVARIANTS
    RecordsSound
PROPERTIES
    ImplementsLedger
    OwedIsCarriedOut
CHECK_DEADLOCK FALSE
