\* The cache of the KV backend, and clients that ask for a commit before it has
\* been pushed.
CONSTANTS
  a = a
  b = b
  x = x
  ta = ta
  tb = tb
  u = u
  w = w
  c1 = c1
  c2 = c2
  Null = Null
  Commits = {a, b, x}
  Parents <- MCParents
  Trees = {ta, tb}
  Blobs = {u, w}
  TreeOf <- MCTreeOf
  Kids <- MCKids
  Sessions = {c1, c2}
  Names = {"main"}
  FirstStored = {a}
  FirstHeld <- MCHeld
  Settings <- MCKvUnseen
  Chunks = 2
  InFlight = 1
  MaxFiles = 1
  MaxHaves = 2
SPECIFICATION FairSpec
PROPERTY HitIsBuild
