\* The cache of the KV backend, with a disk that fills up and a server that is
\* restarted.
CONSTANTS
  a = a
  b = b
  x = x
  ta = ta
  tb = tb
  u = u
  w = w
  c1 = c1
  c2 = c2
  Null = Null
  Commits = {a, b, x}
  Parents <- MCParents
  Trees = {ta, tb}
  Blobs = {u, w}
  TreeOf <- MCTreeOf
  Kids <- MCKids
  Sessions = {c1, c2}
  Names = {"main"}
  FirstStored = {a}
  FirstHeld <- MCHeld
  Settings <- MCKvOnly
  Chunks = 2
  InFlight = 1
  MaxFiles = 1
  MaxHaves = 2
SPECIFICATION FairSpec
INVARIANT TornFileNeverServed
