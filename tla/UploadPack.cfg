\* Two clients; three commits are enough for a common ancestor, a branch that
\* is rewound and a client ahead of the server; two chunks and a channel of one
\* make the thread wait for its reader.
CONSTANTS
  a = a
  b = b
  x = x
  ta = ta
  tb = tb
  u = u
  w = w
  c1 = c1
  c2 = c2
  Null = Null
  Commits = {a, b, x}
  Parents <- MCParents
  Trees = {ta, tb}
  Blobs = {u, w}
  TreeOf <- MCTreeOf
  Kids <- MCKids
  Sessions = {c1, c2}
  Names = {"main"}
  FirstStored = {a}
  FirstHeld <- MCHeld
  Settings <- MCSettings
  Chunks = 2
  InFlight = 1
  MaxFiles = 1
  MaxHaves = 2
SPECIFICATION FairSpec
INVARIANTS TypeOK FetchedComplete CacheSound
PROPERTIES DeadlineNeedsSilence ErrorsReachClient WantsDelivered EveryFetchEnds
