\* Two requests and two refs: the lock deadlock and the stale tips need two of
\* each and no more.  Cap = 2 ends the longest walk with CapExceeded.
CONSTANTS
  a = a
  b = b
  x = x
  y = y
  m = m
  n = n
  Null = Null
  NoId = NoId
  Free = Free
  Commits <- MCCommits
  Parents <- MCParents
  Handlers = {h1, h2}
  Names = {m, n}
  Ids = {1}
  Updates <- MCUpdates
  Pushes <- MCPushes
  Engines = {"kv", "sql"}
  Trusted = {a, b, y}
  Cap = 2
SPECIFICATION FairSpec
INVARIANTS TypeOK RefsHoldTrustedHistory NoDanglingRefs WalkExact
PROPERTIES RefStoreSpec EveryPushReturns
