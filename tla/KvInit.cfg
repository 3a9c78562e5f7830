\* Two first pushes to a repository that TiKV does not know yet.
CONSTANTS
  a = a
  b = b
  x = x
  y = y
  m = m
  n = n
  Null = Null
  NoId = NoId
  Free = Free
  Commits <- MCCommits
  Parents <- MCParents
  Handlers = {h1, h2}
  Names = {m, n}
  Ids = {1, 2}
  Updates <- MCUpdates
  Pushes <- MCPushes
  Engines = {"kv"}
  Trusted = {a, b, y}
  Cap = 2
SPECIFICATION FairSpec
PROPERTY RepoIdStable
