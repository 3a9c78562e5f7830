\* Two handlers serving one push after another; every pack in flight differs.
CONSTANTS
  a = a
  b = b
  c = c
  d = d
  k1 = k1
  k2 = k2
  k3 = k3
  main = main
  topic = topic
  Refs = {main, topic}
  Oids = {a, b, c, d}
  Null = Null
  Handlers = {p1, p2}
  Packs = {k1, k2, k3}
  NoPack = NoPack
  NoRequest = NoRequest
  Anc <- MCAnc
  Contents <- MCContents
  Base = {a}
  Protected = {main}
  Requests <- MCRequests
  MaxRefUpdates = 2
  SharedPacks = FALSE
  CrossDevice = FALSE
SPECIFICATION Spec
SYMMETRY HandlerSymmetry
INVARIANTS
  TypeOK
  NoDanglingRefs
  IndexedPackComplete
  ReusedFilesComplete
  HookMatchesJudgement
  RollbackComplete
PROPERTIES
  ProtectedOnlyFastForwards
