\* Pushes of one pack at the same time, installed by copying: what holds even then.
CONSTANTS
  a = a
  b = b
  c = c
  d = d
  k1 = k1
  k2 = k2
  k3 = k3
  main = main
  topic = topic
  Refs = {main, topic}
  Oids = {a, b, c, d}
  Null = Null
  Handlers = {p1, p2}
  Packs = {k1}
  NoPack = NoPack
  NoRequest = NoRequest
  Anc <- MCAnc
  Contents <- MCOnePack
  Base = {a}
  Protected = {main}
  Requests <- MCSamePack
  MaxRefUpdates = 1
  SharedPacks = TRUE
  CrossDevice = TRUE
SPECIFICATION FairSpec
INVARIANTS
  ReportTruthful
  HookOnlyAfterLanding
PROPERTIES
  ProtectedOnlyFastForwards
  EveryPushDecided
