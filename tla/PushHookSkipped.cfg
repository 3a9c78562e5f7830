\* A client that leaves before the report is written.
CONSTANTS
  a = a
  b = b
  c = c
  d = d
  k1 = k1
  k2 = k2
  k3 = k3
  main = main
  topic = topic
  Refs = {main, topic}
  Oids = {a, b, c, d}
  Null = Null
  Handlers = {p1}
  Packs = {k1}
  NoPack = NoPack
  NoRequest = NoRequest
  Anc <- MCAnc
  Contents <- MCOnePack
  Base = {a}
  Protected = {main}
  Requests <- MCSamePack
  MaxRefUpdates = 2
  SharedPacks = FALSE
  CrossDevice = FALSE
SPECIFICATION Spec
INVARIANTS
  HookAfterEveryUpdate
