\* Two pushes of the same pack at the same time; one of them is refused.
CONSTANTS
  a = a
  b = b
  c = c
  d = d
  k1 = k1
  k2 = k2
  k3 = k3
  main = main
  topic = topic
  Refs = {main, topic}
  Oids = {a, b, c, d}
  Null = Null
  Handlers = {p1, p2}
  Packs = {k1}
  NoPack = NoPack
  NoRequest = NoRequest
  Anc <- MCAnc
  Contents <- MCOnePack
  Base = {a}
  Protected = {main}
  Requests <- MCSamePack
  MaxRefUpdates = 2
  SharedPacks = TRUE
  CrossDevice = FALSE
SPECIFICATION Spec
INVARIANTS
  NoDanglingRefs
