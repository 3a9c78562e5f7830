\* Two connections, two objects, right and wrong uploads.
CONSTANTS
  big = big
  small = small
  x = x
  y = y
  Clients = {c1, c2}
  Objects = {big, small}
  Chunks = {x, y}
  Content <- MCContent
  Requests <- MCRequests
  NoFile = NoFile
  NoRequest = NoRequest
SPECIFICATION Spec
SYMMETRY ClientSymmetry
INVARIANTS
  TypeOK
  StoredIntact
  PromisesKept
  AnsweredLeavesNoTemp
PROPERTIES
  ObjectsStable
