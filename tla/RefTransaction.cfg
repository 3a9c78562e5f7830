\* Two concurrent update_refs calls over two refs and two commits.
CONSTANTS
  a = a
  b = b
  Refs = {main, tag}
  Oids = {a, b}
  Null = Null
  Callers = {c1, c2}
  Updates <- MCUpdates
  Free = Free
SPECIFICATION FairSpec
INVARIANTS
  TypeOK
  NoStrayLock
  CheckedStillCurrent
PROPERTIES
  RefStoreSpec
  EveryCallReturns
