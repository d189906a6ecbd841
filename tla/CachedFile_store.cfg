SPECIFICATION Spec
CONSTANTS
  d1 = d1
  d2 = d2
  none = none
  m1 = m1
  Data = {d1, d2}
  UserMeta = {none}
  NoMeta = none
  MaxChunks = 3
  kSize = 3
  Hash <- MCHash
INVARIANTS CacheExact FreeListExact
PROPERTIES ImplementsFile ImplementsStore
