SPECIFICATION Spec
CONSTANTS
  a = a
  b = b
  Contents = {a, b}
  NoMeta <- MCNoMeta
  MaxTime = 2
  MaxChunks = 4
INVARIANT IdsFollowEachOther
PROPERTY ImplementsSequence
