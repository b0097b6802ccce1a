SPECIFICATION Spec
CONSTANTS
  k1 = k1
  k2 = k2
  c1 = c1
  c2 = c2
  Junk = Junk
  Capacity = 4
  Sizes <- MCSizes
  Keys <- MCKeys
  Clients <- MCClients
  KeyLists <- MCKeyLists
SYMMETRY Symmetry
INVARIANTS
  TypeOK
  SlicesDisjoint
  CountsMatchHolds
  WriterExclusive
  ReadableIsComplete
  TemporaryIsReferenced
  BytesConserved
PROPERTY StableWhileHeld
