CONSTANTS
  Client = {c1, c2, c3, c4}
  SequenceNum = {1, 2}
  Response = {r1, r2}
  None = None
  Capacity = 3
  Head = Head
  Tail = Tail
  Null = Null
SPECIFICATION Spec
SYMMETRY Clients
INVARIANTS WellLinked
PROPERTIES ImplementsLRU
