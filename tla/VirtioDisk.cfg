SPECIFICATION FairSpec
CONSTANTS
  b1 = b1
  b2 = b2
  b3 = b3
  k1 = k1
  k2 = k2
  v1 = v1
  v2 = v2
  Buf = {b1, b2, b3}
  Block = {k1}
  Value = {v1}
  NoBuf = NoBuf
  NUM = 8
  U16 = 16
INVARIANTS
  RequestsWhole
PROPERTIES
  RequestEnds
