SPECIFICATION Spec
CONSTANTS
  b1 = b1
  b2 = b2
  b3 = b3
  k1 = k1
  k2 = k2
  v1 = v1
  v2 = v2
  Buf = {b1, b2, b3}
  Block = {k1, k2}
  Value = {v1, v2}
  NoBuf = NoBuf
  NUM = 8
  U16 = 16
SYMMETRY Symmetric
PROPERTIES
  TransfersOnce
