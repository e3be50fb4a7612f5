SPECIFICATION Spec
CONSTANTS
  p1 = p1
  p2 = p2
  d1 = d1
  d2 = d2
  d3 = d3
  s1 = s1
  s2 = s2
  s3 = s3
  s4 = s4
  Proc = {p1, p2}
  Fd = {d1, d2, d3}
  Page = {s1, s2, s3, s4}
  CachePage = CachePage
  ObjsPerSlab = 2
  ObjsInCache = 1
  MP2_MIN_AVAIL_SLAB = 2
  NoObj = NoObj
SYMMETRY Symmetric
INVARIANTS
  SlabsSorted
  ObjectsAccounted
  RefExact
  ClosedOnce
  FewFree
