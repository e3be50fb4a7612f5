SPECIFICATION Spec
CONSTANTS
  p1 = p1
  p2 = p2
  Proc = {p1, p2}
  Name = {"a", "b"}
  NINODES = 5
  Nested <- AB
  Paths <- ShortPaths
  Targets <- LinkTargets
  Calls = {"open", "create", "mkdir", "link", "unlink", "chdir", "symlink", "readlink", "chmod"}
  MaxLinks = 1
  MaxNest = 1
  MaxCalls = 3
SYMMETRY Symmetric
INVARIANTS
  LinksExact
  RefExact
  FreedInTime
  OneParent
CHECK_DEADLOCK FALSE
