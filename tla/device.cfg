CONSTANTS
  Obj = {o1, o2, o3}
  Id = {i1, i2}
  Nic = {n1, n2}
  Fails = {"add", "top", "bottom"}
  Careless = {"missing", "order", "busy", "early"}
SPECIFICATION Spec
SYMMETRY Symmetry
INVARIANTS NothingDangles BlocksMigrationWhilePlugged NoCrash NicHeldOnce
PROPERTY DeletionIsTold
CHECK_DEADLOCK FALSE
