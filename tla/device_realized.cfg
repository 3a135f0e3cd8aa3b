CONSTANTS
  Obj = {o1, o2}
  Id = {i1, i2}
  Nic = {n1}
  Fails = {}
  Careless = {"busy"}
SPECIFICATION Spec
INVARIANT RealizedIsConstructed
