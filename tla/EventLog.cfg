CONSTANTS
  Servers = {a, b}
  Services = {a1, a2, b1}
  ServerOf <- MCServerOf
  HostOf <- MCHostOf
  Nobody = Nobody
  MaxEvents = 3
  a = a
  b = b
  a1 = a1
  a2 = a2
  b1 = b1
SPECIFICATION Spec
CHECK_DEADLOCK FALSE
INVARIANTS TypeOK LogIsDense IndexAgrees
PROPERTY OwnersWrite
