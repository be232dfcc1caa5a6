CONSTANTS
  k1 = k1
  k2 = k2
  k3 = k3
  v1 = v1
  v2 = v2
  t1 = t1
  t2 = t2
  Key <- MCKey
  Hash <- MCHash
  Value <- MCValue
  Thread <- MCThread
  Absent = Absent
  NoThread = NoThread
  Capacity = 2
  LockCount = 2
  SizeModulus = 8
  MaxCalls = 3
SPECIFICATION Spec
INVARIANTS
  MapInv
  NoDeadlock
PROPERTY ImplementsAtomicMap
CHECK_DEADLOCK FALSE
