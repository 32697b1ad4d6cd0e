\* Two devices, overlapping flushes, a shared key and every kind of fault.
CONSTANTS
  x = x
  y = y
  z = z
  v = v
  w = w
  k1 = k1
  k2 = k2
  k3 = k3
  k4 = k4
  k5 = k5
  k6 = k6
  phone = phone
  laptop = laptop
  s1 = s1
  s2 = s2
  Job = {x, y, z}
  Record = {v, w}
  Gone = {z, v}
  MaxBatch = 2
  Device = {phone, laptop}
  Slot = {s1, s2}
  Actions <- Mixed
  Overlap = TRUE
  Faults = {"crash", "lost", "failing", "unreceipted", "expiry"}
  MaxFaults = 2
SPECIFICATION Spec
SYMMETRY Symmetry
CHECK_DEADLOCK FALSE
INVARIANTS SuccessIsTrue SettledActionsLand
