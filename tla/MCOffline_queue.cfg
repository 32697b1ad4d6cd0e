\* One device that waits for its own flush, with crashes and lost responses.
CONSTANTS
  x = x
  y = y
  z = z
  v = v
  w = w
  k1 = k1
  k2 = k2
  k3 = k3
  k4 = k4
  k5 = k5
  k6 = k6
  phone = phone
  laptop = laptop
  s1 = s1
  s2 = s2
  Job = {x, y, z}
  Record = {v, w}
  Gone = {z, v}
  MaxBatch = 2
  Device = {phone}
  Slot = {s1}
  Actions <- OneOfEach
  Overlap = FALSE
  Faults = {"crash", "lost"}
  MaxFaults = 2
SPECIFICATION FairSpec
CHECK_DEADLOCK FALSE
INVARIANTS SavedFollowsTheQueue EachEditOnce
PROPERTIES QueueDrains
