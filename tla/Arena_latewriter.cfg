SPECIFICATION Spec
CONSTANTS
  None = None
  h1 = h1
  h2 = h2
  r1 = r1
  r2 = r2
  c1 = c1
  c2 = c2
  Hashed = {}
  Random = {r1, r2}
  Size <- OneSlotSize
  Codec = {"raw"}
  Mode = {"Direct"}
  Client = {c1, c2}
  Reader = {}
  Granule = 2
  ArenaBytes = 4
  ReserveTtl = 1
  MaxObjects = 2
  MaxReservations = 3
CHECK_DEADLOCK FALSE
PROPERTY NeverRewritten
