SPECIFICATION Spec
CONSTANTS
  None = None
  h1 = h1
  h2 = h2
  r1 = r1
  r2 = r2
  c1 = c1
  c2 = c2
  Hashed = {h1}
  Random = {r1, r2}
  Size <- TwoSlotSizes
  Codec = {"raw", "bin"}
  Mode = {"Direct", "Streamed"}
  Client = {c1}
  Reader = {}
  Granule = 2
  ArenaBytes = 4
  ReserveTtl = 1
  MaxObjects = 1
  MaxReservations = 3
CHECK_DEADLOCK FALSE
INVARIANTS TypeOK SlotsTile
PROPERTY BytesStayWithRecord
