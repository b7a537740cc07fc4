SPECIFICATION Spec
CONSTANTS
  r1 = r1
  r2 = r2
  r3 = r3
  Req = {r1, r2, r3}
  Cached = {r1, r2}
  Bytes <- TwoSizes
  Overhead = 1
  MaxEntries = 2
  MaxBytes = 3
  Timeout = 2
  Ttl = 2
  MaxClock = 3
  MaxCalls = 2
  MaxEpoch = 2
CHECK_DEADLOCK FALSE
INVARIANTS BudgetExact AnswersAreTrue
PROPERTY RepeatsOnlyLate
