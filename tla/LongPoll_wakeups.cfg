SPECIFICATION FairSpec
CONSTANTS
  Worker = {w1}
  Getter = {g1}
  Mutator = {m1}
  MaxChanges = 2
INVARIANT WakeupNotLost
PROPERTIES EverythingArrives BlockingIsBounded
