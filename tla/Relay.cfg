\* Three rows, two relays, three faults.
SPECIFICATION FairSpec
CONSTANTS
  Id = {1, 2, 3}
  Relay = {r1, r2}
  BatchSize = 2
  MaxFaults = 3
INVARIANTS TypeOK CopiesNeedFaults
PROPERTIES ImplementsChannel EventuallyPublished
CHECK_DEADLOCK FALSE
