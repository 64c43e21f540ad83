\* A declined card, then a good one; one handler at a time.
SPECIFICATION FairSpec
CONSTANTS
  Booking = {b1}
  Intent = {i1}
  Worker = {w1}
  None = None
  MaxTries = 2
  MaxFaults = 0
  MaxCrashes = 0
PROPERTY ChargeIsRecorded
