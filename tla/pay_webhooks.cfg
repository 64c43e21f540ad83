\* One intent with two tries, two handlers at a time, a failing call and a crash.
SPECIFICATION FairSpec
CONSTANTS
  Booking = {b1}
  Intent = {i1}
  Worker = {w1, w2}
  None = None
  MaxTries = 2
  MaxFaults = 1
  MaxCrashes = 1
INVARIANT TypeOK
INVARIANT PublishedOnce
INVARIANT ChargedIsKnown
INVARIANT ConfirmedIsPaid
INVARIANT LedgerReachesSaga
PROPERTY FirstCardIsRecorded
