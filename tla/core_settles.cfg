\* One booking, two handlers, one lost transaction: the sweep settles it, and its tables agree.
SPECIFICATION FairSpec
CONSTANTS
  Reservation = {r1}
  Worker = {w1, w2}
  Stay <- OneStay
  Night <- TwoNights
  Notice <- EdgeNotices
  Price = 5
  MaxOutcomes = 2
  MaxFaults = 1
  NoReservation = NoReservation
  Nobody = Nobody
INVARIANT PairsAgree
INVARIANT OutboxTellsStatus
INVARIANT RefundOnlyAfterConfirm
INVARIANT NightsReturned
PROPERTY LapsedIsSettled
