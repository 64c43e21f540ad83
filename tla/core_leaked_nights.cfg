\* Does a cancelled booking give its nights back under three handlers?
SPECIFICATION Spec
CONSTANTS
  Reservation = {r1}
  Worker = {w1, w2, w3}
  Stay <- OneStay
  Night <- TwoNights
  Notice <- EarlyNotice
  Price = 4
  MaxOutcomes = 1
  MaxFaults = 0
  NoReservation = NoReservation
  Nobody = Nobody
SYMMETRY Symmetric
INVARIANT NightsReturned
