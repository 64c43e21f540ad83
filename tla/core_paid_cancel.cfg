\* Is a confirmed booking refunded by its tier when it is cancelled?
SPECIFICATION Spec
CONSTANTS
  Reservation = {r1}
  Worker = {w1, w2}
  Stay <- OneStay
  Night <- TwoNights
  Notice <- EarlyNotice
  Price = 4
  MaxOutcomes = 1
  MaxFaults = 0
  NoReservation = NoReservation
  Nobody = Nobody
SYMMETRY Symmetric
PROPERTY PaidCancelRefunds
