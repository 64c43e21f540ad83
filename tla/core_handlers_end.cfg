\* Two guests after the same night, every handler in turn.
SPECIFICATION HandlerSpec
CONSTANTS
  Reservation = {r1, r2}
  Worker = {w1, w2}
  Stay <- OneStay
  Night <- TwoNights
  Notice <- EarlyNotice
  Price = 4
  MaxOutcomes = 1
  MaxFaults = 0
  NoReservation = NoReservation
  Nobody = Nobody
PROPERTY HandlersEnd
