\* Two guests after the same, nested, touching or separate nights.
SPECIFICATION Spec
CONSTANTS
  Reservation = {r1, r2}
  Worker = {w1, w2}
  Stay <- AllStays
  Night <- TwoNights
  Notice <- EarlyNotice
  Price = 4
  MaxOutcomes = 1
  MaxFaults = 0
  NoReservation = NoReservation
  Nobody = Nobody
SYMMETRY Symmetric
INVARIANT TypeOK
INVARIANT NoOverbooking
PROPERTY ImplementsCalendar
