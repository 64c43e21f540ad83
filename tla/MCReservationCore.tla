------------------------- MODULE MCReservationCore -------------------------
(***************************************************************************)
(* Instances of ReservationCore for TLC: one listing with two nights on    *)
(* sale, so that stays can coincide, nest, touch and miss each other.      *)
(***************************************************************************)
EXTENDS ReservationCore, TLC

(* The stay of one listing from one day to a later one.                    *)
StayAt(in, out) == [listing |-> "cabin", checkIn |-> in, checkOut |-> out]

AllStays == {StayAt(0, 1), StayAt(1, 2), StayAt(0, 2)}
OneStay == {StayAt(0, 1)}
ClashingStays == {StayAt(0, 1), StayAt(0, 2)}
TwoNights == {<<"cabin", 0>>, <<"cabin", 1>>}

(* One notice in each tier, on the edges: 7 days, 48 hours, 47 hours.      *)
EarlyNotice == {168}
EdgeNotices == {168, 48, 47}

Symmetric == Permutations(Worker) \cup Permutations(Reservation)
=============================================================================
