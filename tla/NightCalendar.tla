--------------------------- MODULE NightCalendar ---------------------------
(***************************************************************************)
(* What the reservation core promises to a host: a calendar in which every *)
(* night of a listing belongs to at most one reservation. A reservation    *)
(* takes all the nights of its stay in one step, only when every one of    *)
(* them is free, and gives all of them back in one step.                   *)
(***************************************************************************)
EXTENDS Integers

CONSTANTS
  Reservation,   \* the reservations that may be made
  Night,         \* the nights on sale: pairs <<listing, day>>
  Nobody         \* the owner of a night that is free

VARIABLES
  stay,          \* the stay each reservation is for; never changes
  owner          \* the reservation each night belongs to, or Nobody

calendarVars == <<stay, owner>>

NightsOf(s) ==
  {n \in Night : n[1] = s.listing /\ n[2] >= s.checkIn /\ n[2] < s.checkOut}

Paint(nights, who) == [n \in Night |-> IF n \in nights THEN who ELSE owner[n]]

CalendarInit == owner = [n \in Night |-> Nobody]

Take(r) ==
  /\ \A n \in NightsOf(stay[r]) : owner[n] = Nobody
  /\ owner' = Paint(NightsOf(stay[r]), r)
  /\ UNCHANGED stay

GiveBack(r) ==
  /\ \A n \in NightsOf(stay[r]) : owner[n] = r
  /\ owner' = Paint(NightsOf(stay[r]), Nobody)
  /\ UNCHANGED stay

CalendarNext == \E r \in Reservation : Take(r) \/ GiveBack(r)

Calendar == CalendarInit /\ [][CalendarNext]_calendarVars
=============================================================================
