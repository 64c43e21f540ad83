----------------------------- MODULE StayRules -----------------------------
(***************************************************************************)
(* The vocabulary and the pure rules that the reservation core of          *)
(* Harbourstay is built from: the two status enums, which holds take part  *)
(* in the overbooking constraint, when two stays overlap, and the          *)
(* cancellation policy. Nights are integers: a DateRange is normalised to  *)
(* UTC midnight, so only the calendar day is left of a date.               *)
(***************************************************************************)
EXTENDS Integers

(* "Absent" is the value of a row that has not been inserted yet.          *)
Absent == "Absent"

BookingStatus ==
  {"PendingPayment", "Confirmed", "Completed", "Cancelled", "Expired", "NoShow"}

HoldStatus == {"active", "committed", "released", "expired"}

(* The holds the WHERE clause of no_overlapping_holds lets take part; also *)
(* the ones Hold.release() accepts.                                        *)
Live(status) == status \in {"active", "committed"}

(* Mutant of Overlaps: only stays that start on the same day collide.      *)
SameCheckIn(s, t) == s.checkIn = t.checkIn

(* The half-open ranges [checkIn, checkOut) of two stays share a night.    *)
Overlaps(s, t) == s.checkIn < t.checkOut /\ t.checkIn < s.checkOut

(* The exclusion key: same listing and overlapping ranges.                 *)
Clash(s, t) == s.listing = t.listing /\ Overlaps(s, t)

-----------------------------------------------------------------------------
(* CancellationPolicy.evaluate. The notice is the time left until check-in *)
(* in hours, the unit in which the tiers' edges are whole numbers.         *)
FullRefundNotice == 7 * 24
HalfRefundNotice == 2 * 24

Refused == [allowed |-> FALSE, refund |-> 0]

(* Mutant of AllowedWith: an amount in minor units is converted again.     *)
AllowedInCents(amount) == [allowed |-> TRUE, refund |-> 100 * amount]

AllowedWith(amount) == [allowed |-> TRUE, refund |-> amount]

(* Mutant of Evaluate: the tiers are applied to an unpaid booking as well.  *)
EvaluateUnpaidToo(status, notice, price) ==
  CASE status \notin {"PendingPayment", "Confirmed"} -> Refused
    [] OTHER -> AllowedWith(IF notice >= FullRefundNotice THEN price
                                                          ELSE price \div 2)

Evaluate(status, notice, price) ==
  CASE status = "PendingPayment" -> AllowedWith(0)
    [] status = "Confirmed" /\ notice >= FullRefundNotice -> AllowedWith(price)
    [] status = "Confirmed" /\ notice \in HalfRefundNotice .. FullRefundNotice - 1
         -> AllowedWith(price \div 2)
    [] OTHER -> Refused
=============================================================================
