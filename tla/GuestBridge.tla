------------------------------ MODULE GuestBridge ------------------------------
(***************************************************************************)
(* How the outcome of a guest's call becomes a status in the browser: the  *)
(* exception filters of the API, the typed clients of the web server,      *)
(* which check the shape of the answer, too, and its bridge routes. A call *)
(* that never arrives has the status 0.                                    *)
(***************************************************************************)
EXTENDS Naturals

(* BookingExceptionFilter and PaymentExceptionFilter.                      *)
StatusForBooking(exception) ==
  CASE exception \in {"OverlappingHold", "DatesNotAvailable",
                      "InvalidBookingState", "InvalidHoldState"} -> 409
    [] exception = "PartySizeExceedsCapacity" -> 422
    [] exception \in {"ListingNotFound", "BookingNotFound"} -> 404
    [] exception = "none" -> 200
    [] OTHER -> 400

StatusForPayment(exception) ==
  CASE exception \in {"PaymentNotFound", "BookingNotFound"} -> 404
    [] exception \in {"InvalidPaymentState", "BookingNotPayable"} -> 409
    [] exception = "none" -> 201
    [] OTHER -> 400

(* What every client throws for statuses it gives no meaning of its own.   *)
Thrown(status) == CASE status = 401 -> "AuthRequired"
                    [] status = 404 -> "NotFound"
                    [] status = 0 -> "TypeError"
                    [] status >= 300 /\ status \notin {401, 404} -> "ApiError"
                    [] OTHER -> "none"

(* GET /bookings/:id is one read model with two readers: the pages of the  *)
(* pay flow parse it as a bookingSummary, which requires holdExpiresAt.    *)
SummaryFields == {"id", "status", "dates", "priceSnapshot", "holdExpiresAt"}
DetailFields == {"id", "status", "dates", "priceSnapshot", "listingTitle",
                 "nights", "cancelledAt", "refundAmount"}

Parsed(error, sent, wanted) ==
  IF error = "none" /\ ~(wanted \subseteq sent) THEN "ZodError" ELSE error

GetBooking(status, fields) == Parsed(Thrown(status), fields, SummaryFields)
GetBookingDetail(status, fields) == Parsed(Thrown(status), fields, DetailFields)

CreatePaymentIntent(status) ==
  IF status = 409 THEN "NotPayable" ELSE Thrown(status)

CancelBooking(status) ==
  IF status = 409 THEN "NotCancellable" ELSE Thrown(status)

(* The bridges.                                                            *)
Errors == [AuthRequired |-> 401, NotFound |-> 404, NotPayable |-> 409,
           NotCancellable |-> 409, ApiError |-> 502]

Bridged(error, success, otherwise) ==
  CASE error = "none" -> success
    [] error \in DOMAIN Errors -> Errors[error]
    [] OTHER -> otherwise

GetBookingRoute(status, fields) == Bridged(GetBooking(status, fields), 200, 500)
PayRoute(status) == Bridged(CreatePaymentIntent(status), 201, 502)
CancelRoute(status) == Bridged(CancelBooking(status), 200, 500)
=============================================================================
