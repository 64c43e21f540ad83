------------------------------ MODULE HostBridge ------------------------------
(***************************************************************************)
(* How the outcome of a host command becomes a status in the browser: the  *)
(* API's exception filter, the typed client of the web server, which turns *)
(* statuses into errors, and its bridge routes, which turn the errors into *)
(* statuses again. A call that never arrives has the status 0.             *)
(***************************************************************************)
EXTENDS Naturals

(* ListingExceptionFilter.                                                 *)
StatusFor(exception) ==
  CASE exception \in {"InvalidListingState", "OverlappingBlock"} -> 409
    [] exception \in {"ListingNotFound", "BlockNotFound"} -> 404
    [] exception = "InvalidListingDetails" -> 422
    [] OTHER -> 400

ThrowForAuth(status) == CASE status = 401 -> "AuthRequired"
                          [] status = 403 -> "Forbidden"
                          [] OTHER -> "none"

(* What the client throws when only 404 has a meaning of its own.          *)
NotFoundOr(status) ==
  CASE status \in {401, 403} -> ThrowForAuth(status)
    [] status = 404 -> "NotFound"
    [] status = 0 -> "TypeError"               \* fetch rejects
    [] status >= 300 /\ status \notin {401, 403, 404} -> "ApiError"
    [] OTHER -> "none"

GetListingBlocks(status) == NotFoundOr(status)
DeleteListingBlock(status) == NotFoundOr(status)
SetHostListingPublished(status) == NotFoundOr(status)

CreateListingBlock(status) ==
  IF status \in {400, 409, 422} THEN "Invalid" ELSE NotFoundOr(status)

UpdateHostListing(status) ==
  IF status \in {400, 422} THEN "Invalid" ELSE NotFoundOr(status)

CreateHostListing(status) ==
  CASE status \in {400, 422} -> "Invalid"
    [] status = 404 -> "ApiError"
    [] OTHER -> NotFoundOr(status)

(* The routes of the bridge.                                               *)
ErrorResponse(error) ==
  CASE error = "AuthRequired" -> 401
    [] error = "Forbidden" -> 403
    [] error = "NotFound" -> 404
    [] error = "Invalid" -> 400
    [] error = "ApiError" -> 502
    [] OTHER -> 500

Relay(error, success) == IF error = "none" THEN success ELSE ErrorResponse(error)

PostBlock(status) == Relay(CreateListingBlock(status), 201)
DeleteBlock(status) == Relay(DeleteListingBlock(status), 200)
PostPublish(status) == Relay(SetHostListingPublished(status), 200)
PostUnpublish(status) == Relay(SetHostListingPublished(status), 200)
PostListing(status) == Relay(CreateHostListing(status), 201)
PatchListing(status) == Relay(UpdateHostListing(status), 200)
=============================================================================
