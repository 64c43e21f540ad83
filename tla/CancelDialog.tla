----------------------------- MODULE CancelDialog -----------------------------
(***************************************************************************)
(* The page of a booking and its cancel dialog: what the dialog promises   *)
(* when it opens, what the server grants when the guest confirms, and how  *)
(* the dialog comes back from the answers. Meanwhile time passes, and the  *)
(* booking is paid for, expires or is cancelled in another tab. The saga   *)
(* that confirms or expires it saves the copy it has read, whatever became *)
(* of the row: a cancelled booking can be a confirmed one again.           *)
(***************************************************************************)
EXTENDS StayRules, GuestBridge, Sequences

CONSTANTS
  Notices,     \* hours left until check-in, as time passes
  Price,       \* price snapshot in minor units
  MaxFaults    \* bound: failed calls

BoundsAssumption ==
  /\ Notices \in Seq(Int) /\ Notices # <<>>
  /\ \A i, j \in DOMAIN Notices : i <= j => Notices[j] <= Notices[i]
  /\ Price \in Nat /\ MaxFaults \in Nat

VARIABLES
  booking,   \* the row
  sagas,     \* what the saga's transactions under way are about to save
  now,       \* index into Notices
  page,      \* what the page was rendered with, and whether it reloads
  dialog,
  call,
  revived,   \* history: a saga has saved over the cancelled row
  faults

world == <<booking, sagas, revived>>
vars == <<world, now, page, dialog, call, faults>>
-----------------------------------------------------------------------------
Row == [status : BookingStatus, refund : 0 .. Price \cup {-1}]
Notice == Notices[now]

Page == [at : {"booking", "login", "error"}, row : Row, refreshing : BOOLEAN]

Dialog == [open : BOOLEAN, allowed : BOOLEAN, refund : 0 .. Price,
           submitting : BOOLEAN, error : BOOLEAN]
NoDialog == [open |-> FALSE, allowed |-> FALSE, refund |-> 0,
             submitting |-> FALSE, error |-> FALSE]
NoCall == [pc |-> "idle", status |-> 0, granted |-> FALSE]

(* isCancellable: the page mounts the dialog.                              *)
Mounted == page.at = "booking" /\ page.row.status \in {"PendingPayment", "Confirmed"}

Init ==
  /\ booking \in [status : {"PendingPayment", "Confirmed"}, refund : {-1}]
  /\ sagas = {} /\ revived = FALSE
  /\ now = 1
  /\ page = [at |-> "booking", row |-> booking, refreshing |-> FALSE]
  /\ dialog = NoDialog /\ call = NoCall /\ faults = 0
-----------------------------------------------------------------------------
(* The world.                                                              *)
Tick == /\ now < Len(Notices) /\ now' = now + 1
        /\ UNCHANGED <<world, page, dialog, call, faults>>

(* BookingCheckoutSaga: a transaction loads the pending booking and turns  *)
(* its copy into a confirmed or an expired one ...                         *)
SagaReads(status) ==
  /\ booking.status = "PendingPayment" /\ status \notin sagas
  /\ sagas' = sagas \cup {status}
  /\ UNCHANGED <<booking, revived, now, page, dialog, call, faults>>

(* ... and saves the copy: an upsert by id that compares nothing.          *)
SagaSaves(status) ==
  /\ status \in sagas
  /\ booking' = [status |-> status, refund |-> -1]
  /\ sagas' = sagas \ {status}
  /\ revived' = (revived \/ booking.status = "Cancelled")
  /\ UNCHANGED <<now, page, dialog, call, faults>>

(* CancelBookingHandler, for this tab and for another one; it is one step  *)
(* here, ReservationCore has what comes between its read and its save.     *)
Outcome == Evaluate(booking.status, Notice, Price)
Cancelled == [status |-> "Cancelled", refund |-> Outcome.refund]

CancelledElsewhere ==
  /\ Outcome.allowed
  /\ booking' = Cancelled
  /\ UNCHANGED <<sagas, revived, now, page, dialog, call, faults>>
-----------------------------------------------------------------------------
(* Mutant of PreviewRefund: the full refund needs more than seven days.    *)
PreviewLate(status, notice) ==
  IF status = "PendingPayment" THEN AllowedWith(0)
  ELSE IF notice > FullRefundNotice THEN AllowedWith(Price)
  ELSE IF notice >= HalfRefundNotice THEN AllowedWith(Price \div 2)
  ELSE Refused

(* previewRefund: the client's mirror of the policy.                       *)
PreviewRefund(status, notice) ==
  IF status = "PendingPayment" THEN AllowedWith(0)
  ELSE IF notice >= FullRefundNotice THEN AllowedWith(Price)
  ELSE IF notice >= HalfRefundNotice THEN AllowedWith(Price \div 2)
  ELSE Refused

HandleOpen ==
  /\ Mounted /\ ~dialog.open
  /\ LET preview == PreviewRefund(page.row.status, Notice)
     IN  dialog' = [dialog EXCEPT !.open = TRUE, !.error = FALSE,
                      !.allowed = preview.allowed, !.refund = preview.refund]
  /\ UNCHANGED <<world, now, page, call, faults>>

HandleClose ==
  /\ Mounted /\ dialog.open /\ ~dialog.submitting
  /\ dialog' = [dialog EXCEPT !.open = FALSE]
  /\ UNCHANGED <<world, now, page, call, faults>>

HandleConfirm ==
  /\ Mounted /\ dialog.open /\ dialog.allowed /\ ~dialog.submitting
  /\ dialog' = [dialog EXCEPT !.submitting = TRUE, !.error = FALSE]
  /\ call' = [NoCall EXCEPT !.pc = "sent"]
  /\ UNCHANGED <<world, now, page, faults>>

ServeCancel ==
  /\ call.pc = "sent"
  /\ LET exception == IF Outcome.allowed THEN "none" ELSE "InvalidBookingState"
     IN  call' = [pc |-> "answered", granted |-> Outcome.allowed,
                  status |-> CancelRoute(StatusForBooking(exception))]
  /\ booking' = IF Outcome.allowed THEN Cancelled ELSE booking
  /\ UNCHANGED <<sagas, revived, now, page, dialog, faults>>

(* Before the handler or after it: a lost answer, an expired cookie, an    *)
(* API that fails.                                                         *)
CancelFails ==
  /\ call.pc # "idle" /\ faults < MaxFaults
  /\ faults' = faults + 1
  /\ \E status \in {0} \cup {CancelRoute(s) : s \in {0, 401, 404, 500}} :
       call' = [call EXCEPT !.pc = "answered", !.status = status]
  /\ UNCHANGED <<world, now, page, dialog>>

(* Mutant of Failed: the flag is left to a refresh that is not asked for.  *)
FailedBusy(d) == [d EXCEPT !.error = TRUE]

Failed(d) == [d EXCEPT !.submitting = FALSE, !.error = TRUE]

(* handleConfirm goes on. After a 200 the busy flag is left set: the       *)
(* refresh is expected to unmount the dialog.                              *)
SettleCancel ==
  /\ call.pc = "answered"
  /\ call' = NoCall
  /\ \/ /\ call.status = 200
        /\ dialog' = [dialog EXCEPT !.open = FALSE]
        /\ page' = [page EXCEPT !.refreshing = TRUE]
     \/ /\ call.status = 401
        /\ page' = [page EXCEPT !.at = "login"] /\ dialog' = NoDialog
     \/ /\ call.status \notin {200, 401}
        /\ dialog' = Failed(dialog) /\ UNCHANGED page
  /\ UNCHANGED <<world, now, faults>>

(* The server component is rendered again; React keeps the dialog's state  *)
(* as long as it stays mounted.                                            *)
Refreshed ==
  /\ page.refreshing /\ page.at = "booking"
  /\ page' = [page EXCEPT !.row = booking, !.refreshing = FALSE]
  /\ dialog' = IF Mounted' THEN dialog ELSE NoDialog
  /\ UNCHANGED <<world, now, call, faults>>

(* The render fails and error.tsx takes the place of the page, or the      *)
(* session has run out and requireUser redirects.                          *)
RefreshFails ==
  /\ page.refreshing /\ page.at = "booking" /\ faults < MaxFaults
  /\ faults' = faults + 1
  /\ \E at \in {"error", "login"} :
       page' = [page EXCEPT !.at = at, !.refreshing = FALSE]
  /\ dialog' = NoDialog
  /\ UNCHANGED <<world, now, call>>

(* The guest opens the page anew, or comes back from login or error; a     *)
(* refresh that never arrives makes the router navigate there, too.        *)
Reload ==
  /\ call.pc = "idle"
  /\ page' = [at |-> "booking", row |-> booking, refreshing |-> FALSE]
  /\ dialog' = NoDialog
  /\ UNCHANGED <<world, now, call, faults>>

Next ==
  \/ Tick \/ CancelledElsewhere
  \/ \E status \in {"Confirmed", "Expired"} : SagaReads(status) \/ SagaSaves(status)
  \/ HandleOpen \/ HandleClose \/ HandleConfirm
  \/ ServeCancel \/ CancelFails \/ SettleCancel
  \/ Refreshed \/ RefreshFails \/ Reload

Spec == Init /\ [][Next]_vars

(* Calls are answered and refreshes arrive; the guest need not act.        *)
Fairness == WF_vars(ServeCancel \/ SettleCancel \/ Refreshed)

FairSpec == Spec /\ Fairness
-----------------------------------------------------------------------------
(* Types, and a refund has been recorded exactly for what is cancelled.    *)
TypeOK ==
  /\ booking \in Row /\ (booking.refund >= 0 <=> booking.status = "Cancelled")
  /\ sagas \subseteq {"Confirmed", "Expired"} /\ revived \in BOOLEAN
  /\ now \in DOMAIN Notices
  /\ page \in Page
  /\ dialog \in Dialog /\ (dialog.open => Mounted)
  /\ call.pc \in {"idle", "sent", "answered"} /\ faults \in 0 .. MaxFaults

(* The preview mirrors the policy of the server, at the edges, too.        *)
PreviewMirrorsPolicy ==
  [][~dialog.open /\ dialog'.open =>
       [allowed |-> dialog'.allowed, refund |-> dialog'.refund]
         = Evaluate(page.row.status, Notice, Price)]_vars

(* A guest who cancels gets what the dialog has promised, or less if a     *)
(* tier has passed since, and more only for a booking that was paid since. *)
RefundAsPromised ==
  [][call.pc = "sent" /\ booking'.status = "Cancelled" /\ booking' # booking
       /\ call'.pc = "answered" /\ page.row.status = booking.status
       => /\ booking'.refund <= dialog.refund
          /\ booking'.refund < dialog.refund =>
               dialog.refund = Price /\ Notice < FullRefundNotice]_vars

(* The dialog waits for its call or its refresh. One way to be busy is no  *)
(* waiting: the refresh is over and shows a booking the saga has saved     *)
(* over the cancelled one, so the dialog stayed mounted with its flag set. *)
Stuck == dialog.submitting /\ revived /\ Mounted /\ call.pc = "idle" /\ ~page.refreshing

Busy == dialog.submitting /\ ~Stuck

(* The refreshed page renders the cancelled state, so the dialog is not    *)
(* busy for good.                                                          *)
DialogComesBack == dialog.submitting ~> ~dialog.submitting

(* A booking this dialog has cancelled is shown as cancelled.              *)
CancelIsShown ==
  call.granted ~> page.row.status = "Cancelled" \/ page.at = "login"
=============================================================================
