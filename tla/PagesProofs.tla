---------------------------- MODULE PagesProofs ----------------------------
(***************************************************************************)
(* What the pages of the web application show, for any number of calls,    *)
(* blocks, listings, days and faults. The theorems are about a tab, as     *)
(* MCPages composes it: whichever page is open, its steps are steps of its *)
(* own module, and the invariant of each page is its own.                  *)
(***************************************************************************)
EXTENDS MCPages, TLAPS

-----------------------------------------------------------------------------
(* A tab runs each of its pages. *)

LEMMA InitOfPages ==
  Init => /\ Availability!Init /\ Dashboard!Init /\ Widget!Init
          /\ Payment!Init /\ Cancellation!Init
  BY DEF Init

LEMMA StepOfPages ==
  ASSUME [Next]_vars
  PROVE  /\ [Availability!Next]_(Availability!vars)
         /\ [Dashboard!Next]_(Dashboard!vars)
         /\ [Widget!Next]_(Widget!vars)
         /\ [Payment!Next]_(Payment!vars)
         /\ [Cancellation!Next]_(Cancellation!vars)
  BY DEF Next, OnAvailability, OnDashboard, OnWidget, OnPayment, OnCancellation, vars,
     availability, hosting, widget, payment, cancellation, Availability!vars,
     Dashboard!vars, Widget!vars, Payment!vars, Cancellation!vars, Cancellation!world

-----------------------------------------------------------------------------
(* The cancel dialog. *)

(* A dialog that can still be confirmed, or waits for its call, shows the
   policy's amount at a moment since the page was rendered: the refresh that
   renders the page again under it comes after the answer only. It is open as
   long as it waits for the call, and busy as long as a refresh is under way. *)
CancelCall == [pc : {"idle", "sent", "answered"}, granted : BOOLEAN, status : Nat]

PreviewShown ==
  dialog.open /\ (~dialog.submitting \/ cancelCall.pc # "idle") =>
    \E n \in 1 .. hour :
      LET preview == Cancellation!PreviewRefund(stayPage.row.status, Notices[n])
      IN  dialog.allowed = preview.allowed /\ dialog.refund = preview.refund

DialogWaits ==
  /\ cancelCall.pc # "idle" =>
       dialog.open /\ dialog.submitting /\ dialog.allowed /\ ~stayPage.refreshing
  /\ stayPage.refreshing => dialog.submitting

CancelInv ==
  /\ Cancellation!TypeOK /\ cancelCall \in CancelCall
  /\ PreviewShown /\ DialogWaits

LEMMA PreviewIsPolicy ==
  ASSUME NEW status \in {"PendingPayment", "Confirmed"}, NEW notice \in Int
  PROVE  Cancellation!PreviewRefund(status, notice)
           = Cancellation!Evaluate(status, notice, Price)
  BY DEF Cancellation!PreviewRefund, Cancellation!Evaluate, Cancellation!FullRefundNotice,
     Cancellation!HalfRefundNotice, Cancellation!Refused, Cancellation!AllowedWith

LEMMA CancelInit == Cancellation!Init => CancelInv
<1> SUFFICES ASSUME Cancellation!Init PROVE CancelInv
  OBVIOUS
<1>1. /\ hour = 1 /\ sagas = {} /\ revived = FALSE /\ cancelFaults = 0
      /\ dialog = Cancellation!NoDialog /\ cancelCall = Cancellation!NoCall
      /\ stayPage = [at |-> "booking", row |-> stay, refreshing |-> FALSE]
  BY DEF Cancellation!Init
<1>2. /\ stay \in Cancellation!Row
      /\ stay.status \in {"PendingPayment", "Confirmed"} /\ stay.refund = -1
  BY DEF Cancellation!Init, Cancellation!Row, Cancellation!BookingStatus
<1>3. stayPage \in Cancellation!Page /\ ~stayPage.refreshing
  BY <1>1, <1>2 DEF Cancellation!Page
<1>4. /\ Price \in Nat /\ MaxFaults \in Nat
      /\ Notices \in Seq(Int) /\ Notices # <<>>
  BY PageAssumptions DEF Cancellation!BoundsAssumption
<1>5. hour \in DOMAIN Notices
  BY <1>1, <1>4
<1>6. /\ dialog \in Cancellation!Dialog /\ ~dialog.open
      /\ cancelCall \in CancelCall /\ cancelCall.pc = "idle"
  BY <1>1, <1>4 DEF Cancellation!Dialog, Cancellation!NoDialog, Cancellation!NoCall, CancelCall
<1>7. /\ stay.refund >= 0 <=> stay.status = "Cancelled"
      /\ cancelFaults \in 0 .. MaxFaults
  BY <1>1, <1>2, <1>4
<1>8. sagas \subseteq {"Confirmed", "Expired"} /\ revived \in BOOLEAN
  BY <1>1
<1>9. Cancellation!TypeOK
  BY <1>2, <1>3, <1>5, <1>6, <1>7, <1>8 DEF Cancellation!TypeOK
<1> QED
  BY <1>3, <1>6, <1>9 DEF CancelInv, PreviewShown, DialogWaits

(* What stays on the screen is still what was previewed. *)
LEMMA StaysShown ==
  ASSUME PreviewShown, hour' = hour,
         dialog'.open /\ (~dialog'.submitting \/ cancelCall'.pc # "idle") =>
           /\ dialog.open /\ (~dialog.submitting \/ cancelCall.pc # "idle")
           /\ stayPage'.row = stayPage.row
           /\ dialog'.allowed = dialog.allowed /\ dialog'.refund = dialog.refund
  PROVE  PreviewShown'
  BY DEF PreviewShown, Cancellation!PreviewRefund

(* The statuses a call can end with: 200 only for a handler that ran. *)
LEMMA CancelStatuses ==
  /\ \A s \in {0, 401, 404, 500} :
       Cancellation!CancelRoute(s) \in {401, 404, 500, 502}
  /\ Cancellation!CancelRoute(Cancellation!StatusForBooking("none")) = 200
  /\ Cancellation!CancelRoute(Cancellation!StatusForBooking("InvalidBookingState")) = 409
<1> USE DEF Cancellation!CancelBooking, Cancellation!Thrown
<1>1. Cancellation!CancelBooking(0) = "TypeError" /\ Cancellation!CancelBooking(401) = "AuthRequired"
  OBVIOUS
<1>2. Cancellation!CancelBooking(404) = "NotFound" /\ Cancellation!CancelBooking(500) = "ApiError"
  OBVIOUS
<1>3. Cancellation!CancelBooking(200) = "none" /\ Cancellation!CancelBooking(409) = "NotCancellable"
  OBVIOUS
<1>4. /\ Cancellation!StatusForBooking("none") = 200
      /\ Cancellation!StatusForBooking("InvalidBookingState") = 409
  BY DEF Cancellation!StatusForBooking
<1> QED
  BY <1>1, <1>2, <1>3, <1>4
  DEF Cancellation!CancelRoute, Cancellation!Bridged, Cancellation!Errors

(* What the policy grants, the row it leaves. *)
LEMMA GrantedRow ==
  ASSUME CancelInv
  PROVE  /\ Cancellation!Outcome.refund \in 0 .. Price
         /\ Cancellation!Outcome.allowed \in BOOLEAN
         /\ Cancellation!Outcome.allowed => stay.status \in {"PendingPayment", "Confirmed"}
         /\ Cancellation!Cancelled \in Cancellation!Row
         /\ Cancellation!Cancelled.status = "Cancelled" /\ Cancellation!Cancelled.refund >= 0
<1>1. Price \in Nat /\ Price \div 2 \in 0 .. Price
  BY PageAssumptions DEF Cancellation!BoundsAssumption
<1>2. /\ Cancellation!Outcome.refund \in 0 .. Price
      /\ Cancellation!Outcome.allowed \in BOOLEAN
      /\ Cancellation!Outcome.allowed => stay.status \in {"PendingPayment", "Confirmed"}
  BY <1>1 DEF Cancellation!Outcome, Cancellation!Evaluate, Cancellation!Refused,
     Cancellation!AllowedWith
<1> QED
  BY <1>1, <1>2 DEF Cancellation!Cancelled, Cancellation!Row, Cancellation!BookingStatus

LEMMA CancelWorld ==
  ASSUME CancelInv,
         \/ Cancellation!Tick \/ Cancellation!CancelledElsewhere
         \/ \E status \in {"Confirmed", "Expired"} :
              Cancellation!SagaReads(status) \/ Cancellation!SagaSaves(status)
  PROVE  CancelInv'
<1> USE DEF CancelInv
<1>1. CASE Cancellation!Tick
  <2>1. hour \in 1 .. Len(Notices) /\ Len(Notices) \in Nat /\ DOMAIN Notices = 1 .. Len(Notices)
    BY PageAssumptions DEF Cancellation!TypeOK, Cancellation!BoundsAssumption
  <2>2. /\ hour' = hour + 1 /\ hour' \in DOMAIN Notices
        /\ UNCHANGED <<stay, sagas, revived, stayPage, dialog, cancelCall, cancelFaults>>
    BY <1>1, <2>1 DEF Cancellation!Tick, Cancellation!world
  <2>3. 1 .. hour \subseteq 1 .. hour'
    BY <2>1, <2>2
  <2>4. PreviewShown'
    BY <2>2, <2>3 DEF PreviewShown, Cancellation!PreviewRefund
  <2>5. Cancellation!TypeOK'
    BY <2>2 DEF Cancellation!TypeOK, Cancellation!Mounted
  <2> QED
    BY <2>2, <2>4, <2>5 DEF DialogWaits
<1>2. ASSUME NEW row \in Cancellation!Row, stay' = row,
             row.refund >= 0 <=> row.status = "Cancelled",
             sagas' \subseteq {"Confirmed", "Expired"}, revived' \in BOOLEAN,
             UNCHANGED <<hour, stayPage, dialog, cancelCall, cancelFaults>>
      PROVE  CancelInv'
  <2>1. PreviewShown'
    BY <1>2, StaysShown
  <2>2. Cancellation!TypeOK'
    BY <1>2 DEF Cancellation!TypeOK, Cancellation!Mounted
  <2> QED
    BY <1>2, <2>1, <2>2 DEF DialogWaits
<1>3. ASSUME NEW status \in {"Confirmed", "Expired"}, Cancellation!SagaReads(status)
      PROVE  CancelInv'
  <2>1. /\ UNCHANGED <<stay, revived, hour, stayPage, dialog, cancelCall, cancelFaults>>
        /\ sagas' = sagas \cup {status}
    BY <1>3 DEF Cancellation!SagaReads
  <2>2. /\ stay \in Cancellation!Row /\ (stay.refund >= 0 <=> stay.status = "Cancelled")
        /\ sagas' \subseteq {"Confirmed", "Expired"} /\ revived' \in BOOLEAN
    BY <2>1 DEF Cancellation!TypeOK
  <2> QED
    BY <1>2, <2>1, <2>2
<1>4. ASSUME NEW status \in {"Confirmed", "Expired"}, Cancellation!SagaSaves(status)
      PROVE  CancelInv'
  <2>1. /\ UNCHANGED <<hour, stayPage, dialog, cancelCall, cancelFaults>>
        /\ stay' = [status |-> status, refund |-> -1] /\ sagas' = sagas \ {status}
        /\ revived' = (revived \/ stay.status = "Cancelled")
    BY <1>4 DEF Cancellation!SagaSaves
  <2>2. /\ stay' \in Cancellation!Row /\ (stay'.refund >= 0 <=> stay'.status = "Cancelled")
        /\ sagas' \subseteq {"Confirmed", "Expired"} /\ revived' \in BOOLEAN
    BY <2>1 DEF Cancellation!TypeOK, Cancellation!Row, Cancellation!BookingStatus
  <2> QED
    BY <1>2, <2>1, <2>2
<1>5. CASE Cancellation!CancelledElsewhere
  <2>1. /\ UNCHANGED <<sagas, revived, hour, stayPage, dialog, cancelCall, cancelFaults>>
        /\ stay' = Cancellation!Cancelled
    BY <1>5 DEF Cancellation!CancelledElsewhere
  <2> QED
    BY <1>2, <2>1, GrantedRow DEF Cancellation!TypeOK
<1> QED
  BY <1>1, <1>3, <1>4, <1>5

LEMMA CancelOpens ==
  ASSUME CancelInv,
         Cancellation!HandleOpen \/ Cancellation!HandleClose \/ Cancellation!HandleConfirm
  PROVE  CancelInv'
<1> USE DEF CancelInv
<1>0. dialog \in Cancellation!Dialog /\ cancelCall \in CancelCall
  BY DEF Cancellation!TypeOK
<1>1. CASE Cancellation!HandleOpen
  <2> DEFINE preview == Cancellation!PreviewRefund(stayPage.row.status, Notices[hour])
  <2>1. Cancellation!Mounted /\ ~dialog.open
    BY <1>1 DEF Cancellation!HandleOpen
  <2>2. preview.allowed \in BOOLEAN /\ preview.refund \in 0 .. Price
    <3>1. Price \in Nat /\ Price \div 2 \in 0 .. Price
      BY PageAssumptions DEF Cancellation!BoundsAssumption
    <3> QED
      BY <3>1 DEF Cancellation!PreviewRefund, Cancellation!AllowedWith, Cancellation!Refused
  <2>3. /\ dialog' = [dialog EXCEPT !.open = TRUE, !.error = FALSE,
                        !.allowed = preview.allowed, !.refund = preview.refund]
        /\ UNCHANGED <<stay, sagas, revived, hour, stayPage, cancelCall, cancelFaults>>
    BY <1>1 DEF Cancellation!HandleOpen, Cancellation!Notice, Cancellation!world
  <2> HIDE DEF preview
  <2>4. /\ dialog' \in Cancellation!Dialog /\ dialog'.open
        /\ dialog'.allowed = preview.allowed /\ dialog'.refund = preview.refund
        /\ dialog'.submitting = dialog.submitting
    BY <1>0, <2>2, <2>3 DEF Cancellation!Dialog
  <2>5. hour \in 1 .. hour
    BY PageAssumptions DEF Cancellation!TypeOK, Cancellation!BoundsAssumption
  <2>6. PreviewShown'
    BY <2>3, <2>4, <2>5 DEF preview, PreviewShown, Cancellation!PreviewRefund
  <2>7. DialogWaits'
    BY <2>1, <2>3, <2>4 DEF DialogWaits
  <2>8. Cancellation!TypeOK'
    BY <2>1, <2>3, <2>4 DEF Cancellation!TypeOK, Cancellation!Mounted
  <2> QED
    BY <2>3, <2>6, <2>7, <2>8
<1>2. CASE Cancellation!HandleClose
  <2>1. /\ UNCHANGED <<stay, sagas, revived, hour, stayPage, cancelCall, cancelFaults>>
        /\ dialog' = [dialog EXCEPT !.open = FALSE] /\ ~dialog.submitting
    BY <1>2 DEF Cancellation!HandleClose, Cancellation!world
  <2>2. dialog' \in Cancellation!Dialog /\ ~dialog'.open
    BY <1>0, <2>1 DEF Cancellation!Dialog
  <2>3. cancelCall.pc = "idle" /\ ~stayPage.refreshing
    BY <2>1 DEF DialogWaits
  <2>4. PreviewShown'
    BY <2>2 DEF PreviewShown
  <2> QED
    BY <2>1, <2>2, <2>3, <2>4 DEF Cancellation!TypeOK, Cancellation!Mounted, DialogWaits
<1>3. CASE Cancellation!HandleConfirm
  <2>1. /\ UNCHANGED <<stay, sagas, revived, hour, stayPage, cancelFaults>>
        /\ dialog.open /\ dialog.allowed /\ ~dialog.submitting
        /\ dialog' = [dialog EXCEPT !.submitting = TRUE, !.error = FALSE]
        /\ cancelCall' = [pc |-> "sent", status |-> 0, granted |-> FALSE]
        /\ Cancellation!Mounted
    BY <1>3 DEF Cancellation!HandleConfirm, Cancellation!NoCall, Cancellation!world
  <2>2. /\ dialog' \in Cancellation!Dialog /\ dialog'.open /\ dialog'.submitting
        /\ dialog'.allowed = dialog.allowed /\ dialog'.refund = dialog.refund
    BY <1>0, <2>1 DEF Cancellation!Dialog
  <2>3. cancelCall' \in CancelCall /\ cancelCall'.pc = "sent" /\ cancelCall'.status = 0
    BY <2>1 DEF CancelCall
  <2>4. Cancellation!TypeOK'
    BY <2>1, <2>2, <2>3 DEF Cancellation!TypeOK, Cancellation!Mounted
  <2>5. PreviewShown'
    BY <2>1, <2>2, StaysShown
  <2>6. DialogWaits'
    BY <2>1, <2>2, <2>3 DEF DialogWaits
  <2> QED
    BY <2>3, <2>4, <2>5, <2>6
<1> QED
  BY <1>1, <1>2, <1>3

LEMMA CancelServed ==
  ASSUME CancelInv, Cancellation!ServeCancel \/ Cancellation!CancelFails
  PROVE  CancelInv'
<1> USE DEF CancelInv
<1>1. CASE Cancellation!ServeCancel
  <2> DEFINE outcome == Cancellation!Outcome
             status == Cancellation!CancelRoute(Cancellation!StatusForBooking(
                         IF outcome.allowed THEN "none" ELSE "InvalidBookingState"))
  <2>1. status \in {200, 409}
    BY CancelStatuses
  <2>2. /\ cancelCall' = [pc |-> "answered", granted |-> outcome.allowed, status |-> status]
        /\ stay' = IF outcome.allowed THEN Cancellation!Cancelled ELSE stay
        /\ UNCHANGED <<sagas, revived, hour, stayPage, dialog, cancelFaults>>
        /\ cancelCall.pc = "sent"
    BY <1>1 DEF Cancellation!ServeCancel
  <2>3. outcome.allowed \in BOOLEAN
    BY GrantedRow
  <2> HIDE DEF outcome, status
  <2>4. cancelCall' \in CancelCall /\ cancelCall'.pc = "answered"
    BY <2>1, <2>2, <2>3 DEF CancelCall
  <2>5. stay' \in Cancellation!Row /\ (stay'.refund >= 0 <=> stay'.status = "Cancelled")
    BY <2>2, GrantedRow DEF Cancellation!TypeOK
  <2>6. Cancellation!TypeOK'
    BY <2>2, <2>4, <2>5 DEF Cancellation!TypeOK, Cancellation!Mounted
  <2>7. PreviewShown'
    BY <2>2, StaysShown
  <2> QED
    BY <2>2, <2>4, <2>6, <2>7 DEF DialogWaits
<1>2. CASE Cancellation!CancelFails
  <2>1. PICK status \in {0} \cup {Cancellation!CancelRoute(s) : s \in {0, 401, 404, 500}} :
          cancelCall' = [cancelCall EXCEPT !.pc = "answered", !.status = status]
    BY <1>2 DEF Cancellation!CancelFails
  <2>2. status \in {0, 401, 404, 500, 502}
    BY <2>1, CancelStatuses
  <2>3. /\ cancelCall' \in CancelCall /\ cancelCall'.pc = "answered"
        /\ cancelCall'.status = status
    <3>1. status \in Nat /\ cancelCall \in CancelCall
      BY <2>2
    <3> QED
      BY <2>1, <3>1 DEF CancelCall
  <2>4. /\ UNCHANGED <<stay, sagas, revived, hour, stayPage, dialog>>
        /\ cancelCall.pc # "idle"
        /\ cancelFaults' = cancelFaults + 1 /\ cancelFaults < MaxFaults
    BY <1>2, ZenonT(40) DEF Cancellation!CancelFails, Cancellation!world
  <2>5. cancelFaults' \in 0 .. MaxFaults
    <3>1. MaxFaults \in Nat
      BY PageAssumptions DEF Cancellation!BoundsAssumption
    <3>2. cancelFaults \in 0 .. MaxFaults
      BY DEF Cancellation!TypeOK
    <3> QED
      BY <2>4, <3>1, <3>2
  <2>6. Cancellation!TypeOK'
    BY <2>3, <2>4, <2>5 DEF Cancellation!TypeOK, Cancellation!Mounted
  <2>7. PreviewShown'
    BY <2>4, StaysShown
  <2> QED
    BY <2>3, <2>4, <2>6, <2>7 DEF DialogWaits
<1> QED
  BY <1>1, <1>2

LEMMA CancelSettles ==
  ASSUME CancelInv,
         \/ Cancellation!SettleCancel \/ Cancellation!Refreshed
         \/ Cancellation!RefreshFails \/ Cancellation!Reload
  PROVE  CancelInv'
<1> USE DEF CancelInv
<1>1. /\ Cancellation!NoDialog \in Cancellation!Dialog /\ ~Cancellation!NoDialog.open
      /\ Cancellation!NoCall.pc = "idle" /\ Cancellation!NoCall \in CancelCall
  BY PageAssumptions DEF Cancellation!NoDialog, Cancellation!Dialog, Cancellation!NoCall,
     Cancellation!BoundsAssumption, CancelCall
<1>2. ASSUME UNCHANGED <<stay, sagas, revived, hour>>, cancelFaults' \in 0 .. MaxFaults,
             cancelCall' \in CancelCall, cancelCall'.pc = "idle",
             dialog' \in Cancellation!Dialog, dialog'.open => Cancellation!Mounted',
             stayPage' \in Cancellation!Page,
             stayPage'.refreshing => dialog'.submitting, PreviewShown'
      PROVE  CancelInv'
  BY <1>2 DEF Cancellation!TypeOK, CancelCall, DialogWaits
<1>3. CASE Cancellation!SettleCancel
  <2>1. /\ cancelCall' = Cancellation!NoCall /\ cancelCall.pc = "answered"
        /\ UNCHANGED <<stay, sagas, revived, hour, cancelFaults>>
    BY <1>3 DEF Cancellation!SettleCancel, Cancellation!world
  <2>2. cancelFaults' \in 0 .. MaxFaults /\ dialog.submitting /\ ~stayPage.refreshing
    BY <2>1 DEF Cancellation!TypeOK, DialogWaits
  <2>3. CASE /\ dialog' = [dialog EXCEPT !.open = FALSE]
             /\ stayPage' = [stayPage EXCEPT !.refreshing = TRUE]
    <3>1. dialog' \in Cancellation!Dialog /\ ~dialog'.open /\ dialog'.submitting
      BY <2>2, <2>3 DEF Cancellation!TypeOK, Cancellation!Dialog
    <3>2. stayPage' \in Cancellation!Page
      BY <2>3 DEF Cancellation!TypeOK, Cancellation!Page
    <3> QED
      BY <1>1, <1>2, <2>1, <2>2, <3>1, <3>2 DEF PreviewShown
  <2>4. CASE stayPage' = [stayPage EXCEPT !.at = "login"] /\ dialog' = Cancellation!NoDialog
    <3>1. stayPage' \in Cancellation!Page /\ stayPage'.refreshing = stayPage.refreshing
      BY <2>4 DEF Cancellation!TypeOK, Cancellation!Page
    <3> QED
      BY <1>1, <1>2, <2>1, <2>2, <2>4, <3>1 DEF PreviewShown
  <2>5. CASE dialog' = Cancellation!Failed(dialog) /\ UNCHANGED stayPage
    <3>1. /\ dialog' \in Cancellation!Dialog /\ dialog'.open = dialog.open
          /\ dialog'.allowed = dialog.allowed /\ dialog'.refund = dialog.refund
      BY <2>5 DEF Cancellation!TypeOK, Cancellation!Dialog, Cancellation!Failed
    <3>2. PreviewShown'
      BY <2>1, <2>5, <3>1, StaysShown
    <3> QED
      BY <1>1, <1>2, <2>1, <2>2, <2>5, <3>1, <3>2 DEF Cancellation!TypeOK,
         Cancellation!Mounted
  <2> QED
    BY <1>3, <2>3, <2>4, <2>5 DEF Cancellation!SettleCancel
<1>4. CASE Cancellation!Refreshed
  <2>1. /\ stayPage' = [stayPage EXCEPT !.row = stay, !.refreshing = FALSE]
        /\ stayPage.refreshing
        /\ UNCHANGED <<stay, sagas, revived, hour, cancelCall, cancelFaults>>
        /\ \/ dialog' = dialog /\ Cancellation!Mounted'
           \/ dialog' = Cancellation!NoDialog
    BY <1>4 DEF Cancellation!Refreshed, Cancellation!world
  <2>2. dialog.submitting /\ cancelCall.pc = "idle"
    BY <2>1 DEF DialogWaits, CancelCall
  <2>3. stayPage' \in Cancellation!Page /\ ~stayPage'.refreshing
    BY <2>1 DEF Cancellation!TypeOK, Cancellation!Page
  <2>4. PreviewShown'
    BY <1>1, <2>1, <2>2 DEF PreviewShown
  <2>5. /\ dialog' \in Cancellation!Dialog /\ (dialog'.open => Cancellation!Mounted')
        /\ cancelFaults' \in 0 .. MaxFaults
    BY <1>1, <2>1 DEF Cancellation!TypeOK
  <2> QED
    BY <1>2, <2>1, <2>2, <2>3, <2>4, <2>5
<1>5. CASE Cancellation!RefreshFails
  <2>1. /\ UNCHANGED <<stay, sagas, revived, hour, cancelCall>> /\ stayPage.refreshing
        /\ cancelFaults < MaxFaults /\ cancelFaults' = cancelFaults + 1
        /\ dialog' = Cancellation!NoDialog
    BY <1>5, ZenonT(40) DEF Cancellation!RefreshFails, Cancellation!world
  <2>2. PICK at \in {"error", "login"} :
          stayPage' = [stayPage EXCEPT !.at = at, !.refreshing = FALSE]
    BY <1>5 DEF Cancellation!RefreshFails
  <2>3. stayPage' \in Cancellation!Page /\ ~stayPage'.refreshing
    BY <2>2 DEF Cancellation!TypeOK, Cancellation!Page
  <2>4. cancelFaults' \in 0 .. MaxFaults
    BY <2>1, PageAssumptions DEF Cancellation!TypeOK, Cancellation!BoundsAssumption
  <2>5. cancelCall.pc = "idle"
    BY <2>1 DEF DialogWaits, CancelCall
  <2> QED
    BY <1>1, <1>2, <2>1, <2>3, <2>4, <2>5 DEF PreviewShown
<1>6. CASE Cancellation!Reload
  <2>1. /\ stayPage' = [at |-> "booking", row |-> stay, refreshing |-> FALSE]
        /\ dialog' = Cancellation!NoDialog /\ cancelCall.pc = "idle"
        /\ UNCHANGED <<stay, sagas, revived, hour, cancelCall, cancelFaults>>
    BY <1>6 DEF Cancellation!Reload, Cancellation!world
  <2> QED
    BY <1>1, <1>2, <2>1 DEF Cancellation!TypeOK, Cancellation!Page, PreviewShown
<1> QED
  BY <1>3, <1>4, <1>5, <1>6

LEMMA CancelStep == CancelInv /\ [Cancellation!Next]_(Cancellation!vars) => CancelInv'
<1> SUFFICES ASSUME CancelInv, [Cancellation!Next]_(Cancellation!vars) PROVE CancelInv'
  OBVIOUS
<1>1. CASE UNCHANGED Cancellation!vars
  BY <1>1, StaysShown DEF Cancellation!vars, CancelInv, Cancellation!TypeOK,
     Cancellation!Mounted, DialogWaits, Cancellation!world
<1> QED
  BY <1>1, CancelWorld, CancelOpens, CancelServed, CancelSettles DEF Cancellation!Next

(* What is granted is at most what the dialog shows: the notice only gets
   shorter, and the status the dialog was opened for is the booking's. *)
LEMMA GrantedAsShown ==
  ASSUME CancelInv, Cancellation!ServeCancel, stay'.status = "Cancelled", stay' # stay,
         stayPage.row.status = stay.status
  PROVE  /\ stay'.refund <= dialog.refund
         /\ stay'.refund < dialog.refund =>
              dialog.refund = Price /\ Notices[hour] < Cancellation!FullRefundNotice
<1>1. Cancellation!Outcome.allowed /\ stay'.refund = Cancellation!Outcome.refund
  BY DEF Cancellation!ServeCancel, Cancellation!Cancelled
<1>2. stay.status \in {"PendingPayment", "Confirmed"}
  BY <1>1, GrantedRow
<1>3. dialog.open /\ dialog.allowed
  BY <1>2 DEF CancelInv, DialogWaits, Cancellation!ServeCancel
<1>4. PICK n \in 1 .. hour :
        LET preview == Cancellation!PreviewRefund(stayPage.row.status, Notices[n])
        IN  dialog.allowed = preview.allowed /\ dialog.refund = preview.refund
  BY <1>3 DEF CancelInv, PreviewShown, Cancellation!ServeCancel
<1>5. Notices[hour] \in Int /\ Notices[n] \in Int /\ Notices[hour] <= Notices[n]
  BY PageAssumptions DEF CancelInv, Cancellation!TypeOK, Cancellation!BoundsAssumption
<1>6. Price \in Nat /\ Price \div 2 \in 0 .. Price
  BY PageAssumptions DEF Cancellation!BoundsAssumption
<1> DEFINE shown == Cancellation!Evaluate(stay.status, Notices[n], Price)
           granted == Cancellation!Evaluate(stay.status, Notices[hour], Price)
<1>7. shown.allowed /\ dialog.refund = shown.refund
  BY <1>2, <1>3, <1>4, <1>5, PreviewIsPolicy
<1>8. granted.allowed /\ stay'.refund = granted.refund
  BY <1>1 DEF Cancellation!Outcome, Cancellation!Notice
<1> USE DEF Cancellation!Evaluate, Cancellation!FullRefundNotice,
            Cancellation!HalfRefundNotice, Cancellation!Refused, Cancellation!AllowedWith
<1>9. CASE stay.status = "PendingPayment"
  <2>1. granted.refund = 0 /\ shown.refund = 0
    BY <1>9
  <2> QED
    BY <1>7, <1>8, <2>1
<1>10. CASE stay.status = "Confirmed"
  <2>1. Notices[n] >= 48 /\ Notices[hour] >= 48
    BY <1>5, <1>7, <1>8, <1>10
  <2>2. shown.refund = IF Notices[n] >= 168 THEN Price ELSE Price \div 2
    BY <1>5, <1>10, <2>1
  <2>3. granted.refund = IF Notices[hour] >= 168 THEN Price ELSE Price \div 2
    BY <1>5, <1>10, <2>1
  <2> HIDE DEF shown, granted
  <2> QED
    BY <1>5, <1>6, <1>7, <1>8, <2>2, <2>3
<1> QED
  BY <1>2, <1>9, <1>10

(* RefundAsPromised: what the dialog shows when it opens is what the policy
   grants at that moment, and a booking that was not paid for since is
   cancelled for that, or for less if a tier has passed since: for every
   sequence of notices, every price and any number of failed calls. *)
THEOREM RefundsAsPromised == Spec => RefundAsPromised
<1> DEFINE Mirrors == ~dialog.open /\ dialog'.open =>
             [allowed |-> dialog'.allowed, refund |-> dialog'.refund]
               = Cancellation!Evaluate(stayPage.row.status, Cancellation!Notice, Price)
           Promised == cancelCall.pc = "sent" /\ stay'.status = "Cancelled"
                         /\ stay' # stay /\ cancelCall'.pc = "answered"
                         /\ stayPage.row.status = stay.status
             => /\ stay'.refund <= dialog.refund
                /\ stay'.refund < dialog.refund =>
                     dialog.refund = Price
                       /\ Cancellation!Notice < Cancellation!FullRefundNotice
<1>1. CancelInv /\ [Cancellation!Next]_(Cancellation!vars)
        => [Mirrors]_(Cancellation!vars) /\ [Promised]_(Cancellation!vars)
  <2> SUFFICES ASSUME CancelInv, Cancellation!Next, ~UNCHANGED Cancellation!vars
               PROVE  Mirrors /\ Promised
    OBVIOUS
  <2>1. Mirrors
    <3> SUFFICES ASSUME ~dialog.open, dialog'.open PROVE Mirrors
      OBVIOUS
    <3>1. dialog \in Cancellation!Dialog
      BY DEF CancelInv, Cancellation!TypeOK
    <3>2. ~Cancellation!NoDialog.open /\ ~[dialog EXCEPT !.open = FALSE].open
          /\ ~Cancellation!Failed(dialog).open
      BY <3>1 DEF Cancellation!NoDialog, Cancellation!Failed, Cancellation!Dialog
    <3>3. Cancellation!HandleOpen
      BY <3>2 DEF Cancellation!Next, Cancellation!Tick, Cancellation!SagaReads,
         Cancellation!SagaSaves, Cancellation!CancelledElsewhere, Cancellation!HandleClose,
         Cancellation!HandleConfirm, Cancellation!ServeCancel, Cancellation!CancelFails,
         Cancellation!SettleCancel, Cancellation!Refreshed,
         Cancellation!RefreshFails, Cancellation!Reload
    <3> DEFINE shown == Cancellation!PreviewRefund(stayPage.row.status, Cancellation!Notice)
    <3>4. dialog' = [dialog EXCEPT !.open = TRUE, !.error = FALSE,
                       !.allowed = shown.allowed, !.refund = shown.refund]
      BY <3>3 DEF Cancellation!HandleOpen
    <3>5. stayPage.row.status \in {"PendingPayment", "Confirmed"} /\ Cancellation!Notice \in Int
      BY <3>3, PageAssumptions DEF Cancellation!HandleOpen, Cancellation!Mounted, CancelInv,
         Cancellation!TypeOK, Cancellation!Notice, Cancellation!BoundsAssumption
    <3>6. shown = Cancellation!Evaluate(stayPage.row.status, Cancellation!Notice, Price)
      BY <3>5, PreviewIsPolicy
    <3>7. shown = [allowed |-> shown.allowed, refund |-> shown.refund]
      BY DEF Cancellation!PreviewRefund, Cancellation!AllowedWith, Cancellation!Refused
    <3> HIDE DEF shown
    <3>8. dialog'.allowed = shown.allowed /\ dialog'.refund = shown.refund
      BY <3>1, <3>4 DEF Cancellation!Dialog
    <3> QED
      BY <3>6, <3>7, <3>8
  <2>2. Promised
    <3> SUFFICES ASSUME cancelCall.pc = "sent", stay'.status = "Cancelled", stay' # stay,
                        cancelCall'.pc = "answered", stayPage.row.status = stay.status
                 PROVE  Promised
      OBVIOUS
    <3>1. cancelCall' # cancelCall
      OBVIOUS
    <3>2. Cancellation!ServeCancel
      BY <3>1 DEF Cancellation!Next, Cancellation!Tick, Cancellation!SagaReads,
         Cancellation!SagaSaves, Cancellation!CancelledElsewhere, Cancellation!HandleOpen,
         Cancellation!HandleClose, Cancellation!HandleConfirm, Cancellation!CancelFails,
         Cancellation!SettleCancel, Cancellation!Refreshed,
         Cancellation!RefreshFails, Cancellation!Reload, Cancellation!world
    <3> QED
      BY <3>2, GrantedAsShown DEF Cancellation!Notice
  <2> QED
    BY <2>1, <2>2
<1>2. Init => CancelInv
  BY InitOfPages, CancelInit
<1>3. CancelInv /\ [Next]_vars => CancelInv'
  BY StepOfPages, CancelStep
<1>4. [Next]_vars => [Cancellation!Next]_(Cancellation!vars)
  BY StepOfPages
<1>5. [][Mirrors]_(Cancellation!vars) => Cancellation!PreviewMirrorsPolicy
  BY DEF Cancellation!PreviewMirrorsPolicy
<1>6. [][Promised]_(Cancellation!vars) => Cancellation!RefundAsPromised
  BY DEF Cancellation!RefundAsPromised
<1> HIDE DEF Mirrors, Promised
<1> QED
  BY <1>1, <1>2, <1>3, <1>4, <1>5, <1>6, PTL DEF Spec, RefundAsPromised
-----------------------------------------------------------------------------
(* The availability page of a host. *)

(* A slot without a call is empty; a call to add a block has its range; the
   list a call has loaded, changed and answers with has every id once. *)
CallShaped(c) ==
  /\ c \in Availability!Call
  /\ c.op = "none" \/ c.pc = "none" => c = Availability!NoCall
  /\ c.op = "add" => c.range \in Range
  /\ \A a, b \in c.list : a.id = b.id => a = b

CallsShaped == \A s \in Slot : CallShaped(blockCalls[s])

ConsoleInv == Availability!TypeOK /\ CallsShaped /\ Availability!FlagsMatchCalls

LEMMA NoCallShaped ==
  /\ CallShaped(Availability!NoCall)
  /\ Availability!NoCall.op = "none" /\ Availability!NoCall.pc = "none"
  BY DEF CallShaped, Availability!NoCall, Availability!Call, Availability!Status

LEMMA ConsoleInit == Availability!Init => ConsoleInv
<1> SUFFICES ASSUME Availability!Init PROVE ConsoleInv
  OBVIOUS
<1>1. /\ blockRows \subseteq Availability!Block
      /\ \A b, c \in blockRows : b.id = c.id => b = c
  BY PageAssumptions DEF Availability!Init, Availability!StandingAssumption, Availability!Block
<1>2. manager \in Availability!Page /\ ~manager.adding /\ manager.removingId = None
  BY <1>1 DEF Availability!Init, Availability!Loaded, Availability!Page
<1>3. /\ blockCalls \in [Slot -> Availability!Call] /\ CallsShaped
      /\ \A s \in Slot : blockCalls[s] = Availability!NoCall
  BY NoCallShaped DEF Availability!Init, CallsShaped, CallShaped
<1>4. Availability!TypeOK
  BY <1>1, <1>2, <1>3, PageAssumptions DEF Availability!Init, Availability!TypeOK,
     Availability!FaultsAssumption
<1>5. Availability!FlagsMatchCalls
  BY <1>2, <1>3, NoCallShaped DEF Availability!FlagsMatchCalls, Availability!Under
<1> QED
  BY <1>3, <1>4, <1>5 DEF ConsoleInv

(* A step of the API replaces a call by one of its kind. *)
LEMMA CallOfItsKind ==
  ASSUME ConsoleInv, NEW s \in Slot, NEW c, CallShaped(c),
         blockCalls[s].op # "none", c.op = blockCalls[s].op,
         blockCalls' = [blockCalls EXCEPT ![s] = c], manager' = manager
  PROVE  /\ CallsShaped' /\ Availability!FlagsMatchCalls'
         /\ blockCalls' \in [Slot -> Availability!Call]
<1>1. /\ blockCalls' \in [Slot -> Availability!Call]
      /\ \A t \in Slot : blockCalls'[t] = IF t = s THEN c ELSE blockCalls[t]
  BY DEF ConsoleInv, Availability!TypeOK, CallShaped
<1>2. CallsShaped'
  BY <1>1 DEF ConsoleInv, CallsShaped
<1>3. \A t \in Slot : /\ blockCalls'[t].op = blockCalls[t].op
                     /\ blockCalls'[t] = Availability!NoCall
                          <=> blockCalls[t] = Availability!NoCall
  BY <1>1, NoCallShaped
<1>4. /\ Availability!Under("add")' = Availability!Under("add")
      /\ Availability!Under("remove")' = Availability!Under("remove")
  BY <1>3 DEF Availability!Under
<1>5. ASSUME manager.at = "manager", NEW t \in Slot, NEW u \in Slot,
             blockCalls'[t].op = blockCalls'[u].op, blockCalls'[t] # Availability!NoCall
      PROVE  t = u
  BY <1>3, <1>5 DEF ConsoleInv, Availability!FlagsMatchCalls
<1>6. Availability!FlagsMatchCalls'
  <2> SUFFICES ASSUME manager.at = "manager"
               PROVE  /\ manager.adding <=> Availability!Under("add")' # {}
                      /\ manager.removingId # None <=> Availability!Under("remove")' # {}
                      /\ \A t, u \in Slot :
                           blockCalls'[t].op = blockCalls'[u].op
                             /\ blockCalls'[t] # Availability!NoCall => t = u
    BY DEF Availability!FlagsMatchCalls, Availability!NoCall
  <2> QED
    BY <1>4, <1>5 DEF ConsoleInv, Availability!FlagsMatchCalls
<1> QED
  BY <1>1, <1>2, <1>6

LEMMA StatusesOfConsole ==
  /\ Availability!StatusFor("OverlappingBlock") \in Availability!Status
  /\ Availability!StatusFor("BlockNotFound") \in Availability!Status
  BY DEF Availability!StatusFor, Availability!Status

(* What a call can become: it is answered, or it has loaded a list. *)
LEMMA CallGoesOn ==
  ASSUME NEW c, CallShaped(c), c.op # "none",
         NEW list \in SUBSET Availability!Block,
         \A a, b \in list : a.id = b.id => a = b
  PROVE  /\ \A status \in Availability!Status :
              LET d == Availability!Answered(c, status, list)
              IN  CallShaped(d) /\ d.op = c.op
         /\ \A id \in BlockId :
              LET d == [c EXCEPT !.pc = "save", !.id = id, !.list = list]
              IN  CallShaped(d) /\ d.op = c.op
         /\ LET d == [c EXCEPT !.pc = "save", !.list = list]
            IN  CallShaped(d) /\ d.op = c.op
         /\ LET d == [c EXCEPT !.pc = "answered", !.lost = TRUE]
            IN  CallShaped(d) /\ d.op = c.op
  BY DEF CallShaped, Availability!Call, Availability!Answered

LEMMA ConsoleLoad ==
  ASSUME ConsoleInv, NEW s \in Slot, Availability!Load(s)
  PROVE  ConsoleInv'
<1>1. /\ blockCalls[s].pc = "sent" /\ CallShaped(blockCalls[s])
      /\ UNCHANGED <<blockRows, signedIn, manager, blockFaults>>
  BY DEF Availability!Load, ConsoleInv, CallsShaped
<1>2. blockCalls[s].op # "none" /\ blockCalls[s].op \in {"add", "remove"}
  BY <1>1, NoCallShaped DEF CallShaped, Availability!Call
<1>3. /\ blockRows \subseteq Availability!Block
      /\ \A b, c \in blockRows : b.id = c.id => b = c
  BY DEF ConsoleInv, Availability!TypeOK
<1>4. SUFFICES \E c : /\ CallShaped(c) /\ c.op = blockCalls[s].op
                      /\ blockCalls' = [blockCalls EXCEPT ![s] = c]
  BY <1>1, <1>2, CallOfItsKind DEF ConsoleInv, Availability!TypeOK
<1>5. CASE \E status \in Availability!Status :
             blockCalls' = [blockCalls EXCEPT ![s] =
                              Availability!Answered(blockCalls[s], status, {})]
  BY <1>1, <1>2, <1>5, CallGoesOn
<1>6. CASE /\ blockCalls[s].op = "add"
           /\ \E id \in Availability!Unused :
                blockCalls' = [blockCalls EXCEPT ![s] =
                  [blockCalls[s] EXCEPT !.pc = "save", !.id = id,
                     !.list = blockRows \cup {[id |-> id, range |-> blockCalls[s].range]}]]
  <2>1. PICK id \in Availability!Unused :
          blockCalls' = [blockCalls EXCEPT ![s] =
            [blockCalls[s] EXCEPT !.pc = "save", !.id = id,
               !.list = blockRows \cup {[id |-> id, range |-> blockCalls[s].range]}]]
    BY <1>6
  <2>2. id \in BlockId /\ \A b \in blockRows : b.id # id
    BY DEF Availability!Unused
  <2> DEFINE list == blockRows \cup {[id |-> id, range |-> blockCalls[s].range]}
  <2>3. list \in SUBSET Availability!Block
    BY <1>1, <1>3, <1>6, <2>2 DEF CallShaped, Availability!Block
  <2>4. \A a, b \in list : a.id = b.id => a = b
    BY <1>3, <2>2
  <2> HIDE DEF list
  <2>5. LET d == [blockCalls[s] EXCEPT !.pc = "save", !.id = id, !.list = list]
        IN  CallShaped(d) /\ d.op = blockCalls[s].op
    BY <1>1, <1>2, <2>2, <2>3, <2>4, CallGoesOn
  <2> QED
    BY <2>1, <2>5 DEF list
<1>7. CASE \E id : blockCalls' = [blockCalls EXCEPT ![s] =
                [blockCalls[s] EXCEPT !.pc = "save", !.list = {b \in blockRows : b.id # id}]]
  <2>1. PICK id : blockCalls' = [blockCalls EXCEPT ![s] =
                [blockCalls[s] EXCEPT !.pc = "save", !.list = {b \in blockRows : b.id # id}]]
    BY <1>7
  <2> DEFINE list == {b \in blockRows : b.id # id}
  <2>2. list \in SUBSET Availability!Block /\ \A a, b \in list : a.id = b.id => a = b
    BY <1>3
  <2> HIDE DEF list
  <2>3. LET d == [blockCalls[s] EXCEPT !.pc = "save", !.list = list]
        IN  CallShaped(d) /\ d.op = blockCalls[s].op
    BY <1>1, <1>2, <2>2, CallGoesOn
  <2> QED
    BY <2>1, <2>3 DEF list
<1>8. 401 \in Availability!Status /\ 500 \in Availability!Status
  BY DEF Availability!Status
<1>9. CASE /\ blockCalls[s].op = "remove"
           /\ \E b \in blockRows : b.id = blockCalls[s].id
           /\ blockCalls' = [blockCalls EXCEPT ![s] = [blockCalls[s] EXCEPT !.pc = "save",
                !.list = {b \in blockRows : b.id # blockCalls[s].id}]]
  BY <1>7, <1>9
<1>10. \/ \E status \in Availability!Status :
             blockCalls' = [blockCalls EXCEPT ![s] =
                              Availability!Answered(blockCalls[s], status, {})]
       \/ /\ blockCalls[s].op = "add"
          /\ \E id \in Availability!Unused :
               blockCalls' = [blockCalls EXCEPT ![s] =
                 [blockCalls[s] EXCEPT !.pc = "save", !.id = id,
                    !.list = blockRows \cup {[id |-> id, range |-> blockCalls[s].range]}]]
       \/ /\ blockCalls[s].op = "remove"
          /\ \E b \in blockRows : b.id = blockCalls[s].id
          /\ blockCalls' = [blockCalls EXCEPT ![s] = [blockCalls[s] EXCEPT !.pc = "save",
               !.list = {b \in blockRows : b.id # blockCalls[s].id}]]
  BY <1>8, StatusesOfConsole, ZenonT(40) DEF Availability!Load
<1> QED
  BY <1>5, <1>6, <1>9, <1>10, Zenon

LEMMA ConsoleSave ==
  ASSUME ConsoleInv, NEW s \in Slot, Availability!Save(s)
  PROVE  ConsoleInv'
<1> DEFINE c == blockCalls[s]
           created == IF c.op = "add" THEN 201 ELSE 200
<1>1. /\ c.pc = "save" /\ CallShaped(c) /\ blockRows' = c.list
      /\ blockCalls' = [blockCalls EXCEPT ![s] =
                          Availability!Answered(c, created, c.list)]
      /\ UNCHANGED <<signedIn, manager, blockFaults>>
  BY DEF Availability!Save, ConsoleInv, CallsShaped
<1>2. c.op # "none" /\ created \in Availability!Status
  BY <1>1, NoCallShaped DEF CallShaped, Availability!Status
<1>3. c.list \in SUBSET Availability!Block /\ \A a, b \in c.list : a.id = b.id => a = b
  BY <1>1 DEF CallShaped, Availability!Call
<1> HIDE DEF c, created
<1>4. LET d == Availability!Answered(c, created, c.list)
      IN  CallShaped(d) /\ d.op = c.op
  BY <1>1, <1>2, <1>3, CallGoesOn
<1>5. /\ CallsShaped' /\ Availability!FlagsMatchCalls'
      /\ blockCalls' \in [Slot -> Availability!Call]
  BY <1>1, <1>2, <1>4, CallOfItsKind DEF c
<1> QED
  BY <1>1, <1>3, <1>5 DEF ConsoleInv, Availability!TypeOK

LEMMA ConsoleFault ==
  ASSUME ConsoleInv, NEW s \in Slot, Availability!Fault(s)
  PROVE  ConsoleInv'
<1>1. /\ blockCalls[s].pc # "none" /\ CallShaped(blockCalls[s])
      /\ UNCHANGED <<blockRows, signedIn, manager>>
      /\ blockFaults < MaxFaults /\ blockFaults' = blockFaults + 1
  BY DEF Availability!Fault, ConsoleInv, CallsShaped
<1>2. blockCalls[s].op # "none"
  BY <1>1, NoCallShaped DEF CallShaped
<1>3. blockFaults' \in 0 .. MaxFaults
  BY <1>1, PageAssumptions DEF ConsoleInv, Availability!TypeOK, Availability!FaultsAssumption
<1>4. SUFFICES \E c : /\ CallShaped(c) /\ c.op = blockCalls[s].op
                      /\ blockCalls' = [blockCalls EXCEPT ![s] = c]
  BY <1>1, <1>2, <1>3, CallOfItsKind DEF ConsoleInv, Availability!TypeOK
<1>5. CASE \E status \in Availability!Status :
             blockCalls' = [blockCalls EXCEPT ![s] =
                              Availability!Answered(blockCalls[s], status, {})]
  BY <1>1, <1>2, <1>5, CallGoesOn
<1>6. CASE blockCalls' = [blockCalls EXCEPT ![s] =
                            [blockCalls[s] EXCEPT !.pc = "answered", !.lost = TRUE]]
  <2>1. {} \in SUBSET Availability!Block
    OBVIOUS
  <2>2. LET d == [blockCalls[s] EXCEPT !.pc = "answered", !.lost = TRUE]
        IN  CallShaped(d) /\ d.op = blockCalls[s].op
    BY <1>1, <1>2, <2>1, CallGoesOn
  <2> QED
    BY <1>6, <2>2
<1>7. CASE blockCalls' = [blockCalls EXCEPT ![s].pc = "answered", ![s].lost = TRUE]
  <2>1. blockCalls' = [blockCalls EXCEPT ![s] =
                         [blockCalls[s] EXCEPT !.pc = "answered", !.lost = TRUE]]
    BY <1>7 DEF ConsoleInv, Availability!TypeOK
  <2> QED
    BY <1>6, <2>1
<1>8. {500, 0} \subseteq Availability!Status
  BY DEF Availability!Status
<1> QED
  BY <1>5, <1>7, <1>8 DEF Availability!Fault

(* The host: a click takes a slot that is empty, for a button at rest. *)
LEMMA CallSent ==
  ASSUME ConsoleInv, NEW s \in Slot, NEW c, CallShaped(c), c.op \in {"add", "remove"},
         Availability!Send(s, c), manager.at = "manager", Availability!Under(c.op) = {},
         manager'.at = "manager",
         c.op = "add" => manager'.adding /\ manager'.removingId = manager.removingId,
         c.op = "remove" => manager'.removingId # None /\ manager'.adding = manager.adding
  PROVE  /\ CallsShaped' /\ Availability!FlagsMatchCalls'
         /\ blockCalls' \in [Slot -> Availability!Call]
<1>1. /\ blockCalls' \in [Slot -> Availability!Call]
      /\ \A t \in Slot : blockCalls'[t] = IF t = s THEN c ELSE blockCalls[t]
      /\ blockCalls[s] = Availability!NoCall
  BY DEF ConsoleInv, Availability!TypeOK, CallShaped, Availability!Send
<1>2. CallsShaped'
  BY <1>1 DEF ConsoleInv, CallsShaped
<1>3. \A t \in Slot : blockCalls[t].op # c.op
  BY DEF Availability!Under
<1>4. /\ Availability!Under(c.op)' = {s}
      /\ \A op \in {"add", "remove"} \ {c.op} :
           Availability!Under(op)' = Availability!Under(op)
  BY <1>1, <1>3, NoCallShaped DEF Availability!Under
<1>5. ASSUME NEW t \in Slot, NEW u \in Slot, blockCalls'[t].op = blockCalls'[u].op,
             blockCalls'[t] # Availability!NoCall
      PROVE  t = u
  <2>1. CASE t = s \/ u = s
    BY <1>1, <1>3, <1>5, <2>1
  <2>2. CASE t # s /\ u # s
    BY <1>1, <1>5, <2>2 DEF ConsoleInv, Availability!FlagsMatchCalls
  <2> QED
    BY <2>1, <2>2
<1>6. /\ manager'.adding <=> Availability!Under("add")' # {}
      /\ manager'.removingId # None <=> Availability!Under("remove")' # {}
  <2>1. CASE c.op = "add"
    BY <1>4, <2>1 DEF ConsoleInv, Availability!FlagsMatchCalls
  <2>2. CASE c.op = "remove"
    BY <1>4, <2>2 DEF ConsoleInv, Availability!FlagsMatchCalls
  <2> QED
    BY <2>1, <2>2
<1>7. Availability!FlagsMatchCalls'
  BY <1>5, <1>6 DEF Availability!FlagsMatchCalls, Availability!NoCall
<1> QED
  BY <1>1, <1>2, <1>7

LEMMA ConsoleClick ==
  ASSUME ConsoleInv, NEW s \in Slot,
         \/ Availability!HandleAdd(s)
         \/ \E b \in Availability!Block : Availability!HandleRemove(s, b)
  PROVE  ConsoleInv'
<1>0. manager \in Availability!Page
  BY DEF ConsoleInv, Availability!TypeOK
<1>1. CASE Availability!HandleAdd(s)
  <2> DEFINE c == [Availability!NoCall EXCEPT !.op = "add", !.pc = "sent",
                                              !.range = manager.range]
  <2>1. /\ manager.at = "manager" /\ manager.range # None /\ ~manager.adding
        /\ manager' = [manager EXCEPT !.adding = TRUE, !.error = "none"]
        /\ Availability!Send(s, c) /\ UNCHANGED <<blockRows, signedIn, blockFaults>>
    BY <1>1 DEF Availability!HandleAdd, Availability!CanAdd
  <2>2. /\ manager' \in Availability!Page /\ manager'.at = "manager"
        /\ manager'.adding /\ manager'.removingId = manager.removingId
    BY <1>0, <2>1 DEF Availability!Page
  <2>3. CallShaped(c) /\ c.op = "add"
    <3>1. manager.range \in Range
      BY <1>0, <2>1 DEF Availability!Page
    <3> QED
      BY <3>1 DEF CallShaped, Availability!NoCall, Availability!Call, Availability!Status
  <2>4. Availability!Under("add") = {}
    BY <2>1 DEF ConsoleInv, Availability!FlagsMatchCalls
  <2> HIDE DEF c
  <2>5. /\ CallsShaped' /\ Availability!FlagsMatchCalls'
        /\ blockCalls' \in [Slot -> Availability!Call]
    BY <2>1, <2>2, <2>3, <2>4, CallSent
  <2> QED
    BY <2>1, <2>2, <2>5 DEF ConsoleInv, Availability!TypeOK
<1>2. CASE \E b \in Availability!Block : Availability!HandleRemove(s, b)
  <2> PICK b \in Availability!Block : Availability!HandleRemove(s, b)
    BY <1>2
  <2> DEFINE c == [Availability!NoCall EXCEPT !.op = "remove", !.pc = "sent", !.id = b.id]
  <2>1. /\ manager.at = "manager" /\ manager.removingId = None
        /\ manager' = [manager EXCEPT !.removingId = b.id, !.error = "none"]
        /\ Availability!Send(s, c) /\ UNCHANGED <<blockRows, signedIn, blockFaults>>
    BY DEF Availability!HandleRemove, Availability!CanRemove
  <2>2. b.id \in BlockId /\ b.id # None
    BY PageAssumptions DEF Availability!Block, Availability!NoneAssumption
  <2>3. /\ manager' \in Availability!Page /\ manager'.at = "manager"
        /\ manager'.removingId # None /\ manager'.adding = manager.adding
    BY <1>0, <2>1, <2>2 DEF Availability!Page
  <2>4. CallShaped(c) /\ c.op = "remove"
    BY <2>2 DEF CallShaped, Availability!NoCall, Availability!Call, Availability!Status
  <2>5. Availability!Under("remove") = {}
    BY <2>1 DEF ConsoleInv, Availability!FlagsMatchCalls
  <2> HIDE DEF c
  <2>6. /\ CallsShaped' /\ Availability!FlagsMatchCalls'
        /\ blockCalls' \in [Slot -> Availability!Call]
    BY <2>1, <2>3, <2>4, <2>5, CallSent
  <2> QED
    BY <2>1, <2>3, <2>6 DEF ConsoleInv, Availability!TypeOK
<1> QED
  BY <1>1, <1>2

(* What the page makes of an answer. *)
LEMMA AddSettles ==
  ASSUME NEW p \in Availability!Page, NEW status, NEW list \in SUBSET Availability!Block
  PROVE  LET q == Availability!AddSettled(p, status, list)
         IN  /\ q \in Availability!Page
             /\ q.at = "manager" => ~q.adding /\ q.removingId = p.removingId
<1> DEFINE Good(q) == /\ q \in Availability!Page
                      /\ q.at = "manager" => ~q.adding /\ q.removingId = p.removingId
<1>1. Good([p EXCEPT !.at = "login"])
  BY DEF Availability!Page
<1>2. \A error \in {"overlap", "network", "refused"} :
        Good([p EXCEPT !.error = error, !.adding = FALSE])
  BY DEF Availability!Page
<1>3. Good([p EXCEPT !.blocks = list, !.range = None, !.adding = FALSE])
  BY DEF Availability!Page
<1>4. Availability!AddSettled(p, status, list) \in
        {[p EXCEPT !.at = "login"],
         [p EXCEPT !.blocks = list, !.range = None, !.adding = FALSE]}
        \cup {[p EXCEPT !.error = error, !.adding = FALSE] :
                error \in {"overlap", "network", "refused"}}
  BY DEF Availability!AddSettled
<1> HIDE DEF Good
<1>5. Good(Availability!AddSettled(p, status, list))
  BY <1>1, <1>2, <1>3, <1>4
<1> QED
  BY <1>5 DEF Good

LEMMA RemoveSettles ==
  ASSUME NEW p \in Availability!Page, NEW status, NEW list \in SUBSET Availability!Block
  PROVE  LET q == Availability!RemoveSettled(p, status, list)
         IN  /\ q \in Availability!Page
             /\ q.at = "manager" => q.removingId = None /\ q.adding = p.adding
<1> DEFINE Good(q) == /\ q \in Availability!Page
                      /\ q.at = "manager" => q.removingId = None /\ q.adding = p.adding
<1>1. Good([p EXCEPT !.at = "login"])
  BY DEF Availability!Page
<1>2. \A error \in {"network", "refused"} :
        Good([p EXCEPT !.error = error, !.removingId = None])
  BY DEF Availability!Page
<1>3. Good([p EXCEPT !.blocks = list, !.removingId = None])
  BY DEF Availability!Page
<1>4. Availability!RemoveSettled(p, status, list) \in
        {[p EXCEPT !.at = "login"], [p EXCEPT !.blocks = list, !.removingId = None]}
        \cup {[p EXCEPT !.error = error, !.removingId = None] :
                error \in {"network", "refused"}}
  BY DEF Availability!RemoveSettled
<1> HIDE DEF Good
<1>5. Good(Availability!RemoveSettled(p, status, list))
  BY <1>1, <1>2, <1>3, <1>4
<1> QED
  BY <1>5 DEF Good

(* An answer frees its slot and its button, or the page is left. *)
LEMMA ConsoleSettle ==
  ASSUME ConsoleInv, NEW s \in Slot, Availability!Settle(s)
  PROVE  ConsoleInv'
<1> PICK c : c = blockCalls[s]
  OBVIOUS
<1> PICK status : status = Availability!Relayed(c)
  OBVIOUS
<1>1. /\ c.pc = "answered" /\ manager.at = "manager" /\ CallShaped(c)
      /\ blockCalls' = [blockCalls EXCEPT ![s] = Availability!NoCall]
      /\ UNCHANGED <<blockRows, signedIn, blockFaults>>
      /\ manager' = IF c.op = "add" THEN Availability!AddSettled(manager, status, c.list)
                                    ELSE Availability!RemoveSettled(manager, status, c.list)
  BY DEF Availability!Settle, ConsoleInv, CallsShaped
<1>2. /\ c.op \in {"add", "remove"} /\ c # Availability!NoCall
      /\ c.list \in SUBSET Availability!Block /\ manager \in Availability!Page
  BY <1>1, NoCallShaped DEF CallShaped, Availability!Call, ConsoleInv, Availability!TypeOK
<1>3. c.op = "add" =>
        /\ manager' \in Availability!Page
        /\ manager'.at = "manager" =>
             ~manager'.adding /\ manager'.removingId = manager.removingId
  BY <1>1, <1>2, AddSettles
<1>4. c.op = "remove" =>
        /\ manager' \in Availability!Page
        /\ manager'.at = "manager" =>
             manager'.removingId = None /\ manager'.adding = manager.adding
  BY <1>1, <1>2, RemoveSettles
<1>5. /\ blockCalls' \in [Slot -> Availability!Call]
      /\ \A t \in Slot : blockCalls'[t] = IF t = s THEN Availability!NoCall ELSE blockCalls[t]
  BY <1>1, NoCallShaped DEF ConsoleInv, Availability!TypeOK, CallShaped
<1>6. CallsShaped'
  BY <1>5, NoCallShaped DEF ConsoleInv, CallsShaped
<1>7. \A t \in Slot : t # s /\ blockCalls[t] # Availability!NoCall => blockCalls[t].op # c.op
  BY <1>1, <1>2 DEF ConsoleInv, Availability!FlagsMatchCalls
<1>8. /\ Availability!Under(c.op)' = {}
      /\ \A op \in {"add", "remove"} \ {c.op} :
           Availability!Under(op)' = Availability!Under(op)
  BY <1>2, <1>5, <1>7, NoCallShaped DEF Availability!Under
<1>9. Availability!FlagsMatchCalls'
  <2> SUFFICES ASSUME manager'.at = "manager"
               PROVE  /\ manager'.adding <=> Availability!Under("add")' # {}
                      /\ manager'.removingId # None <=> Availability!Under("remove")' # {}
                      /\ \A t, u \in Slot :
                           blockCalls'[t].op = blockCalls'[u].op
                             /\ blockCalls'[t] # Availability!NoCall => t = u
    BY DEF Availability!FlagsMatchCalls, Availability!NoCall
  <2>1. ASSUME NEW t \in Slot, NEW u \in Slot, blockCalls'[t].op = blockCalls'[u].op,
               blockCalls'[t] # Availability!NoCall
        PROVE  t = u
    <3>1. t # s /\ blockCalls'[t] = blockCalls[t]
      BY <1>5, <2>1
    <3>2. blockCalls[t].op # "none"
      BY <2>1, <3>1 DEF ConsoleInv, CallsShaped, CallShaped
    <3>3. u # s /\ blockCalls'[u] = blockCalls[u]
      BY <1>5, <2>1, <3>1, <3>2, NoCallShaped
    <3> QED
      BY <1>1, <2>1, <3>1, <3>3 DEF ConsoleInv, Availability!FlagsMatchCalls
  <2>2. /\ manager.adding <=> Availability!Under("add") # {}
        /\ manager.removingId # None <=> Availability!Under("remove") # {}
    BY <1>1 DEF ConsoleInv, Availability!FlagsMatchCalls
  <2>3. CASE c.op = "add"
    BY <1>3, <1>8, <2>1, <2>2, <2>3
  <2>4. CASE c.op = "remove"
    BY <1>4, <1>8, <2>1, <2>2, <2>4
  <2> QED
    BY <1>2, <2>3, <2>4
<1>10. manager' \in Availability!Page
  BY <1>2, <1>3, <1>4
<1> QED
  BY <1>1, <1>5, <1>6, <1>9, <1>10 DEF ConsoleInv, Availability!TypeOK

LEMMA ConsoleRest ==
  ASSUME ConsoleInv,
         \/ \E r \in Range : Availability!PickRange(r)
         \/ Availability!SessionExpires \/ Availability!SignIn
  PROVE  ConsoleInv'
<1>1. CASE \E r \in Range : Availability!PickRange(r)
  <2> PICK r \in Range : Availability!PickRange(r)
    BY <1>1
  <2>1. /\ manager' = [manager EXCEPT !.range = r] /\ manager \in Availability!Page
        /\ UNCHANGED <<blockRows, signedIn, blockCalls, blockFaults>>
    BY DEF Availability!PickRange, ConsoleInv, Availability!TypeOK
  <2>2. /\ manager' \in Availability!Page /\ manager'.at = manager.at
        /\ manager'.adding = manager.adding /\ manager'.removingId = manager.removingId
    BY <2>1 DEF Availability!Page
  <2> QED
    BY <2>1, <2>2 DEF ConsoleInv, Availability!TypeOK, CallsShaped,
       Availability!FlagsMatchCalls, Availability!Under, Availability!NoCall
<1>2. CASE Availability!SessionExpires
  BY <1>2 DEF Availability!SessionExpires, ConsoleInv, Availability!TypeOK, CallsShaped,
     Availability!FlagsMatchCalls, Availability!Under, Availability!NoCall
<1>3. CASE Availability!SignIn
  <2>1. /\ signedIn' = TRUE /\ manager' = Availability!Loaded(blockRows)
        /\ blockCalls' = [s \in Slot |-> Availability!NoCall]
        /\ UNCHANGED <<blockRows, blockFaults>>
    BY <1>3 DEF Availability!SignIn
  <2>2. manager' \in Availability!Page /\ ~manager'.adding /\ manager'.removingId = None
    BY <2>1 DEF Availability!Loaded, Availability!Page, ConsoleInv, Availability!TypeOK
  <2>3. /\ blockCalls' \in [Slot -> Availability!Call] /\ CallsShaped'
        /\ \A s \in Slot : blockCalls'[s] = Availability!NoCall
    BY <2>1, NoCallShaped DEF CallsShaped, CallShaped
  <2>4. Availability!FlagsMatchCalls'
    BY <2>2, <2>3, NoCallShaped DEF Availability!FlagsMatchCalls, Availability!Under,
       Availability!NoCall
  <2> QED
    BY <2>1, <2>2, <2>3, <2>4 DEF ConsoleInv, Availability!TypeOK
<1> QED
  BY <1>1, <1>2, <1>3

LEMMA ConsoleStep == ConsoleInv /\ [Availability!Next]_(Availability!vars) => ConsoleInv'
<1> SUFFICES ASSUME ConsoleInv, [Availability!Next]_(Availability!vars) PROVE ConsoleInv'
  OBVIOUS
<1>1. CASE UNCHANGED Availability!vars
  BY <1>1 DEF Availability!vars, ConsoleInv, Availability!TypeOK, CallsShaped,
     Availability!FlagsMatchCalls, Availability!Under, Availability!NoCall
<1>2. CASE Availability!Rest
  BY <1>1, <1>2 DEF Availability!Rest
<1> QED
  BY <1>1, <1>2, ConsoleClick, ConsoleLoad, ConsoleSave, ConsoleFault, ConsoleSettle,
     ConsoleRest DEF Availability!Next
-----------------------------------------------------------------------------
(* The dashboard of a host, and the form. *)

(* A call comes from the page it will be answered on. *)
CallFromPage ==
  /\ hostCall.op = "none" => hostCall = Dashboard!NoCall
  /\ hostCall.op \in {"publish", "unpublish"} => hostCall.listing \in Card
  /\ hostCall.op \in {"create", "update"} => dashboard.at \in {"editor", "leaving"}
  /\ hostCall.op = "create" => dashboard.listing = None
  /\ hostCall.op = "update" => /\ hostCall.listing = dashboard.listing
                               /\ hostCall.listing \in Card
                               /\ hostCall.touched \subseteq dashboard.touched

(* What has not been touched is in the form, and in the body under way, what
   it is in the table. *)
FormAsStored ==
  /\ dashboard.at \in {"editor", "leaving"} /\ dashboard.listing # None =>
       \A field \in Dashboard!Field \ dashboard.touched :
         dashboard.form[field] = listingRows[dashboard.listing].detail[field]
  /\ hostCall.op = "update" =>
       \A field \in Dashboard!Field \ hostCall.touched :
         hostCall.body[field] = listingRows[hostCall.listing].detail[field]

DashboardInv ==
  /\ Dashboard!TypeOK /\ Dashboard!CardsAreTable /\ CallFromPage /\ FormAsStored

LEMMA NoHostCall ==
  /\ Dashboard!NoCall \in Dashboard!Call /\ Dashboard!NoCall.op = "none"
  /\ Dashboard!NoCall.pc = "none" /\ Dashboard!BLANK \in Dashboard!Detail
  BY PageAssumptions DEF Dashboard!NoCall, Dashboard!Call, Dashboard!BLANK,
     Dashboard!Detail, Dashboard!TextAssumption

LEMMA FreshDashboard ==
  ASSUME NEW rows \in [Card -> Dashboard!Row]
  PROVE  LET d == Dashboard!Dashboard(rows)
         IN  d \in Dashboard!Tab /\ d.at = "dashboard" /\ d.cards = rows
  BY NoHostCall DEF Dashboard!Dashboard, Dashboard!Tab

LEMMA DashboardInit == Dashboard!Init => DashboardInv
<1> SUFFICES ASSUME Dashboard!Init PROVE DashboardInv
  OBVIOUS
<1>1. listingRows \in [Card -> Dashboard!Row]
  BY NoHostCall DEF Dashboard!Init, Dashboard!Absent, Dashboard!Row
<1>2. /\ dashboard \in Dashboard!Tab /\ dashboard.at = "dashboard"
      /\ dashboard.cards = listingRows
  BY <1>1, FreshDashboard DEF Dashboard!Init
<1>3. hostCall = Dashboard!NoCall /\ hostFaults \in 0 .. MaxFaults
  BY PageAssumptions DEF Dashboard!Init, Dashboard!FaultsAssumption
<1> QED
  BY <1>1, <1>2, <1>3, NoHostCall DEF DashboardInv, Dashboard!TypeOK,
     Dashboard!CardsAreTable, CallFromPage, FormAsStored

(* Steps that leave the table and the call alone, without a call. *)
LEMMA TabTurns ==
  ASSUME DashboardInv, UNCHANGED <<listingRows, hostCall, hostFaults>>,
         dashboard' \in Dashboard!Tab,
         \/ dashboard'.at = "dashboard" /\ dashboard'.cards = listingRows
              /\ dashboard.at \notin {"editor", "leaving"}
         \/ dashboard'.at = "dashboard" /\ dashboard'.cards = listingRows
              /\ hostCall = Dashboard!NoCall
         \/ /\ dashboard'.at = "editor" /\ hostCall = Dashboard!NoCall
            /\ dashboard'.listing # None =>
                 dashboard'.form = listingRows[dashboard'.listing].detail
  PROVE  DashboardInv'
<1>1. Dashboard!TypeOK'
  BY DEF DashboardInv, Dashboard!TypeOK
<1>2. Dashboard!CardsAreTable'
  BY DEF Dashboard!CardsAreTable
<1>3. hostCall = Dashboard!NoCall \/ hostCall.op \notin {"create", "update"}
  BY DEF DashboardInv, CallFromPage
<1>4. hostCall.op \notin {"create", "update"}
  BY <1>3, NoHostCall
<1>5. CallFromPage'
  BY <1>4 DEF DashboardInv, CallFromPage, Dashboard!NoCall, Dashboard!BLANK
<1>6. FormAsStored'
  BY <1>4 DEF FormAsStored
<1> QED
  BY <1>1, <1>2, <1>5, <1>6 DEF DashboardInv

LEMMA DashboardTurns ==
  ASSUME DashboardInv,
         Dashboard!Browse \/ Dashboard!Navigated \/ Dashboard!GiveUp \/ Dashboard!Refreshed
  PROVE  DashboardInv'
<1>0. dashboard \in Dashboard!Tab /\ listingRows \in [Card -> Dashboard!Row]
  BY DEF DashboardInv, Dashboard!TypeOK
<1>1. CASE Dashboard!Navigated \/ Dashboard!GiveUp
  <2>1. /\ hostCall = Dashboard!NoCall /\ dashboard' = Dashboard!Dashboard(listingRows)
        /\ UNCHANGED <<listingRows, hostCall, hostFaults>>
    BY <1>1 DEF Dashboard!Navigated, Dashboard!GiveUp
  <2> QED
    BY <1>0, <2>1, FreshDashboard, TabTurns
<1>2. CASE Dashboard!Refreshed
  <2>1. /\ dashboard.at = "dashboard"
        /\ dashboard' = [dashboard EXCEPT !.cards = listingRows, !.refreshing = FALSE]
        /\ UNCHANGED <<listingRows, hostCall, hostFaults>>
    BY <1>2 DEF Dashboard!Refreshed
  <2>2. /\ dashboard' \in Dashboard!Tab /\ dashboard'.at = "dashboard"
        /\ dashboard'.cards = listingRows
    BY <1>0, <2>1 DEF Dashboard!Tab
  <2> QED
    BY <2>1, <2>2, TabTurns
<1>3. CASE \E l \in Card : Dashboard!OpenEditor(l)
  <2> PICK l \in Card : Dashboard!OpenEditor(l)
    BY <1>3
  <2> DEFINE stored == listingRows[l].detail
  <2>1. /\ hostCall = Dashboard!NoCall
        /\ dashboard' = [dashboard EXCEPT !.at = "editor", !.listing = l, !.touched = {},
                            !.form = stored, !.error = "none"]
        /\ UNCHANGED <<listingRows, hostCall, hostFaults>>
    BY DEF Dashboard!OpenEditor, Dashboard!Prefilled
  <2>2. stored \in Dashboard!Detail
    BY <1>0 DEF Dashboard!Row
  <2> HIDE DEF stored
  <2>3. /\ dashboard' \in Dashboard!Tab /\ dashboard'.at = "editor"
        /\ dashboard'.listing = l /\ dashboard'.form = stored
    BY <1>0, <2>1, <2>2 DEF Dashboard!Tab
  <2> QED
    BY <2>1, <2>3, TabTurns DEF stored
<1>4. CASE Dashboard!OpenNew
  <2>1. /\ hostCall = Dashboard!NoCall
        /\ dashboard' = [dashboard EXCEPT !.at = "editor", !.listing = None,
                            !.form = Dashboard!BLANK, !.touched = {}, !.error = "none"]
        /\ UNCHANGED <<listingRows, hostCall, hostFaults>>
    BY <1>4 DEF Dashboard!OpenNew
  <2>2. /\ dashboard' \in Dashboard!Tab /\ dashboard'.at = "editor"
        /\ dashboard'.listing = None
    BY <1>0, <2>1, NoHostCall DEF Dashboard!Tab
  <2> QED
    BY <2>1, <2>2, TabTurns
<1> QED
  BY <1>1, <1>2, <1>3, <1>4 DEF Dashboard!Browse

(* A field is typed in. *)
LEMMA DashboardType ==
  ASSUME DashboardInv, NEW field \in Dashboard!Field, NEW text \in Text,
         Dashboard!Type(field, text)
  PROVE  DashboardInv'
<1>0. dashboard \in Dashboard!Tab
  BY DEF DashboardInv, Dashboard!TypeOK
<1>1. /\ dashboard.at = "editor" /\ UNCHANGED <<listingRows, hostCall, hostFaults>>
      /\ dashboard' = [dashboard EXCEPT !.form[field] = text,
                                        !.touched = dashboard.touched \cup {field}]
  BY DEF Dashboard!Type
<1>2. dashboard.form \in Dashboard!Detail
  BY <1>0 DEF Dashboard!Tab
<1> PICK form : form = [dashboard.form EXCEPT ![field] = text]
  OBVIOUS
<1>3. /\ form \in Dashboard!Detail
      /\ \A other \in Dashboard!Field \ {field} : form[other] = dashboard.form[other]
  BY <1>2 DEF Dashboard!Detail, Dashboard!Field
<1> PICK touched : touched = dashboard.touched \cup {field}
  OBVIOUS
<1>4. /\ dashboard' = [dashboard EXCEPT !.form = form, !.touched = touched]
      /\ touched \in SUBSET Dashboard!Field
  BY <1>0, <1>1 DEF Dashboard!Tab
<1>5. /\ dashboard' \in Dashboard!Tab /\ dashboard'.at = "editor"
      /\ dashboard'.listing = dashboard.listing /\ dashboard'.form = form
      /\ dashboard'.touched = touched
  BY <1>0, <1>1, <1>3, <1>4 DEF Dashboard!Tab
<1>6. Dashboard!TypeOK' /\ Dashboard!CardsAreTable'
  BY <1>1, <1>5 DEF DashboardInv, Dashboard!TypeOK, Dashboard!CardsAreTable
<1>7. CallFromPage'
  BY <1>1, <1>5 DEF DashboardInv, CallFromPage, Dashboard!NoCall, Dashboard!BLANK
<1>8. FormAsStored'
  BY <1>1, <1>3, <1>5 DEF DashboardInv, FormAsStored, Dashboard!Field
<1> QED
  BY <1>6, <1>7, <1>8 DEF DashboardInv

(* A call keeps its type, field by field. *)
CallStatus == {0, 200, 201, 401, 409, 500}

AnsweredAs(c, d) ==
  /\ d \in Dashboard!Call /\ d.pc = "answered" /\ d.op = c.op
  /\ d.listing = c.listing /\ d.body = c.body /\ d.touched = c.touched

LEMMA CallReplaced ==
  ASSUME NEW c \in Dashboard!Call, NEW status \in CallStatus
  PROVE  /\ AnsweredAs(c, [c EXCEPT !.pc = "answered", !.lost = TRUE])
         /\ AnsweredAs(c, [c EXCEPT !.pc = "answered", !.status = status])
<1>1. Dashboard!Call =
        [op : {"publish", "unpublish", "create", "update", "none"},
         pc : {"none", "sent", "answered"},
         listing : Card \cup {None}, body : Dashboard!Detail,
         touched : SUBSET Dashboard!Field, status : CallStatus, lost : BOOLEAN]
  BY DEF Dashboard!Call, CallStatus
<1>2. AnsweredAs(c, [c EXCEPT !.pc = "answered", !.lost = TRUE])
  <2>1. [c EXCEPT !.pc = "answered", !.lost = TRUE] \in Dashboard!Call
    BY <1>1
  <2> QED
    BY <2>1 DEF Dashboard!Call, AnsweredAs
<1>3. AnsweredAs(c, [c EXCEPT !.pc = "answered", !.status = status])
  <2>1. [c EXCEPT !.pc = "answered", !.status = status] \in Dashboard!Call
    BY <1>1
  <2> QED
    BY <2>1 DEF Dashboard!Call, AnsweredAs
<1> QED
  BY <1>2, <1>3

(* The call that sends a form. *)
FormCall(d, op, listing, body, touched) ==
  /\ d \in Dashboard!Call /\ d.op = op /\ d.listing = listing
  /\ d.body = body /\ d.touched = touched

LEMMA FormSent ==
  ASSUME NEW op \in {"create", "update"}, NEW listing \in Card \cup {None},
         NEW body \in Dashboard!Detail, NEW touched \in SUBSET Dashboard!Field
  PROVE  FormCall([Dashboard!NoCall EXCEPT !.op = op, !.pc = "sent", !.listing = listing,
                                           !.body = body, !.touched = touched],
                  op, listing, body, touched)
<1>1. Dashboard!Call =
        [op : {"publish", "unpublish", "create", "update", "none"},
         pc : {"none", "sent", "answered"},
         listing : Card \cup {None}, body : Dashboard!Detail,
         touched : SUBSET Dashboard!Field, status : CallStatus, lost : BOOLEAN]
  BY DEF Dashboard!Call, CallStatus
<1>2. Dashboard!NoCall \in Dashboard!Call
  BY NoHostCall
<1>3. op \in {"publish", "unpublish", "create", "update", "none"}
  OBVIOUS
<1>4. [Dashboard!NoCall EXCEPT !.op = op, !.pc = "sent", !.listing = listing,
                               !.body = body, !.touched = touched] \in Dashboard!Call
  BY <1>1, <1>2, <1>3
<1> QED
  BY <1>2, <1>4 DEF Dashboard!Call, FormCall

(* The host clicks on a card or sends the form. *)
LEMMA DashboardSends ==
  ASSUME DashboardInv,
         (\E l \in Card : Dashboard!ClickToggle(l)) \/ Dashboard!Submit
  PROVE  DashboardInv'
<1>0. dashboard \in Dashboard!Tab /\ Dashboard!NoCall \in Dashboard!Call
  BY NoHostCall DEF DashboardInv, Dashboard!TypeOK
<1>1. CASE \E l \in Card : Dashboard!ClickToggle(l)
  <2> PICK l \in Card : Dashboard!ClickToggle(l)
    BY <1>1
  <2> PICK op : op = Dashboard!Action(dashboard.cards[l])
    OBVIOUS
  <2> PICK busy : busy = dashboard.submitting \cup {l}
    OBVIOUS
  <2>1. /\ dashboard.at = "dashboard" /\ UNCHANGED <<listingRows, hostFaults>>
        /\ dashboard' = [dashboard EXCEPT !.submitting = busy, !.error = "none"]
        /\ hostCall' = [Dashboard!NoCall EXCEPT !.op = op, !.pc = "sent", !.listing = l]
    BY DEF Dashboard!ClickToggle
  <2>2. op \in {"publish", "unpublish"} /\ busy \in SUBSET Card
    BY <1>0 DEF Dashboard!Action, Dashboard!Tab
  <2>3. dashboard' \in Dashboard!Tab /\ dashboard'.at = "dashboard"
    BY <1>0, <2>1, <2>2 DEF Dashboard!Tab
  <2>4. /\ hostCall' \in Dashboard!Call /\ hostCall'.op = op /\ hostCall'.listing = l
        /\ hostCall'.pc = "sent"
    <3>1. Dashboard!BLANK \in Dashboard!Detail
      BY NoHostCall
    <3> QED
      BY <2>1, <2>2, <3>1, ZenonT(40) DEF Dashboard!NoCall, Dashboard!Call
  <2>5. hostCall' # Dashboard!NoCall
    BY <2>2, <2>4, NoHostCall
  <2>6. Dashboard!TypeOK' /\ Dashboard!CardsAreTable'
    BY <2>1, <2>3, <2>4, <2>5 DEF DashboardInv, Dashboard!TypeOK, Dashboard!CardsAreTable,
       Dashboard!NoCall, Dashboard!BLANK
  <2>7. CallFromPage' /\ FormAsStored'
    BY <2>2, <2>3, <2>4 DEF CallFromPage, FormAsStored
  <2> QED
    BY <2>6, <2>7 DEF DashboardInv
<1>2. CASE Dashboard!Submit
  <2> PICK op : op = IF dashboard.listing = None THEN "create" ELSE "update"
    OBVIOUS
  <2> PICK page : page = dashboard
    OBVIOUS
  <2>1. /\ page.at \in {"editor", "leaving"} /\ UNCHANGED <<listingRows, hostFaults>>
        /\ dashboard' = [page EXCEPT !.error = "none"]
        /\ hostCall' = [Dashboard!NoCall EXCEPT !.op = op, !.pc = "sent",
                           !.listing = page.listing, !.body = page.form,
                           !.touched = page.touched]
    BY <1>2 DEF Dashboard!Submit
  <2>2. /\ op \in {"create", "update"} /\ page.form \in Dashboard!Detail
        /\ page.touched \in SUBSET Dashboard!Field
        /\ page.listing \in Card \cup {None}
    BY <1>0 DEF Dashboard!Tab
  <2>3. /\ dashboard' \in Dashboard!Tab /\ dashboard'.at = page.at
        /\ dashboard'.listing = page.listing /\ dashboard'.form = page.form
        /\ dashboard'.touched = page.touched
    BY <1>0, <2>1 DEF Dashboard!Tab
  <2>4. /\ hostCall' \in Dashboard!Call /\ hostCall'.op = op
        /\ hostCall'.listing = page.listing /\ hostCall'.body = page.form
        /\ hostCall'.touched = page.touched
    <3> PICK listing, body, touched :
          listing = page.listing /\ body = page.form /\ touched = page.touched
      OBVIOUS
    <3>1. hostCall' = [Dashboard!NoCall EXCEPT !.op = op, !.pc = "sent",
                         !.listing = listing, !.body = body, !.touched = touched]
      BY <2>1
    <3>2. /\ op \in {"create", "update"} /\ listing \in Card \cup {None}
          /\ body \in Dashboard!Detail /\ touched \in SUBSET Dashboard!Field
      BY <2>2
    <3>3. FormCall([Dashboard!NoCall EXCEPT !.op = op, !.pc = "sent",
                      !.listing = listing, !.body = body, !.touched = touched],
                   op, listing, body, touched)
      BY <3>2, FormSent
    <3> QED
      BY <3>1, <3>3 DEF FormCall
  <2>5. Dashboard!TypeOK' /\ Dashboard!CardsAreTable'
    BY <2>1, <2>3, <2>4 DEF DashboardInv, Dashboard!TypeOK, Dashboard!CardsAreTable
  <2>6. CallFromPage'
    BY <2>1, <2>2, <2>3, <2>4 DEF CallFromPage
  <2>7. FormAsStored'
    BY <2>1, <2>2, <2>3, <2>4 DEF DashboardInv, FormAsStored
  <2> QED
    BY <2>5, <2>6, <2>7 DEF DashboardInv
<1> QED
  BY <1>1, <1>2

(* The server answers, or does not: the call stays the call it is. *)
LEMMA CallAnswered ==
  ASSUME DashboardInv, hostCall.op # "none", UNCHANGED dashboard,
         \/ \E status \in {0, 200, 201, 401, 409, 500} : Dashboard!Answer(status)
         \/ hostCall' = [hostCall EXCEPT !.pc = "answered", !.lost = TRUE]
  PROVE  /\ hostCall' \in Dashboard!Call /\ Dashboard!CardsAreTable' /\ CallFromPage'
         /\ hostCall'.op = hostCall.op /\ hostCall'.listing = hostCall.listing
         /\ hostCall'.body = hostCall.body /\ hostCall'.touched = hostCall.touched
<1>2. hostCall \in Dashboard!Call
  BY DEF DashboardInv, Dashboard!TypeOK
<1>3. AnsweredAs(hostCall, hostCall')
  <2>1. CASE hostCall' = [hostCall EXCEPT !.pc = "answered", !.lost = TRUE]
    <3>1. 0 \in CallStatus
      BY DEF CallStatus
    <3> QED
      BY <1>2, <2>1, <3>1, CallReplaced
  <2>2. CASE \E status \in CallStatus : Dashboard!Answer(status)
    <3>1. PICK status \in CallStatus :
            hostCall' = [hostCall EXCEPT !.pc = "answered", !.status = status]
      BY <2>2 DEF Dashboard!Answer
    <3> QED
      BY <1>2, <3>1, CallReplaced
  <2> QED
    BY <2>1, <2>2 DEF CallStatus
<1>4. hostCall' # Dashboard!NoCall
  BY <1>3, NoHostCall DEF AnsweredAs
<1>5. Dashboard!CardsAreTable'
  BY <1>4 DEF Dashboard!CardsAreTable, Dashboard!NoCall, Dashboard!BLANK
<1>6. CallFromPage'
  BY <1>3 DEF DashboardInv, CallFromPage, AnsweredAs
<1> QED
  BY <1>3, <1>5, <1>6 DEF AnsweredAs

LEMMA DashboardServed ==
  ASSUME DashboardInv, Dashboard!Serve \/ Dashboard!Fault
  PROVE  DashboardInv'
<1>0. /\ listingRows \in [Card -> Dashboard!Row] /\ hostCall \in Dashboard!Call
      /\ hostFaults \in 0 .. MaxFaults /\ dashboard \in Dashboard!Tab
  BY DEF DashboardInv, Dashboard!TypeOK
<1>1. ASSUME listingRows' \in [Card -> Dashboard!Row], hostCall.op # "none",
             UNCHANGED dashboard, hostFaults' \in 0 .. MaxFaults,
             \/ \E status \in {0, 200, 201, 401, 409, 500} : Dashboard!Answer(status)
             \/ hostCall' = [hostCall EXCEPT !.pc = "answered", !.lost = TRUE],
             dashboard.at \in {"editor", "leaving"} /\ dashboard.listing # None =>
               \A field \in Dashboard!Field \ dashboard.touched :
                 listingRows'[dashboard.listing].detail[field]
                   = listingRows[dashboard.listing].detail[field],
             hostCall.op = "update" =>
               \A field \in Dashboard!Field \ hostCall.touched :
                 listingRows'[hostCall.listing].detail[field]
                   = listingRows[hostCall.listing].detail[field]
      PROVE  DashboardInv'
  <2>1. /\ hostCall' \in Dashboard!Call /\ Dashboard!CardsAreTable' /\ CallFromPage'
        /\ hostCall'.op = hostCall.op /\ hostCall'.listing = hostCall.listing
        /\ hostCall'.body = hostCall.body /\ hostCall'.touched = hostCall.touched
    BY <1>1, CallAnswered
  <2>2. Dashboard!TypeOK'
    BY <1>0, <1>1, <2>1 DEF Dashboard!TypeOK
  <2>3. FormAsStored'
    BY <1>1, <2>1 DEF DashboardInv, FormAsStored
  <2> QED
    BY <2>1, <2>2, <2>3 DEF DashboardInv
<1>2. CASE Dashboard!ServeToggle
  <2> PICK target : target = IF hostCall.op = "publish" THEN "Published" ELSE "Unpublished"
    OBVIOUS
  <2>1. /\ hostCall.op \in {"publish", "unpublish"} /\ UNCHANGED <<dashboard, hostFaults>>
        /\ \/ Dashboard!Answer(409) /\ UNCHANGED listingRows
           \/ /\ listingRows' = [listingRows EXCEPT ![hostCall.listing].status = target]
              /\ Dashboard!Answer(200)
    BY <1>2 DEF Dashboard!ServeToggle, Dashboard!StatusFor
  <2>2. target \in {"Unpublished", "Published"} /\ hostCall.listing \in Card
    BY <2>1 DEF DashboardInv, CallFromPage
  <2>3. /\ listingRows' \in [Card -> Dashboard!Row]
        /\ \A l \in Card : listingRows'[l].detail = listingRows[l].detail
    BY <1>0, <2>1, <2>2 DEF Dashboard!Row
  <2>4. dashboard.listing \in Card \cup {None}
    BY <1>0 DEF Dashboard!Tab
  <2> QED
    BY <1>0, <1>1, <2>1, <2>3, <2>4
<1>3. CASE Dashboard!ServeUpdate
  <2>1. /\ hostCall.op = "update" /\ UNCHANGED <<dashboard, hostFaults>>
        /\ listingRows' = [listingRows EXCEPT ![hostCall.listing].detail = hostCall.body]
        /\ Dashboard!Answer(200)
    BY <1>3 DEF Dashboard!ServeUpdate
  <2>2. /\ hostCall.listing = dashboard.listing /\ hostCall.listing \in Card
        /\ hostCall.touched \subseteq dashboard.touched
        /\ hostCall.body \in Dashboard!Detail
    BY <1>0, <2>1 DEF DashboardInv, CallFromPage, Dashboard!Call
  <2>3. /\ listingRows' \in [Card -> Dashboard!Row]
        /\ listingRows'[hostCall.listing].detail = hostCall.body
    BY <1>0, <2>1, <2>2 DEF Dashboard!Row
  <2>4. \A field \in Dashboard!Field \ hostCall.touched :
          listingRows'[hostCall.listing].detail[field]
            = listingRows[hostCall.listing].detail[field]
    BY <2>1, <2>3 DEF DashboardInv, FormAsStored
  <2> QED
    BY <1>0, <1>1, <2>1, <2>2, <2>3, <2>4
<1>4. CASE Dashboard!ServeCreate
  <2>1. /\ hostCall.op = "create" /\ UNCHANGED <<dashboard, hostFaults>>
        /\ \/ /\ \E l \in Card : listingRows' = [listingRows EXCEPT ![l] =
                    [status |-> "Unpublished", detail |-> hostCall.body]]
              /\ Dashboard!Answer(201)
           \/ Dashboard!Answer(500) /\ UNCHANGED listingRows
    BY <1>4 DEF Dashboard!ServeCreate
  <2>2. dashboard.listing = None
    BY <2>1 DEF DashboardInv, CallFromPage
  <2>3. listingRows' \in [Card -> Dashboard!Row]
    <3>1. hostCall.body \in Dashboard!Detail
      BY <1>0 DEF Dashboard!Call
    <3> QED
      BY <1>0, <2>1, <3>1 DEF Dashboard!Row
  <2> QED
    BY <1>0, <1>1, <2>1, <2>2, <2>3
<1>5. CASE Dashboard!Fault
  <2>1. /\ hostCall # Dashboard!NoCall /\ UNCHANGED <<listingRows, dashboard>>
        /\ hostFaults < MaxFaults /\ hostFaults' = hostFaults + 1
        /\ \/ \E status \in {0, 401, 500} : Dashboard!Answer(status)
           \/ hostCall' = [hostCall EXCEPT !.pc = "answered", !.lost = TRUE]
    BY <1>5 DEF Dashboard!Fault
  <2>2. hostCall.op # "none"
    BY <2>1 DEF DashboardInv, CallFromPage
  <2>3. hostFaults' \in 0 .. MaxFaults
    BY <1>0, <2>1, PageAssumptions DEF Dashboard!FaultsAssumption
  <2> QED
    BY <1>0, <1>1, <2>1, <2>2, <2>3
<1> QED
  BY <1>2, <1>3, <1>4, <1>5 DEF Dashboard!Serve

(* What the tab makes of the answer: after a toggle it is rendered anew, shows
   an error or is left; after a form the dashboard is still a navigation away. *)
LEMMA ToggleSettles ==
  ASSUME NEW p \in Dashboard!Tab, NEW status, NEW l \in Card
  PROVE  LET q == Dashboard!ToggleSettled(p, l, status)
         IN  /\ q \in Dashboard!Tab /\ q.at \in {p.at, "login"}
             /\ q.refreshing \/ q.error # "none" \/ q.at = "login"
             /\ q.listing = p.listing /\ q.form = p.form /\ q.touched = p.touched
<1> PICK idle : idle = p.submitting \ {l}
  OBVIOUS
<1> DEFINE Good(q) == /\ q \in Dashboard!Tab /\ q.at \in {p.at, "login"}
                      /\ q.refreshing \/ q.error # "none" \/ q.at = "login"
                      /\ q.listing = p.listing /\ q.form = p.form /\ q.touched = p.touched
<1>0. idle \in SUBSET Card
  BY DEF Dashboard!Tab
<1>1. Good([p EXCEPT !.at = "login"])
  BY DEF Dashboard!Tab
<1>2. Good([p EXCEPT !.refreshing = TRUE, !.submitting = idle])
  BY <1>0 DEF Dashboard!Tab
<1>3. \A error \in {"network", "refused"} :
        Good([p EXCEPT !.error = error, !.submitting = idle])
  BY <1>0 DEF Dashboard!Tab
<1>4. Dashboard!ToggleSettled(p, l, status) \in
        {[p EXCEPT !.at = "login"], [p EXCEPT !.refreshing = TRUE, !.submitting = idle]}
        \cup {[p EXCEPT !.error = error, !.submitting = idle] :
                error \in {"network", "refused"}}
  BY DEF Dashboard!ToggleSettled
<1> HIDE DEF Good
<1>5. Good(Dashboard!ToggleSettled(p, l, status))
  BY <1>1, <1>2, <1>3, <1>4
<1> QED
  BY <1>5 DEF Good

LEMMA SubmitSettles ==
  ASSUME NEW p \in Dashboard!Tab, NEW status
  PROVE  LET q == Dashboard!SubmitSettled(p, status)
         IN  /\ q \in Dashboard!Tab /\ q.at \in {p.at, "login", "leaving"}
             /\ q.listing = p.listing /\ q.form = p.form /\ q.touched = p.touched
<1> DEFINE Good(q) == /\ q \in Dashboard!Tab /\ q.at \in {p.at, "login", "leaving"}
                      /\ q.listing = p.listing /\ q.form = p.form /\ q.touched = p.touched
<1>1. \A at \in {"login", "leaving"} : Good([p EXCEPT !.at = at])
  BY DEF Dashboard!Tab
<1>2. \A error \in {"network", "refused"} : Good([p EXCEPT !.error = error])
  BY DEF Dashboard!Tab
<1>3. Dashboard!SubmitSettled(p, status) \in
        {[p EXCEPT !.at = at] : at \in {"login", "leaving"}}
        \cup {[p EXCEPT !.error = error] : error \in {"network", "refused"}}
  BY DEF Dashboard!SubmitSettled
<1> HIDE DEF Good
<1>4. Good(Dashboard!SubmitSettled(p, status))
  BY <1>1, <1>2, <1>3
<1> QED
  BY <1>4 DEF Good

LEMMA DashboardSettles ==
  ASSUME DashboardInv, Dashboard!Settle
  PROVE  DashboardInv'
<1>1. /\ hostCall.pc = "answered" /\ hostCall' = Dashboard!NoCall
      /\ UNCHANGED <<listingRows, hostFaults>>
      /\ dashboard \in Dashboard!Tab /\ hostCall \in Dashboard!Call
  BY DEF Dashboard!Settle, DashboardInv, Dashboard!TypeOK
<1>2. hostCall.op \in {"create", "update", "publish", "unpublish"}
  BY <1>1, NoHostCall DEF DashboardInv, CallFromPage, Dashboard!Call
<1>3. /\ dashboard' \in Dashboard!Tab
      /\ dashboard'.at = "dashboard" => dashboard'.refreshing \/ dashboard'.error # "none"
      /\ dashboard'.at \in {"editor", "leaving"} => dashboard.at \in {"editor", "leaving"}
      /\ dashboard'.listing = dashboard.listing /\ dashboard'.form = dashboard.form
      /\ dashboard'.touched = dashboard.touched
  <2>1. CASE hostCall.op \in {"create", "update"}
    <3>1. dashboard.at \in {"editor", "leaving"}
      BY <2>1 DEF DashboardInv, CallFromPage
    <3>2. dashboard' = Dashboard!SubmitSettled(dashboard, Dashboard!Relayed)
      BY <2>1 DEF Dashboard!Settle
    <3> QED
      BY <1>1, <3>1, <3>2, SubmitSettles
  <2>2. CASE hostCall.op \in {"publish", "unpublish"}
    <3>1. hostCall.listing \in Card
      BY <2>2 DEF DashboardInv, CallFromPage
    <3>2. dashboard' = Dashboard!ToggleSettled(dashboard, hostCall.listing, Dashboard!Relayed)
      BY <2>2 DEF Dashboard!Settle
    <3> QED
      BY <1>1, <3>1, <3>2, ToggleSettles
  <2> QED
    BY <1>2, <2>1, <2>2
<1>4. Dashboard!TypeOK'
  BY <1>1, <1>3, NoHostCall DEF DashboardInv, Dashboard!TypeOK
<1>5. Dashboard!CardsAreTable'
  BY <1>3 DEF Dashboard!CardsAreTable
<1>6. CallFromPage' /\ FormAsStored'
  BY <1>1, <1>3, NoHostCall DEF DashboardInv, CallFromPage, FormAsStored, Dashboard!NoCall,
     Dashboard!BLANK
<1> QED
  BY <1>4, <1>5, <1>6 DEF DashboardInv

LEMMA DashboardStep == DashboardInv /\ [Dashboard!Next]_(Dashboard!vars) => DashboardInv'
<1> SUFFICES ASSUME DashboardInv, [Dashboard!Next]_(Dashboard!vars) PROVE DashboardInv'
  OBVIOUS
<1>1. CASE UNCHANGED Dashboard!vars
  BY <1>1 DEF Dashboard!vars, DashboardInv, Dashboard!TypeOK, Dashboard!CardsAreTable,
     CallFromPage, FormAsStored, Dashboard!NoCall, Dashboard!BLANK
<1>2. CASE \E l \in Card : Dashboard!ClickToggle(l)
  BY <1>2, DashboardSends
<1> QED
  BY <1>1, <1>2, DashboardSends, DashboardTurns, DashboardType, DashboardServed,
     DashboardSettles DEF Dashboard!Next

(* UntouchedFieldsKept: an edit writes back as it is every field nobody has
   typed in since the form was opened, whatever the calls in between came to:
   for any number of listings, texts and failed calls. *)
THEOREM UntouchedFieldsStay == Spec => UntouchedFieldsKept
<1> DEFINE Kept == hostCall.op = "update" /\ listingRows' # listingRows =>
             \A field \in Dashboard!Field \ hostCall.touched :
                 listingRows'[hostCall.listing].detail[field]
                   = listingRows[hostCall.listing].detail[field]
<1>1. DashboardInv /\ [Dashboard!Next]_(Dashboard!vars) => [Kept]_(Dashboard!vars)
  <2> SUFFICES ASSUME DashboardInv, Dashboard!Next, hostCall.op = "update",
                      listingRows' # listingRows
               PROVE  Kept
    OBVIOUS
  <2>1. Dashboard!ServeUpdate
    BY DEF Dashboard!Next, Dashboard!ClickToggle, Dashboard!Browse, Dashboard!OpenNew,
       Dashboard!OpenEditor, Dashboard!Submit, Dashboard!Navigated, Dashboard!GiveUp,
       Dashboard!Refreshed, Dashboard!Type, Dashboard!Serve, Dashboard!ServeToggle,
       Dashboard!ServeCreate, Dashboard!Fault, Dashboard!Settle
  <2>2. /\ listingRows \in [Card -> Dashboard!Row] /\ hostCall.body \in Dashboard!Detail
        /\ hostCall.listing \in Card
    BY DEF DashboardInv, Dashboard!TypeOK, Dashboard!Call, CallFromPage
  <2>3. listingRows'[hostCall.listing].detail = hostCall.body
    BY <2>1, <2>2 DEF Dashboard!ServeUpdate, Dashboard!Row
  <2> QED
    BY <2>3 DEF DashboardInv, FormAsStored
<1>2. Init => DashboardInv
  BY InitOfPages, DashboardInit
<1>3. DashboardInv /\ [Next]_vars => DashboardInv'
  BY StepOfPages, DashboardStep
<1>4. [Next]_vars => [Dashboard!Next]_(Dashboard!vars)
  BY StepOfPages
<1>5. [][Kept]_(Dashboard!vars) => Dashboard!UntouchedFieldsKept
  BY DEF Dashboard!UntouchedFieldsKept
<1> HIDE DEF Kept
<1> QED
  BY <1>1, <1>2, <1>3, <1>4, <1>5, PTL DEF Spec, UntouchedFieldsKept
-----------------------------------------------------------------------------
(* The reserve widget. *)

Reserve == [pc : {"idle", "sent", "answered"}, stay : Widget!Stay \cup {None}, status : Nat]

Selection == view.checkIn # None /\ view.checkOut # None => view.checkIn < view.checkOut

WidgetInv ==
  /\ Widget!TypeOK /\ Widget!RequestIsStay /\ reserve \in Reserve /\ Selection

LEMMA WidgetDays == Widget!Day \subseteq Int /\ Widget!Month \subseteq Int /\ 0 \in Widget!Month
  BY PageAssumptions DEF Widget!Day, Widget!Month, Widget!BoundsAssumption

(* The entries of the query cache. *)
LEMMA WidgetEntries ==
  /\ Widget!Unfetched \in Widget!Entry
  /\ \A e \in Widget!Entry :
       /\ Widget!Sent(e) \in Widget!Entry /\ Widget!Fetched(e) \in Widget!Entry
       /\ Widget!Refetched(e) \in Widget!Entry
       /\ [e EXCEPT !.pc = "idle", !.read = {}, !.failed = TRUE] \in Widget!Entry
       /\ \A ranges \in SUBSET Widget!Stay :
            /\ [e EXCEPT !.pc = "answered", !.read = ranges] \in Widget!Entry
            /\ [Widget!Unfetched EXCEPT !.data = ranges] \in Widget!Entry
<1>1. Widget!Unfetched \in Widget!Entry
  BY DEF Widget!Unfetched, Widget!Entry
<1>2. ASSUME NEW e \in Widget!Entry
      PROVE  /\ Widget!Sent(e) \in Widget!Entry /\ Widget!Fetched(e) \in Widget!Entry
             /\ Widget!Refetched(e) \in Widget!Entry
             /\ [e EXCEPT !.pc = "idle", !.read = {}, !.failed = TRUE] \in Widget!Entry
  BY DEF Widget!Sent, Widget!Fetched, Widget!Refetched, Widget!Entry
<1>3. ASSUME NEW e \in Widget!Entry, NEW ranges \in SUBSET Widget!Stay
      PROVE  /\ [e EXCEPT !.pc = "answered", !.read = ranges] \in Widget!Entry
             /\ [e EXCEPT !.data = ranges] \in Widget!Entry
  BY DEF Widget!Entry
<1> QED
  BY <1>1, <1>2, <1>3

LEMMA WidgetFresh ==
  /\ Widget!Fresh \in [Widget!Month -> Widget!Entry]
  /\ Widget!NothingOwed \in [Widget!Month -> SUBSET Widget!Stay]
  /\ Widget!Opened \subseteq Widget!View /\ \A v \in Widget!Opened : v.checkIn = None
  /\ Widget!NoReserve \in Reserve /\ Widget!NoReserve.pc = "idle"
<1>1. /\ Widget!Fresh \in [Widget!Month -> Widget!Entry]
      /\ Widget!NothingOwed \in [Widget!Month -> SUBSET Widget!Stay]
  BY WidgetEntries, WidgetDays DEF Widget!Fresh, Widget!NothingOwed
<1>2. Widget!Opened \subseteq Widget!View /\ \A v \in Widget!Opened : v.checkIn = None
  BY WidgetDays DEF Widget!Opened, Widget!View
<1>3. Widget!NoReserve \in Reserve /\ Widget!NoReserve.pc = "idle"
  BY DEF Widget!NoReserve, Reserve
<1> QED
  BY <1>1, <1>2, <1>3

LEMMA WidgetInit == Widget!Init => WidgetInv
<1> SUFFICES ASSUME Widget!Init PROVE WidgetInv
  OBVIOUS
<1>1. view \in Widget!View /\ view.checkIn = None
  BY WidgetFresh DEF Widget!Init
<1>2. /\ query \in [Widget!Month -> Widget!Entry] /\ owed \in [Widget!Month -> SUBSET Widget!Stay]
      /\ reserve \in Reserve /\ reserve.pc = "idle"
  BY WidgetFresh DEF Widget!Init
<1> QED
  BY <1>1, <1>2, PageAssumptions DEF Widget!Init, WidgetInv, Widget!TypeOK,
     Widget!RequestIsStay, Selection, Widget!BoundsAssumption

(* Steps that leave the stays and the request alone. *)
LEMMA ViewTurns ==
  ASSUME WidgetInv, UNCHANGED <<taken, mine, rivalry>>,
         reserve' = reserve \/ reserve' = Widget!NoReserve,
         view' \in Widget!View, query' \in [Widget!Month -> Widget!Entry], Selection',
         owed' \in [Widget!Month -> SUBSET Widget!Stay], viewFaults' \in 0 .. MaxFaults
  PROVE  WidgetInv'
<1>1. reserve' \in Reserve /\ Widget!RequestIsStay'
  BY WidgetFresh DEF WidgetInv, Widget!RequestIsStay, Widget!Stay, Widget!Day, Widget!StartOf
<1>2. Widget!TypeOK'
  <2>1. /\ taken' \subseteq Widget!Stay /\ mine' \subseteq Widget!Stay
        /\ \A s, t \in taken' \cup mine' : s # t => ~Widget!Overlaps(s, t)
        /\ rivalry' \in 0 .. MaxRivalry
    BY DEF WidgetInv, Widget!TypeOK
  <2> QED
    BY <1>1, <2>1 DEF Reserve, Widget!TypeOK, Widget!Stay, Widget!Day, Widget!StartOf,
       Widget!View, Widget!Entry, Widget!Month, Widget!Overlaps
<1> QED
  BY <1>1, <1>2 DEF WidgetInv, Reserve, Widget!Stay, Widget!Day, Widget!StartOf

(* Availability: the windows the calendar is drawn from. *)
LEMMA WidgetFetches ==
  ASSUME WidgetInv,
         \/ Widget!Retry
         \/ \E m \in Widget!Month :
              \/ Widget!ShowMonth(m) \/ Widget!ServeAvailability(m)
              \/ Widget!AvailabilityArrives(m) \/ Widget!AvailabilityFails(m)
  PROVE  WidgetInv'
<1>0. /\ query \in [Widget!Month -> Widget!Entry] /\ view \in Widget!View
      /\ view.month \in Widget!Month /\ viewFaults \in 0 .. MaxFaults
      /\ taken \cup mine \subseteq Widget!Stay /\ owed \in [Widget!Month -> SUBSET Widget!Stay]
  BY DEF WidgetInv, Widget!TypeOK, Widget!View
<1>1. ASSUME NEW m \in Widget!Month, NEW e \in Widget!Entry,
             query' = [query EXCEPT ![m] = e],
             UNCHANGED <<taken, mine, reserve, owed, rivalry>>, viewFaults' \in 0 .. MaxFaults,
             view' \in Widget!View, view'.checkIn = view.checkIn,
             view'.checkOut = view.checkOut
      PROVE  WidgetInv'
  <2>1. query' \in [Widget!Month -> Widget!Entry]
    BY <1>0, <1>1
  <2>2. Selection'
    BY <1>1 DEF WidgetInv, Selection
  <2> QED
    BY <1>0, <1>1, <2>1, <2>2, ViewTurns
<1>2. CASE Widget!Retry
  <2>1. /\ query' = [query EXCEPT ![view.month] = Widget!Refetched(query[view.month])]
        /\ UNCHANGED <<taken, mine, view, reserve, owed, rivalry, viewFaults>>
    BY <1>2 DEF Widget!Retry
  <2> QED
    BY <1>0, <1>1, <2>1, WidgetEntries
<1>3. ASSUME NEW m \in Widget!Month, Widget!ShowMonth(m)
      PROVE  WidgetInv'
  <2>1. /\ view' = [view EXCEPT !.month = m]
        /\ query' = [query EXCEPT ![m] = Widget!Fetched(query[m])]
        /\ UNCHANGED <<taken, mine, reserve, owed, rivalry, viewFaults>>
    BY <1>3 DEF Widget!ShowMonth
  <2>2. /\ view' \in Widget!View /\ view'.checkIn = view.checkIn
        /\ view'.checkOut = view.checkOut
    BY <1>0, <2>1 DEF Widget!View
  <2> QED
    BY <1>0, <1>1, <2>1, <2>2, WidgetEntries
<1>4. ASSUME NEW m \in Widget!Month, Widget!ServeAvailability(m)
      PROVE  WidgetInv'
  <2> PICK ranges : ranges = Widget!Unavailable(m)
    OBVIOUS
  <2>1. ranges \in SUBSET Widget!Stay
    BY <1>0 DEF Widget!Unavailable
  <2>2. /\ query' = [query EXCEPT ![m].pc = "answered", ![m].read = ranges]
        /\ UNCHANGED <<taken, mine, view, reserve, owed, rivalry, viewFaults>>
    BY <1>4 DEF Widget!ServeAvailability
  <2>3. query' = [query EXCEPT ![m] = [query[m] EXCEPT !.pc = "answered", !.read = ranges]]
    BY <1>0, <2>2
  <2> QED
    BY <1>0, <1>1, <2>1, <2>2, <2>3, WidgetEntries
<1>5. ASSUME NEW m \in Widget!Month, Widget!AvailabilityArrives(m)
      PROVE  WidgetInv'
  <2> PICK ranges : ranges = query[m].read
    OBVIOUS
  <2>1. ranges \in SUBSET Widget!Stay
    BY <1>0 DEF Widget!Entry
  <2>2. /\ query' = [query EXCEPT ![m] = [Widget!Unfetched EXCEPT !.data = ranges]]
        /\ UNCHANGED <<taken, mine, view, reserve, owed, rivalry, viewFaults>>
    BY <1>5 DEF Widget!AvailabilityArrives
  <2> QED
    BY <1>0, <1>1, <2>1, <2>2, WidgetEntries
<1>6. ASSUME NEW m \in Widget!Month, Widget!AvailabilityFails(m)
      PROVE  WidgetInv'
  <2>1. /\ query' = [query EXCEPT ![m].pc = "idle", ![m].read = {}, ![m].failed = TRUE]
        /\ viewFaults < MaxFaults /\ viewFaults' = viewFaults + 1
        /\ UNCHANGED <<taken, mine, view, reserve, owed, rivalry>>
    BY <1>6 DEF Widget!AvailabilityFails
  <2>2. query' = [query EXCEPT ![m] =
                    [query[m] EXCEPT !.pc = "idle", !.read = {}, !.failed = TRUE]]
    BY <1>0, <2>1
  <2>3. viewFaults' \in 0 .. MaxFaults
    BY <1>0, <2>1, PageAssumptions DEF Widget!BoundsAssumption
  <2> QED
    BY <1>0, <1>1, <2>1, <2>2, <2>3, WidgetEntries
<1> QED
  BY <1>2, <1>3, <1>4, <1>5, <1>6

(* The selection, by clicks in any order, and what unsets it. *)
LEMMA SelectionReset ==
  ASSUME NEW v \in Widget!View, NEW day \in Widget!Day \cup {None}
  PROVE  LET w == Widget!Reset(v, day)
         IN  w \in Widget!View /\ w.checkOut = None
  BY DEF Widget!Reset, Widget!View

LEMMA DayPicked ==
  ASSUME NEW v \in Widget!View, NEW day \in Widget!Day, NEW nights
  PROVE  LET w == Widget!Picked(v, day, nights)
         IN  /\ w \in Widget!View
             /\ w.checkIn # None /\ w.checkOut # None => w.checkIn < w.checkOut
<1>1. CASE v.checkIn = None \/ v.checkOut # None \/ day <= v.checkIn
  BY <1>1, SelectionReset DEF Widget!Picked
<1>2. CASE ~(v.checkIn = None \/ v.checkOut # None \/ day <= v.checkIn)
  <2>1. CASE Widget!NightsInStay(v.checkIn, day) \cap nights # {}
    BY <1>2, <2>1, SelectionReset DEF Widget!Picked
  <2>2. CASE Widget!NightsInStay(v.checkIn, day) \cap nights = {}
    <3>1. Widget!Picked(v, day, nights) = [v EXCEPT !.checkOut = day, !.notice = "none"]
      BY <1>2, <2>2 DEF Widget!Picked
    <3>2. v.checkIn \in Widget!Day /\ v.checkIn < day
      <4>1. v.checkIn \in Widget!Day
        BY <1>2 DEF Widget!View
      <4>2. v.checkIn \in Int /\ day \in Int
        BY <4>1, WidgetDays
      <4> QED
        BY <1>2, <4>1, <4>2
    <3>3. /\ [v EXCEPT !.checkOut = day, !.notice = "none"] \in Widget!View
          /\ [v EXCEPT !.checkOut = day, !.notice = "none"].checkIn = v.checkIn
          /\ [v EXCEPT !.checkOut = day, !.notice = "none"].checkOut = day
      BY DEF Widget!View
    <3> QED
      BY <3>1, <3>2, <3>3
  <2> QED
    BY <2>1, <2>2
<1> QED
  BY <1>1, <1>2

(* The month of a day is a bound of the model; only None can be no day. *)
LEMMA WidgetSelects ==
  ASSUME WidgetInv, NEW day \in Widget!Day, Widget!SelectDay(day)
  PROVE  WidgetInv'
<1>1. /\ view' = Widget!Picked(view, day, Widget!Nights)
      /\ UNCHANGED <<taken, mine, query, reserve, owed, rivalry, viewFaults>>
  BY DEF Widget!SelectDay
<1>2. /\ view \in Widget!View /\ query' \in [Widget!Month -> Widget!Entry]
      /\ viewFaults' \in 0 .. MaxFaults /\ owed' \in [Widget!Month -> SUBSET Widget!Stay]
  BY <1>1 DEF WidgetInv, Widget!TypeOK
<1>3. view' \in Widget!View /\ Selection'
  BY <1>1, <1>2, DayPicked DEF Selection
<1> QED
  BY <1>1, <1>2, <1>3, ViewTurns

(* What the widget makes of the server's answer. *)
LEMMA ReserveSettles ==
  ASSUME NEW v \in Widget!View, NEW status
  PROVE  LET w == Widget!Settled(v, status)
         IN  /\ w \in Widget!View
             /\ w.checkOut = None \/ (w.checkIn = v.checkIn /\ w.checkOut = v.checkOut)
<1> DEFINE Good(w) ==
      /\ w \in Widget!View
      /\ w.checkOut = None \/ (w.checkIn = v.checkIn /\ w.checkOut = v.checkOut)
<1>1. \A at \in {"booking", "login"} : Good([v EXCEPT !.at = at])
  BY DEF Widget!View
<1>2. \A notice \in {"wrong", "invalid", "justTaken"} :
        [v EXCEPT !.notice = notice] \in Widget!View /\ Good([v EXCEPT !.notice = notice])
  BY DEF Widget!View
<1>3. Good(Widget!Conflicted(v))
  <2>1. [v EXCEPT !.notice = "justTaken"] \in Widget!View
    BY <1>2
  <2>2. /\ Widget!Conflicted(v) \in Widget!View /\ Widget!Conflicted(v).checkOut = None
    BY <2>1, SelectionReset DEF Widget!Conflicted
  <2> QED
    BY <2>2
<1>4. Widget!Settled(v, status) \in
        {[v EXCEPT !.at = at] : at \in {"booking", "login"}}
        \cup {[v EXCEPT !.notice = notice] : notice \in {"wrong", "invalid"}}
        \cup {Widget!Conflicted(v)}
  BY DEF Widget!Settled
<1> HIDE DEF Good
<1>5. Good(Widget!Settled(v, status))
  BY <1>1, <1>2, <1>3, <1>4
<1> QED
  BY <1>5 DEF Good

LEMMA WidgetInvalidates ==
  ASSUME WidgetInv
  PROVE  /\ Widget!Invalidated(query) \in [Widget!Month -> Widget!Entry]
         /\ [owed EXCEPT ![view.month] = @ \cup Widget!RefusedFor]
              \in [Widget!Month -> SUBSET Widget!Stay]
<1>1. /\ query \in [Widget!Month -> Widget!Entry] /\ view.month \in Widget!Month
      /\ owed \in [Widget!Month -> SUBSET Widget!Stay] /\ taken \cup mine \subseteq Widget!Stay
  BY DEF WidgetInv, Widget!TypeOK, Widget!View
<1>2. Widget!Refetched(query[view.month]) \in Widget!Entry
  BY <1>1, WidgetEntries
<1>3. Widget!RefusedFor \subseteq Widget!Stay
  BY <1>1 DEF Widget!RefusedFor, Widget!Unavailable
<1> QED
  BY <1>1, <1>2, <1>3 DEF Widget!Invalidated

LEMMA WidgetSettles ==
  ASSUME WidgetInv, Widget!SettleReserve \/ Widget!ComeBack
  PROVE  WidgetInv'
<1>0. /\ view \in Widget!View /\ query \in [Widget!Month -> Widget!Entry]
      /\ viewFaults \in 0 .. MaxFaults /\ Selection /\ owed \in [Widget!Month -> SUBSET Widget!Stay]
  BY DEF WidgetInv, Widget!TypeOK
<1>1. CASE Widget!SettleReserve
  <2>1. /\ view' = Widget!Settled(view, reserve.status)
        /\ query' \in {query, Widget!Invalidated(query)}
        /\ owed' \in {owed, [owed EXCEPT ![view.month] = @ \cup Widget!RefusedFor]}
        /\ reserve' = Widget!NoReserve /\ UNCHANGED <<taken, mine, rivalry, viewFaults>>
    BY <1>1 DEF Widget!SettleReserve
  <2>2. view' \in Widget!View /\ Selection'
    BY <1>0, <2>1, ReserveSettles DEF Selection
  <2>3. query' \in [Widget!Month -> Widget!Entry] /\ owed' \in [Widget!Month -> SUBSET Widget!Stay]
    BY <1>0, <2>1, WidgetInvalidates
  <2> QED
    BY <1>0, <2>1, <2>2, <2>3, ViewTurns
<1>2. CASE Widget!ComeBack
  <2>1. /\ view' \in Widget!View /\ view'.checkIn = None
        /\ query' \in [Widget!Month -> Widget!Entry] /\ owed' \in [Widget!Month -> SUBSET Widget!Stay]
        /\ UNCHANGED <<taken, mine, reserve, rivalry, viewFaults>>
    BY <1>2, WidgetFresh DEF Widget!ComeBack
  <2> QED
    BY <1>0, <2>1, ViewTurns DEF Selection
<1> QED
  BY <1>1, <1>2

(* The stays: others take and give back theirs, the guest takes one. *)
LEMMA WidgetRival == ASSUME WidgetInv, Widget!Rival PROVE WidgetInv'
<1>1. /\ rivalry < MaxRivalry /\ rivalry' = rivalry + 1
      /\ UNCHANGED <<mine, view, query, reserve, viewFaults>>
  BY DEF Widget!Rival
<1>2. /\ taken \subseteq Widget!Stay /\ mine \subseteq Widget!Stay
      /\ \A s, t \in taken \cup mine : s # t => ~Widget!Overlaps(s, t)
      /\ rivalry \in 0 .. MaxRivalry /\ Rivals \subseteq Widget!Stay
  BY PageAssumptions DEF WidgetInv, Widget!TypeOK, Widget!RivalsAssumption
<1>3. rivalry' \in 0 .. MaxRivalry
  BY <1>1, <1>2, PageAssumptions DEF Widget!BoundsAssumption
<1>4. PICK s \in Rivals :
        \/ /\ s \in taken /\ taken' = taken \ {s}
           /\ owed' = [m \in Widget!Month |-> owed[m] \ {s}]
        \/ /\ \A t \in taken \cup mine : ~Widget!Overlaps(s, t)
           /\ taken' = taken \cup {s} /\ owed' = owed
  BY DEF Widget!Rival
<1>7. owed' \in [Widget!Month -> SUBSET Widget!Stay]
  BY <1>4 DEF WidgetInv, Widget!TypeOK
<1>5. taken' \subseteq Widget!Stay
  BY <1>2, <1>4
<1>6. \A r, t \in taken' \cup mine : r # t => ~Widget!Overlaps(r, t)
  <2>1. \A r, t : Widget!Overlaps(r, t) <=> Widget!Overlaps(t, r)
    BY DEF Widget!Overlaps
  <2> QED
    BY <1>2, <1>4, <2>1
<1> QED
  BY <1>1, <1>2, <1>3, <1>5, <1>6, <1>7 DEF WidgetInv, Widget!TypeOK, Widget!RequestIsStay,
     Selection, Widget!Stay, Widget!Day, Widget!StartOf, Widget!View, Widget!Entry,
     Widget!Month, Widget!Overlaps, Reserve

(* A new value of the request, for the stays it leaves. *)
LEMMA RequestTurns ==
  ASSUME WidgetInv, UNCHANGED <<taken, query, owed, rivalry>>, reserve' \in Reserve,
         reserve'.pc # "idle" => reserve'.stay \in Widget!Stay,
         view' \in Widget!View, Selection', viewFaults' \in 0 .. MaxFaults,
         mine' \subseteq Widget!Stay,
         \A s, t \in taken \cup mine' : s # t => ~Widget!Overlaps(s, t)
  PROVE  WidgetInv'
<1>1. Widget!RequestIsStay'
  BY DEF Widget!RequestIsStay, Widget!Stay, Widget!Day, Widget!StartOf
<1>2. Widget!TypeOK'
  <2>1. /\ taken' \subseteq Widget!Stay /\ query' \in [Widget!Month -> Widget!Entry]
        /\ owed' \in [Widget!Month -> SUBSET Widget!Stay]
        /\ \A s, t \in taken' \cup mine' : s # t => ~Widget!Overlaps(s, t)
        /\ rivalry' \in 0 .. MaxRivalry
    BY DEF WidgetInv, Widget!TypeOK
  <2> QED
    BY <2>1 DEF Reserve, Widget!TypeOK, Widget!Stay, Widget!Day, Widget!StartOf,
       Widget!View, Widget!Entry, Widget!Month, Widget!Overlaps
<1> QED
  BY <1>1, <1>2 DEF WidgetInv, Reserve, Widget!Stay, Widget!Day, Widget!StartOf

LEMMA WidgetReserves ==
  ASSUME WidgetInv,
         \/ Widget!HandleReserve \/ Widget!LogInToReserve
         \/ Widget!ServeReserve \/ Widget!ReserveFails
  PROVE  WidgetInv'
<1>0. /\ view \in Widget!View /\ reserve \in Reserve /\ Selection
      /\ viewFaults \in 0 .. MaxFaults /\ mine \subseteq Widget!Stay
      /\ \A s, t \in taken \cup mine : s # t => ~Widget!Overlaps(s, t)
      /\ reserve.pc # "idle" => reserve.stay \in Widget!Stay
  BY DEF WidgetInv, Widget!TypeOK, Widget!RequestIsStay
<1>1. CASE Widget!HandleReserve
  <2> PICK asked : asked = [checkIn |-> view.checkIn, checkOut |-> view.checkOut]
    OBVIOUS
  <2>1. /\ view.checkIn # None /\ view.checkOut # None
        /\ reserve' = [pc |-> "sent", status |-> 0, stay |-> asked]
        /\ view' = [view EXCEPT !.notice = "none"]
        /\ UNCHANGED <<taken, mine, query, owed, rivalry, viewFaults>>
    BY <1>1 DEF Widget!HandleReserve
  <2>2. /\ view.checkIn \in Widget!Day /\ view.checkOut \in Widget!Day
        /\ view.checkIn < view.checkOut
    BY <1>0, <2>1 DEF Widget!View, Selection
  <2>3. asked \in Widget!Stay
    BY <2>2 DEF Widget!Stay
  <2>4. reserve' \in Reserve /\ reserve'.stay \in Widget!Stay
    BY <2>1, <2>3 DEF Reserve
  <2>5. view' \in Widget!View /\ Selection'
    BY <1>0, <2>1 DEF Widget!View, Selection
  <2> QED
    BY <1>0, <2>1, <2>4, <2>5, RequestTurns
<1>2. CASE Widget!ServeReserve
  <2>1. /\ reserve.pc = "sent" /\ UNCHANGED <<taken, view, query, owed, rivalry, viewFaults>>
        /\ \/ reserve' = [reserve EXCEPT !.pc = "answered", !.status = 409] /\ mine' = mine
           \/ /\ ~Widget!Clashes(reserve.stay)
              /\ reserve' = [reserve EXCEPT !.pc = "answered", !.status = 201]
              /\ mine' = mine \cup {reserve.stay}
    BY <1>2 DEF Widget!ServeReserve
  <2>2. reserve.stay \in Widget!Stay
    BY <1>0, <2>1
  <2>3. reserve' \in Reserve /\ reserve'.stay = reserve.stay
    <3>2. CASE reserve' = [reserve EXCEPT !.pc = "answered", !.status = 409]
      <4>1. PICK status \in Nat : status = 409
        OBVIOUS
      <4>2. reserve' = [reserve EXCEPT !.pc = "answered", !.status = status]
        BY <3>2, <4>1
      <4> QED
        BY <1>0, <4>2 DEF Reserve
    <3>3. CASE reserve' = [reserve EXCEPT !.pc = "answered", !.status = 201]
      <4>1. PICK status \in Nat : status = 201
        OBVIOUS
      <4>2. reserve' = [reserve EXCEPT !.pc = "answered", !.status = status]
        BY <3>3, <4>1
      <4> QED
        BY <1>0, <4>2 DEF Reserve
    <3> QED
      BY <2>1, <3>2, <3>3
  <2>4. /\ mine' \subseteq Widget!Stay
        /\ \A s, t \in taken \cup mine' : s # t => ~Widget!Overlaps(s, t)
    <3>1. CASE mine' = mine
      BY <1>0, <3>1
    <3>2. CASE ~Widget!Clashes(reserve.stay) /\ mine' = mine \cup {reserve.stay}
      <4>1. \A r, t : Widget!Overlaps(r, t) <=> Widget!Overlaps(t, r)
        BY DEF Widget!Overlaps
      <4>2. \A s \in taken \cup mine : ~Widget!Overlaps(s, reserve.stay)
        BY <3>2 DEF Widget!Clashes
      <4> QED
        BY <1>0, <2>2, <3>2, <4>1, <4>2
    <3> QED
      BY <2>1, <3>1, <3>2
  <2>5. Selection'
    BY <1>0, <2>1 DEF Selection
  <2> QED
    BY <1>0, <2>1, <2>2, <2>3, <2>4, <2>5, RequestTurns
<1>3. CASE Widget!ReserveFails
  <2>1. /\ reserve.pc # "idle" /\ UNCHANGED <<taken, mine, view, query, owed, rivalry>>
        /\ viewFaults < MaxFaults /\ viewFaults' = viewFaults + 1
    BY <1>3 DEF Widget!ReserveFails
  <2>2. PICK status \in Nat : reserve' = [reserve EXCEPT !.pc = "answered", !.status = status]
    <3>1. PICK status \in {0, 401, 422, 502} :
            reserve' = [reserve EXCEPT !.pc = "answered", !.status = status]
      BY <1>3 DEF Widget!ReserveFails
    <3>2. status \in Nat
      OBVIOUS
    <3> QED
      BY <3>1, <3>2
  <2>3. reserve' \in Reserve /\ reserve'.stay = reserve.stay
    BY <1>0, <2>2 DEF Reserve
  <2>4. viewFaults' \in 0 .. MaxFaults
    BY <1>0, <2>1, PageAssumptions DEF Widget!BoundsAssumption
  <2>5. Selection'
    BY <1>0, <2>1 DEF Selection
  <2> QED
    BY <1>0, <2>1, <2>3, <2>4, <2>5, RequestTurns
<1>4. CASE Widget!LogInToReserve
  <2>1. /\ view' = [view EXCEPT !.notice = "none", !.at = "login"]
        /\ UNCHANGED <<taken, mine, query, reserve, owed, rivalry, viewFaults>>
    BY <1>4 DEF Widget!LogInToReserve
  <2>2. view' \in Widget!View /\ Selection'
    BY <1>0, <2>1 DEF Widget!View, Selection
  <2> QED
    BY <1>0, <2>1, <2>2, RequestTurns DEF Widget!Stay, Widget!Day, Widget!StartOf
<1> QED
  BY <1>1, <1>2, <1>3, <1>4

LEMMA WidgetStep == WidgetInv /\ [Widget!Next]_(Widget!vars) => WidgetInv'
<1> SUFFICES ASSUME WidgetInv, [Widget!Next]_(Widget!vars) PROVE WidgetInv'
  OBVIOUS
<1>1. CASE UNCHANGED Widget!vars
  <2>1. /\ view' \in Widget!View /\ query' \in [Widget!Month -> Widget!Entry]
        /\ viewFaults' \in 0 .. MaxFaults /\ Selection'
        /\ UNCHANGED <<taken, mine, reserve, rivalry>>
        /\ owed' \in [Widget!Month -> SUBSET Widget!Stay]
    BY <1>1 DEF Widget!vars, WidgetInv, Widget!TypeOK, Selection
  <2> QED
    BY <2>1, ViewTurns
<1>2. CASE Widget!Done
  BY <1>1, <1>2 DEF Widget!Done
<1> QED
  <2>1. Clicks \subseteq Widget!Day
    BY PageAssumptions DEF Widget!ClicksAssumption
  <2> QED
    BY <1>1, <1>2, <2>1, WidgetRival, WidgetFetches, WidgetSelects, WidgetReserves,
       WidgetSettles DEF Widget!Next
-----------------------------------------------------------------------------
(* The pay page and the confirmation page. *)

IntentState == {"open", "processing", "succeeded"}

PayCall == [pc : {"idle", "sent", "answered"}, status : Nat]

PollPc == {"off", "armed", "sent", "answered", "stopped"}

PollState == [pc : PollPc, count : Nat, retry : Nat, status : Nat, data : Payment!Status]

(* An intent may be added while a call asks for one; a poll that waits is
   below the cap, one under way above it by its retries at most. *)
PayBounded ==
  /\ intents \in Seq(IntentState) /\ Len(intents) <= MaxIntents
  /\ pay \in PayCall /\ (pay.pc = "sent" => Len(intents) < MaxIntents)

PollBounded ==
  /\ poll \in PollState
  /\ poll.retry <= ClientRetries /\ poll.count <= MaxPolls + ClientRetries
  /\ poll.pc = "armed" => poll.count < MaxPolls /\ poll.retry = 0
  /\ poll.pc \in {"sent", "answered"} => poll.count <= MaxPolls + poll.retry

(* "Confirmed", wherever it has got to, has been charged for; a refusal,
   under way or shown, is of a booking that is no longer pending. *)
ConfirmedIsPaid ==
  booking = "Confirmed" \/ poll.data = "Confirmed" \/ payPage.shown = "Confirmed"
    => Payment!Charged

RefusedForGood ==
  pay.status = 409 \/ payPage.phase = "dead" => booking # "PendingPayment"

PayInv ==
  /\ booking \in Payment!Status /\ now \in 0 .. MaxTime /\ declined \in BOOLEAN
  /\ payPage \in Payment!Page /\ payFaults \in 0 .. MaxPayFaults
  /\ PayBounded /\ PollBounded /\ ConfirmedIsPaid /\ RefusedForGood

LEMMA PayConstants ==
  /\ MaxIntents \in Nat /\ MaxPolls \in Nat /\ MaxPolls > 0 /\ ClientRetries \in Nat
  /\ MaxTime \in Nat /\ MaxPayFaults \in Nat
  BY PageAssumptions DEF Payment!BoundsAssumption

LEMMA PayImplies ==
  PayInv => Payment!TypeOK /\ Payment!SuccessIsPaid /\ Payment!TurnedAwayForGood
<1> SUFFICES ASSUME PayInv
             PROVE  Payment!TypeOK /\ Payment!SuccessIsPaid /\ Payment!TurnedAwayForGood
  OBVIOUS
<1>1. /\ poll.pc \in {"off", "armed", "sent", "answered", "stopped"}
      /\ poll.count \in 0 .. MaxPolls + ClientRetries /\ poll.retry \in 0 .. ClientRetries
  BY PayConstants DEF PayInv, PollBounded, PollState, PollPc
<1>2. /\ pay.pc \in {"idle", "sent", "answered"} /\ Len(intents) <= MaxIntents
      /\ \A i \in DOMAIN intents : intents[i] \in IntentState
  BY DEF PayInv, PayBounded, PayCall
<1>3. Payment!TypeOK
  BY <1>1, <1>2 DEF PayInv, Payment!TypeOK, IntentState
<1> QED
  BY <1>3 DEF PayInv, ConfirmedIsPaid, RefusedForGood, Payment!SuccessIsPaid,
     Payment!TurnedAwayForGood

LEMMA NothingUnderWay ==
  /\ Payment!NoCall \in PayCall /\ Payment!NoCall.pc = "idle" /\ Payment!NoCall.status = 0
  /\ Payment!NoPoll \in PollState /\ Payment!NoPoll.pc = "off" /\ Payment!NoPoll.count = 0
  /\ Payment!NoPoll.retry = 0 /\ Payment!NoPoll.data = "PendingPayment"
  BY DEF Payment!NoCall, PayCall, Payment!NoPoll, PollState, PollPc, Payment!Status

(* A page that has just been loaded shows what is stored. *)
LEMMA PageLoads ==
  ASSUME booking \in Payment!Status
  PROVE  /\ \A at \in {"away", "payment", "confirmed", "error"} :
              LET p == Payment!Fresh(at)
              IN  p \in Payment!Page /\ p.shown = booking /\ p.phase = "idle" /\ p.at = at
         /\ \A at \in {"payment", "confirmed"} :
              Payment!Landed(at) \in {Payment!Fresh(at), Payment!Fresh("error")}
<1>1. ASSUME NEW at \in {"away", "payment", "confirmed", "error"}
      PROVE  LET p == Payment!Fresh(at)
             IN  p \in Payment!Page /\ p.shown = booking /\ p.phase = "idle" /\ p.at = at
  <2>1. 0 \in 0 .. MaxIntents
    BY PayConstants
  <2> QED
    BY <2>1 DEF Payment!Fresh, Payment!Page
<1> QED
  BY <1>1 DEF Payment!Landed

LEMMA PayInit == Payment!Init => PayInv
<1> SUFFICES ASSUME Payment!Init PROVE PayInv
  OBVIOUS
<1>1. booking = "PendingPayment" /\ booking \in Payment!Status
  BY DEF Payment!Init, Payment!Status
<1>2. /\ payPage \in Payment!Page /\ payPage.shown = "PendingPayment"
      /\ payPage.phase = "idle"
  <2> PICK p : p = Payment!Fresh("away")
    OBVIOUS
  <2>1. p \in Payment!Page /\ p.phase = "idle"
    BY <1>1, PageLoads
  <2>2. payPage = [p EXCEPT !.shown = "PendingPayment"]
    BY DEF Payment!Init
  <2> QED
    BY <2>1, <2>2 DEF Payment!Page, Payment!Status
<1>3. /\ intents = <<>> /\ now = 0 /\ declined = FALSE /\ pay = Payment!NoCall
      /\ poll = Payment!NoPoll /\ payFaults = 0
  BY DEF Payment!Init
<1>4. PayBounded
  <2>1. intents \in Seq(IntentState) /\ Len(intents) = 0
    BY <1>3
  <2> QED
    BY <1>3, <2>1, NothingUnderWay, PayConstants DEF PayBounded
<1>5. PollBounded
  BY <1>3, NothingUnderWay, PayConstants DEF PollBounded
<1>6. ConfirmedIsPaid /\ RefusedForGood
  BY <1>1, <1>2, <1>3, NothingUnderWay DEF ConfirmedIsPaid, RefusedForGood
<1>7. now \in 0 .. MaxTime /\ payFaults \in 0 .. MaxPayFaults
  BY <1>3, PayConstants
<1>8. declined \in BOOLEAN
  BY <1>3
<1> QED
  BY <1>1, <1>2, <1>4, <1>5, <1>6, <1>7, <1>8 DEF PayInv

(* What the routes of the pay flow answer. *)
LEMMA PayAnswers ==
  /\ Payment!PayRoute(Payment!StatusForPayment("none")) = 201
  /\ Payment!PayRoute(Payment!StatusForPayment("BookingNotPayable")) = 409
  /\ Payment!PayRoute(401) = 401 /\ Payment!PayRoute(500) = 502
<1> USE DEF Payment!CreatePaymentIntent, Payment!Thrown
<1>1. /\ Payment!CreatePaymentIntent(201) = "none"
      /\ Payment!CreatePaymentIntent(409) = "NotPayable"
  OBVIOUS
<1>2. /\ Payment!CreatePaymentIntent(401) = "AuthRequired"
      /\ Payment!CreatePaymentIntent(500) = "ApiError"
  OBVIOUS
<1>3. /\ Payment!StatusForPayment("none") = 201
      /\ Payment!StatusForPayment("BookingNotPayable") = 409
  BY DEF Payment!StatusForPayment
<1> QED
  BY <1>1, <1>2, <1>3 DEF Payment!PayRoute, Payment!Bridged, Payment!Errors

(* What a step leaves alone stays as good as it was. *)
LEMMA ChargedStays ==
  UNCHANGED intents => (Payment!Charged <=> Payment!Charged')
  BY DEF Payment!Charged

LEMMA PollStays ==
  ASSUME PollBounded, UNCHANGED poll
  PROVE  PollBounded'
  BY DEF PollBounded, PollState

LEMMA PayStays ==
  ASSUME PayBounded, UNCHANGED <<intents, pay>>
  PROVE  PayBounded'
  BY DEF PayBounded, PayCall

LEMMA PayWorld ==
  ASSUME PayInv, Payment!Tick \/ Payment!Settle
  PROVE  PayInv'
<1>1. /\ UNCHANGED <<intents, declined, payPage, pay, poll, payFaults>>
      /\ now' \in 0 .. MaxTime
  BY PayConstants DEF PayInv, Payment!Tick, Payment!Settle
<1>2. /\ booking' \in Payment!Status
      /\ booking # "PendingPayment" => booking' # "PendingPayment"
      /\ booking' = "Confirmed" => booking = "Confirmed" \/ Payment!Charged
  <2>1. CASE Payment!Tick
    BY <2>1 DEF PayInv, Payment!Tick
  <2>2. CASE Payment!Settle
    <3>1. PICK status \in Payment!Status \ {"PendingPayment", booking} :
            Payment!Outcome(status) /\ booking' = status
      BY <2>2 DEF Payment!Settle
    <3> QED
      BY <3>1 DEF Payment!Outcome
  <2> QED
    BY <2>1, <2>2
<1>3. ConfirmedIsPaid' /\ RefusedForGood'
  BY <1>1, <1>2, ChargedStays DEF PayInv, ConfirmedIsPaid, RefusedForGood, Payment!Status
<1>4. PayBounded' /\ PollBounded'
  BY <1>1, PayStays, PollStays DEF PayInv
<1>5. payPage' \in Payment!Page /\ payFaults' \in 0 .. MaxPayFaults /\ declined' \in BOOLEAN
  BY <1>1 DEF PayInv
<1> QED
  BY <1>1, <1>2, <1>3, <1>4, <1>5 DEF PayInv, Payment!Status

LEMMA PayOpens == ASSUME PayInv, Payment!Open PROVE PayInv'
<1>1. /\ pay' = Payment!NoCall /\ poll' = Payment!NoPoll
      /\ UNCHANGED <<booking, now, intents, declined, payFaults>>
      /\ payPage' = Payment!Landed("payment")
  BY DEF Payment!Open
<1>2. /\ payPage' \in Payment!Page /\ payPage'.shown = booking
      /\ payPage'.phase = "idle"
  BY <1>1, PageLoads DEF PayInv
<1>3. PayBounded' /\ PollBounded'
  <2>1. intents' \in Seq(IntentState) /\ Len(intents') <= MaxIntents
    BY <1>1 DEF PayInv, PayBounded
  <2> QED
    BY <2>1, <1>1, NothingUnderWay, PayConstants DEF PayBounded, PollBounded
<1>4. ConfirmedIsPaid' /\ RefusedForGood'
  BY <1>1, <1>2, ChargedStays, NothingUnderWay
  DEF PayInv, ConfirmedIsPaid, RefusedForGood
<1>5. /\ booking' \in Payment!Status /\ now' \in 0 .. MaxTime
      /\ payFaults' \in 0 .. MaxPayFaults /\ declined' \in BOOLEAN
  BY <1>1 DEF PayInv
<1> QED
  BY <1>2, <1>3, <1>4, <1>5 DEF PayInv

(* A call asks for an intent there is room for. *)
LEMMA PayStarts == ASSUME PayInv, Payment!StartPayment PROVE PayInv'
<1>1. /\ UNCHANGED <<booking, now, intents, declined, poll, payFaults>>
      /\ payPage' = [payPage EXCEPT !.phase = "creating"]
      /\ pay' = [Payment!NoCall EXCEPT !.pc = "sent"] /\ Len(intents) < MaxIntents
  BY DEF Payment!StartPayment
<1>2. /\ payPage' \in Payment!Page /\ payPage'.shown = payPage.shown
      /\ payPage'.phase = "creating"
  BY <1>1 DEF PayInv, Payment!Page
<1>3. pay' \in PayCall /\ pay'.status = 0
  BY <1>1, NothingUnderWay DEF PayCall
<1>4. PayBounded'
  BY <1>1, <1>3 DEF PayInv, PayBounded
<1>5. ConfirmedIsPaid' /\ RefusedForGood'
  BY <1>1, <1>2, <1>3, ChargedStays DEF PayInv, ConfirmedIsPaid, RefusedForGood
<1>6. /\ booking' \in Payment!Status /\ now' \in 0 .. MaxTime
      /\ payFaults' \in 0 .. MaxPayFaults /\ declined' \in BOOLEAN /\ PollBounded'
  BY <1>1, PollStays DEF PayInv
<1> QED
  BY <1>2, <1>4, <1>5, <1>6 DEF PayInv

(* The handler adds an intent, or it refuses a booking that has settled. *)
LEMMA PayIsServed == ASSUME PayInv, Payment!ServePay PROVE PayInv'
<1>1. /\ UNCHANGED <<booking, now, declined, payPage, poll, payFaults>>
      /\ pay.pc = "sent"
  BY DEF Payment!ServePay
<1>2. /\ pay' \in PayCall /\ pay'.pc = "answered"
      /\ pay'.status = 409 => booking # "PendingPayment"
  BY PayAnswers DEF Payment!ServePay, Payment!Payable, PayCall
<1>3. intents' \in Seq(IntentState) /\ Len(intents') <= MaxIntents
  <2>1. Append(intents, "open") \in Seq(IntentState)
        /\ Len(Append(intents, "open")) = Len(intents) + 1
    BY DEF PayInv, PayBounded, IntentState
  <2> QED
    BY <1>1, <2>1, PayConstants DEF PayInv, PayBounded, Payment!ServePay
<1>4. Payment!Charged => Payment!Charged'
  <2> SUFFICES ASSUME NEW i \in DOMAIN intents, intents[i] = "succeeded"
               PROVE  Payment!Charged'
    BY DEF Payment!Charged
  <2>1. /\ i \in DOMAIN Append(intents, "open")
        /\ Append(intents, "open")[i] = intents[i]
    BY DEF PayInv, PayBounded
  <2>2. i \in DOMAIN intents' /\ intents'[i] = "succeeded"
    BY <2>1 DEF Payment!ServePay
  <2> QED
    BY <2>2 DEF Payment!Charged
<1>5. ConfirmedIsPaid' /\ RefusedForGood'
  BY <1>1, <1>2, <1>4 DEF PayInv, ConfirmedIsPaid, RefusedForGood
<1>6. PayBounded' /\ PollBounded'
  BY <1>1, <1>2, <1>3, PollStays DEF PayInv, PayBounded
<1>7. /\ booking' \in Payment!Status /\ now' \in 0 .. MaxTime /\ payPage' \in Payment!Page
      /\ payFaults' \in 0 .. MaxPayFaults /\ declined' \in BOOLEAN
  BY <1>1 DEF PayInv
<1> QED
  BY <1>5, <1>6, <1>7 DEF PayInv

LEMMA PayIsLost == ASSUME PayInv, Payment!PayFails PROVE PayInv'
<1>1. UNCHANGED <<booking, now, intents, declined, payPage, poll>>
  BY DEF Payment!PayFails
<1>2. /\ pay' \in PayCall /\ pay'.pc = "answered" /\ pay'.status # 409
  BY PayAnswers DEF Payment!PayFails, PayCall
<1>3. payFaults' \in 0 .. MaxPayFaults
  BY PayConstants DEF PayInv, Payment!PayFails
<1>4. ConfirmedIsPaid' /\ RefusedForGood'
  BY <1>1, <1>2, ChargedStays DEF PayInv, ConfirmedIsPaid, RefusedForGood
<1>5. PayBounded' /\ PollBounded'
  BY <1>1, <1>2, PollStays DEF PayInv, PayBounded
<1>6. /\ booking' \in Payment!Status /\ now' \in 0 .. MaxTime
      /\ payPage' \in Payment!Page /\ declined' \in BOOLEAN
  BY <1>1 DEF PayInv
<1> QED
  BY <1>3, <1>4, <1>5, <1>6 DEF PayInv

(* The panel follows the answer; it says "dead" of a refusal only. *)
LEMMA PayArrives == ASSUME PayInv, Payment!SettlePay PROVE PayInv'
<1>1. /\ UNCHANGED <<booking, now, intents, declined, poll, payFaults>>
      /\ pay' = Payment!NoCall /\ payPage' = Payment!Panel(payPage, pay.status)
  BY DEF Payment!SettlePay
<1>2. Len(intents) \in 0 .. MaxIntents /\ pay.status \in Nat /\ payPage \in Payment!Page
  <2>1. Len(intents) \in Nat /\ Len(intents) <= MaxIntents
    BY DEF PayInv, PayBounded
  <2>2. pay.status \in Nat
    BY DEF PayInv, PayBounded, PayCall
  <2> QED
    BY <2>1, <2>2, PayConstants DEF PayInv
<1>3. /\ payPage' \in Payment!Page /\ payPage'.shown = payPage.shown
      /\ payPage'.phase = "dead" => payPage.phase = "dead" \/ pay.status = 409
  <2> PICK n \in 0 .. MaxIntents : n = Len(intents)
    BY <1>2
  <2>1. CASE pay.status = 201
    <3>1. payPage' = [payPage EXCEPT !.phase = "ready", !.form = n]
      BY <1>1, <2>1 DEF Payment!Panel
    <3> QED
      BY <3>1, <1>2 DEF Payment!Page
  <2>2. CASE pay.status = 401
    <3>1. payPage' = [payPage EXCEPT !.at = "login"]
      BY <1>1, <2>2 DEF Payment!Panel
    <3> QED
      BY <3>1, <1>2 DEF Payment!Page
  <2>3. CASE pay.status = 409
    <3>1. payPage' = [payPage EXCEPT !.phase = "dead"]
      BY <1>1, <2>3 DEF Payment!Panel
    <3> QED
      BY <3>1, <1>2, <2>3 DEF Payment!Page
  <2>4. CASE pay.status \notin {201, 401, 409}
    <3>1. payPage' = [payPage EXCEPT !.phase = "error"]
      BY <1>1, <2>4 DEF Payment!Panel
    <3> QED
      BY <3>1, <1>2 DEF Payment!Page
  <2> QED
    BY <2>1, <2>2, <2>3, <2>4
<1>4. ConfirmedIsPaid' /\ RefusedForGood'
  BY <1>1, <1>3, ChargedStays, NothingUnderWay
  DEF PayInv, ConfirmedIsPaid, RefusedForGood
<1>5. PayBounded' /\ PollBounded'
  BY <1>1, NothingUnderWay, PollStays DEF PayInv, PayBounded
<1>6. /\ booking' \in Payment!Status /\ now' \in 0 .. MaxTime
      /\ payFaults' \in 0 .. MaxPayFaults /\ declined' \in BOOLEAN
  BY <1>1 DEF PayInv
<1> QED
  BY <1>3, <1>4, <1>5, <1>6 DEF PayInv

LEMMA CardIsSubmitted ==
  ASSUME PayInv, Payment!HandleSubmit \/ Payment!StripeDeclines
  PROVE  PayInv'
<1>1. UNCHANGED <<booking, now, intents, pay, poll, payFaults>>
  BY DEF Payment!HandleSubmit, Payment!StripeDeclines
<1>2. PICK busy \in BOOLEAN : payPage' = [payPage EXCEPT !.submitting = busy]
  BY DEF Payment!HandleSubmit, Payment!StripeDeclines, Payment!CardError
<1>3. /\ payPage' \in Payment!Page /\ payPage'.shown = payPage.shown
      /\ payPage'.phase = payPage.phase
  BY <1>2 DEF PayInv, Payment!Page
<1>4. declined' \in BOOLEAN
  BY DEF PayInv, Payment!HandleSubmit, Payment!StripeDeclines
<1>5. ConfirmedIsPaid' /\ RefusedForGood'
  BY <1>1, <1>3, ChargedStays DEF PayInv, ConfirmedIsPaid, RefusedForGood
<1>6. PayBounded' /\ PollBounded'
  BY <1>1, PollStays, PayStays DEF PayInv
<1>7. /\ booking' \in Payment!Status /\ now' \in 0 .. MaxTime
      /\ payFaults' \in 0 .. MaxPayFaults
  BY <1>1 DEF PayInv
<1> QED
  BY <1>3, <1>4, <1>5, <1>6, <1>7 DEF PayInv

LEMMA LengthOf ==
  ASSUME NEW S, NEW n \in Nat, NEW s \in [1 .. n -> S]
  PROVE  s \in Seq(S) /\ Len(s) = n
<1>1. s \in Seq(S)
  OBVIOUS
<1> QED
  BY <1>1

(* An intent that is not paid gets another state; none that is paid is lost. *)
LEMMA IntentSettles ==
  ASSUME PayInv, NEW i, NEW state \in IntentState,
         intents[i] # "succeeded", intents' = [intents EXCEPT ![i] = state]
  PROVE  /\ intents' \in Seq(IntentState) /\ Len(intents') = Len(intents)
         /\ Payment!Charged => Payment!Charged'
<1>1. /\ intents' \in Seq(IntentState) /\ Len(intents') = Len(intents)
      /\ DOMAIN intents' = DOMAIN intents
  <2>1. PICK n \in Nat : n = Len(intents)
    BY DEF PayInv, PayBounded
  <2>2. intents \in [1 .. n -> IntentState]
    BY <2>1 DEF PayInv, PayBounded
  <2>3. intents' \in [1 .. n -> IntentState]
    BY <2>2
  <2> QED
    BY <2>1, <2>2, <2>3, LengthOf
<1>2. ASSUME NEW j \in DOMAIN intents, intents[j] = "succeeded"
      PROVE  j \in DOMAIN intents' /\ intents'[j] = "succeeded"
  BY <1>1, <1>2 DEF PayInv, PayBounded
<1> QED
  BY <1>1, <1>2 DEF Payment!Charged

LEMMA StripeIsDone == ASSUME PayInv, Payment!StripeSettles PROVE PayInv'
<1>1. UNCHANGED <<booking, now, payPage, pay, poll, payFaults>>
  BY DEF Payment!StripeSettles
<1>2. /\ intents' \in Seq(IntentState) /\ Len(intents') = Len(intents)
      /\ Payment!Charged => Payment!Charged'
  BY IntentSettles DEF Payment!StripeSettles, IntentState
<1>3. declined' \in BOOLEAN
  BY DEF Payment!StripeSettles
<1>4. ConfirmedIsPaid' /\ RefusedForGood'
  BY <1>1, <1>2 DEF PayInv, ConfirmedIsPaid, RefusedForGood
<1>5. PayBounded' /\ PollBounded'
  BY <1>1, <1>2, PollStays DEF PayInv, PayBounded
<1>6. /\ booking' \in Payment!Status /\ now' \in 0 .. MaxTime
      /\ payPage' \in Payment!Page /\ payFaults' \in 0 .. MaxPayFaults
  BY <1>1 DEF PayInv
<1> QED
  BY <1>3, <1>4, <1>5, <1>6 DEF PayInv

(* Stripe redirects; the page it redirects to shows what is stored, and a
   poll that starts is a first one. *)
LEMMA StripeTakesIt == ASSUME PayInv, Payment!StripeTakes PROVE PayInv'
<1>1. /\ UNCHANGED <<booking, now, declined, pay, payFaults>>
      /\ payPage' \in {Payment!Landed("confirmed"), Payment!Fresh("away")}
      /\ poll' = [Payment!PollOf(payPage') EXCEPT !.data = payPage'.shown]
  BY DEF Payment!StripeTakes
<1>2. /\ intents' \in Seq(IntentState) /\ Len(intents') = Len(intents)
      /\ Payment!Charged => Payment!Charged'
  BY IntentSettles DEF Payment!StripeTakes, IntentState
<1>3. /\ payPage' \in Payment!Page /\ payPage'.shown = booking
      /\ payPage'.phase = "idle"
  BY <1>1, PageLoads DEF PayInv
<1>4. /\ poll' \in PollState /\ poll'.count = 0 /\ poll'.retry = 0
      /\ poll'.data = booking /\ poll'.pc \in {"off", "armed"}
  <2> PICK q : q = Payment!PollOf(payPage')
    OBVIOUS
  <2>1. q \in PollState /\ q.count = 0 /\ q.retry = 0 /\ q.pc \in {"off", "armed"}
    BY NothingUnderWay DEF Payment!PollOf, PollState, PollPc
  <2>2. poll' = [q EXCEPT !.data = booking] /\ booking \in Payment!Status
    BY <1>1, <1>3 DEF PayInv
  <2> QED
    BY <2>1, <2>2 DEF PollState
<1>5. PayBounded' /\ PollBounded'
  BY <1>1, <1>2, <1>4, PayConstants DEF PayInv, PayBounded, PollBounded
<1>6. ConfirmedIsPaid' /\ RefusedForGood'
  BY <1>1, <1>2, <1>3, <1>4 DEF PayInv, ConfirmedIsPaid, RefusedForGood
<1>7. /\ booking' \in Payment!Status /\ now' \in 0 .. MaxTime
      /\ payFaults' \in 0 .. MaxPayFaults /\ declined' \in BOOLEAN
  BY <1>1 DEF PayInv
<1> QED
  BY <1>3, <1>5, <1>6, <1>7 DEF PayInv

(* A step of the poll: what it leaves alone, and where its data comes from. *)
LEMMA PollTurns ==
  ASSUME PayInv, PollBounded',
         UNCHANGED <<booking, now, intents, declined, pay>>,
         payPage' \in Payment!Page, payPage'.phase = payPage.phase,
         payPage'.shown \in {payPage.shown, poll.data},
         poll'.data \in {poll.data, booking},
         payFaults' \in 0 .. MaxPayFaults
  PROVE  PayInv'
<1>1. ConfirmedIsPaid' /\ RefusedForGood'
  BY ChargedStays DEF PayInv, ConfirmedIsPaid, RefusedForGood
<1>2. PayBounded'
  BY PayStays DEF PayInv
<1>3. booking' \in Payment!Status /\ now' \in 0 .. MaxTime /\ declined' \in BOOLEAN
  BY DEF PayInv
<1> QED
  BY <1>1, <1>2, <1>3 DEF PayInv

(* A route's answer is a status, whatever it says. *)
LEMMA PollAnswers ==
  ASSUME NEW status \in Nat, NEW fields
  PROVE  Payment!GetBookingRoute(status, fields) \in Nat
  BY DEF Payment!GetBookingRoute, Payment!Bridged, Payment!Errors

LEMMA PollIs == {"armed", "sent", "answered", "stopped"} \subseteq PollPc
  BY DEF PollPc

LEMMA PollSends ==
  ASSUME NEW p \in PollState, NEW q, q = [p EXCEPT !.pc = "sent", !.count = @ + 1]
  PROVE  /\ q \in PollState /\ q.pc = "sent" /\ q.count = p.count + 1
         /\ q.retry = p.retry /\ q.data = p.data
<1>1. "sent" \in PollPc
  BY DEF PollPc
<1>2. PICK n \in Nat : n = p.count + 1
  BY DEF PollState
<1>3. q = [p EXCEPT !.pc = "sent", !.count = n]
  BY <1>2
<1>4. /\ q \in PollState /\ q.pc = "sent" /\ q.count = n
      /\ q.retry = p.retry /\ q.data = p.data
  BY <1>1, <1>3 DEF PollState
<1> QED
  BY <1>2, <1>4

LEMMA PollRepeats ==
  ASSUME NEW p \in PollState, NEW q,
         q = [p EXCEPT !.pc = "sent", !.count = @ + 1, !.retry = @ + 1]
  PROVE  /\ q \in PollState /\ q.pc = "sent" /\ q.count = p.count + 1
         /\ q.retry = p.retry + 1 /\ q.data = p.data
<1>1. "sent" \in PollPc
  BY DEF PollPc
<1>2. PICK n \in Nat, r \in Nat : n = p.count + 1 /\ r = p.retry + 1
  BY DEF PollState
<1>3. q = [p EXCEPT !.pc = "sent", !.count = n, !.retry = r]
  BY <1>2
<1>4. /\ q \in PollState /\ q.pc = "sent" /\ q.count = n
      /\ q.retry = r /\ q.data = p.data
  BY <1>1, <1>3 DEF PollState
<1> QED
  BY <1>2, <1>4

LEMMA PollGoesOut ==
  ASSUME PayInv, Payment!Poll \/ Payment!ServePoll \/ Payment!PollFails
  PROVE  PayInv'
<1>1. UNCHANGED <<booking, now, intents, declined, payPage, pay>>
  BY DEF Payment!Poll, Payment!ServePoll, Payment!PollFails
<1>2. payFaults' \in 0 .. MaxPayFaults
  BY PayConstants DEF PayInv, Payment!Poll, Payment!ServePoll, Payment!PollFails
<1>3. PollBounded' /\ poll'.data \in {poll.data, booking}
  <2> USE PayConstants
  <2>0. /\ poll \in PollState /\ poll.retry <= ClientRetries
        /\ poll.count <= MaxPolls + ClientRetries /\ booking \in Payment!Status
        /\ poll.pc = "armed" => poll.count < MaxPolls /\ poll.retry = 0
        /\ poll.pc = "sent" => poll.count <= MaxPolls + poll.retry
    BY DEF PayInv, PollBounded
  <2>1. CASE Payment!Poll
    <3>1. poll' = [poll EXCEPT !.pc = "sent", !.count = @ + 1] /\ poll.pc = "armed"
      BY <2>1 DEF Payment!Poll
    <3>2. /\ poll' \in PollState /\ poll'.pc = "sent" /\ poll'.count = poll.count + 1
          /\ poll'.retry = poll.retry /\ poll'.data = poll.data
      BY <3>1, <2>0, PollSends
    <3> QED
      BY <3>1, <3>2, <2>0 DEF PollBounded, PollState
  <2>2. CASE Payment!ServePoll \/ Payment!PollFails
    <3>1. PICK status \in Nat, data \in {poll.data, booking} :
            poll' = [poll EXCEPT !.pc = "answered", !.data = data, !.status = status]
      <4>1. CASE Payment!ServePoll
        <5> PICK status : status = Payment!GetBookingRoute(200, Fields)
          OBVIOUS
        <5>1. poll' = [poll EXCEPT !.pc = "answered", !.data = booking, !.status = status]
          BY <4>1 DEF Payment!ServePoll
        <5>2. status \in Nat
          BY PollAnswers
        <5> QED
          BY <5>1, <5>2
      <4>2. CASE Payment!PollFails
        <5>1. poll' = [poll EXCEPT !.pc = "answered",
                                   !.status = Payment!GetBookingRoute(0, {})]
          BY <4>2 DEF Payment!PollFails
        <5>2. poll' = [poll EXCEPT !.pc = "answered", !.data = poll.data,
                                   !.status = Payment!GetBookingRoute(0, {})]
          BY <5>1, <2>0 DEF PollState
        <5> QED
          BY <5>2, PollAnswers
      <4> QED
        BY <2>2, <4>1, <4>2
    <3>2. poll.pc = "sent"
      BY <2>2 DEF Payment!ServePoll, Payment!PollFails
    <3>3. /\ poll' \in PollState /\ poll'.pc = "answered" /\ poll'.count = poll.count
          /\ poll'.retry = poll.retry /\ poll'.data = data
      BY <3>1, <2>0, PollIs DEF PollState
    <3> QED
      BY <3>2, <3>3, <2>0 DEF PollBounded, PollState
  <2> QED
    BY <2>1, <2>2
<1> QED
  BY <1>1, <1>2, <1>3, PollTurns DEF PayInv

(* refetchInterval arms a timer below the cap only. *)
LEMMA Rearms ==
  ASSUME PayInv, NEW data
  PROVE  LET p == [Payment!Rearmed(poll, data) EXCEPT !.retry = 0]
         IN  /\ p \in PollState /\ p.data = poll.data /\ p.count = poll.count
             /\ p.retry = 0 /\ p.pc \in {"armed", "stopped"}
             /\ p.pc = "armed" => p.count < MaxPolls
<1>1. poll \in PollState /\ MaxPolls \in Nat
  BY PayConstants DEF PayInv, PollBounded
<1>2. PICK pc \in {"armed", "stopped"} :
        /\ Payment!Rearmed(poll, data) = [poll EXCEPT !.pc = pc]
        /\ pc = "armed" => poll.count < MaxPolls
  BY <1>1 DEF Payment!Rearmed, PollState
<1>3. PICK q : q = [poll EXCEPT !.pc = pc]
  OBVIOUS
<1>4. /\ q \in PollState /\ q.pc = pc
      /\ q.data = poll.data /\ q.count = poll.count
  BY <1>1, <1>3, PollIs DEF PollState
<1>5. PICK p : p = [q EXCEPT !.retry = 0]
  OBVIOUS
<1>6. /\ p \in PollState /\ p.pc = pc /\ p.retry = 0
      /\ p.data = poll.data /\ p.count = poll.count
  BY <1>4, <1>5 DEF PollState
<1> QED
  BY <1>2, <1>3, <1>5, <1>6

LEMMA PollComesBack ==
  ASSUME PayInv, Payment!PollArrives \/ Payment!PollRetries
  PROVE  PayInv'
<1>1. /\ UNCHANGED <<booking, now, intents, declined, pay, payFaults>>
      /\ poll.pc = "answered"
  BY DEF Payment!PollArrives, Payment!PollRetries
<1>2. /\ payPage' \in Payment!Page /\ payPage'.phase = payPage.phase
      /\ payPage'.shown \in {payPage.shown, poll.data}
  <2>0. poll.count \in Nat /\ MaxPolls \in Nat
    BY PayConstants DEF PayInv, PollBounded, PollState
  <2>1. poll.data \in Payment!Status /\ payPage \in Payment!Page
    BY DEF PayInv, PollBounded, PollState
  <2>2. CASE Payment!PollArrives
    <3>1. CASE poll.data = payPage.shown
      BY <2>1, <2>2, <3>1 DEF Payment!PollArrives, Payment!Rendered
    <3>2. CASE poll.data # payPage.shown
      <4>1. payPage' = [payPage EXCEPT !.shown = poll.data,
                                       !.timedOut = poll.count >= MaxPolls]
        BY <2>2, <3>2 DEF Payment!PollArrives, Payment!Rendered
      <4>2. (poll.count >= MaxPolls) \in BOOLEAN
        BY <2>0
      <4> QED
        BY <2>1, <4>1, <4>2 DEF Payment!Page
    <3> QED
      BY <3>1, <3>2
  <2>3. CASE Payment!PollRetries
    BY <2>1, <2>3 DEF Payment!PollRetries
  <2> QED
    BY <2>2, <2>3
<1>3. PollBounded' /\ poll'.data = poll.data
  <2> USE PayConstants
  <2>0. /\ poll \in PollState /\ poll.retry <= ClientRetries
        /\ poll.count <= MaxPolls + ClientRetries
        /\ poll.count <= MaxPolls + poll.retry
    BY <1>1 DEF PayInv, PollBounded
  <2>1. ASSUME NEW data, poll' = [Payment!Rearmed(poll, data) EXCEPT !.retry = 0]
        PROVE  PollBounded' /\ poll'.data = poll.data
    BY <2>0, <2>1, Rearms DEF PollBounded
  <2>2. ASSUME poll.retry < ClientRetries,
               poll' = [poll EXCEPT !.pc = "sent", !.count = @ + 1, !.retry = @ + 1]
        PROVE  PollBounded' /\ poll'.data = poll.data
    <3>1. /\ poll' \in PollState /\ poll'.pc = "sent" /\ poll'.count = poll.count + 1
          /\ poll'.retry = poll.retry + 1 /\ poll'.data = poll.data
      BY <2>0, <2>2, PollRepeats
    <3> QED
      BY <3>1, <2>0, <2>2 DEF PollBounded, PollState
  <2> QED
    BY <2>1, <2>2 DEF Payment!PollArrives, Payment!PollRetries
<1> QED
  BY <1>1, <1>2, <1>3, PollTurns DEF PayInv

LEMMA PayStep == PayInv /\ [Payment!Next]_(Payment!vars) => PayInv'
<1> SUFFICES ASSUME PayInv, [Payment!Next]_(Payment!vars) PROVE PayInv'
  OBVIOUS
<1>1. CASE UNCHANGED Payment!vars \/ Payment!Rest
  <2>1. UNCHANGED <<booking, now, intents, declined, payPage, pay, poll, payFaults>>
    BY <1>1 DEF Payment!Rest, Payment!vars
  <2> QED
    BY <2>1, PollTurns, PollStays DEF PayInv
<1> QED
  BY <1>1, PayWorld, PayOpens, PayStarts, PayIsServed, PayIsLost, PayArrives,
     CardIsSubmitted, StripeTakesIt, StripeIsDone, PollGoesOut, PollComesBack
  DEF Payment!Next
-----------------------------------------------------------------------------
(* The tab. *)

TabInv == ConsoleInv /\ DashboardInv /\ WidgetInv /\ PayInv /\ CancelInv

LEMMA TabHolds == Spec => []TabInv
<1>1. Init => TabInv
  BY InitOfPages, ConsoleInit, DashboardInit, WidgetInit, PayInit, CancelInit DEF TabInv
<1>2. TabInv /\ [Next]_vars => TabInv'
  <2> SUFFICES ASSUME TabInv, [Next]_vars PROVE TabInv'
    OBVIOUS
  <2>1. /\ [Availability!Next]_(Availability!vars) /\ [Dashboard!Next]_(Dashboard!vars)
        /\ [Widget!Next]_(Widget!vars) /\ [Payment!Next]_(Payment!vars)
        /\ [Cancellation!Next]_(Cancellation!vars)
    BY StepOfPages
  <2>2. ConsoleInv' /\ DashboardInv' /\ WidgetInv'
    BY <2>1, ConsoleStep, DashboardStep, WidgetStep DEF TabInv
  <2>3. PayInv' /\ CancelInv'
    BY <2>1, PayStep, CancelStep DEF TabInv
  <2> QED
    BY <2>2, <2>3 DEF TabInv
<1> QED
  BY <1>1, <1>2, PTL DEF Spec

(* PagesTypeOK: whatever is clicked, answered or lost, every page, call and
   table has its type; in particular the confirmation page polls at most
   MaxPolls times and what a retry adds, and no more intents are asked for
   than there is room for. *)
THEOREM PagesAreTyped == Spec => []PagesTypeOK
<1>1. TabInv => PagesTypeOK
  BY PayImplies DEF TabInv, ConsoleInv, DashboardInv, WidgetInv, CancelInv, PagesTypeOK
<1> QED
  BY <1>1, TabHolds, PTL

(* ScreenIsTrue: what a page says is so. A button is busy just while its call
   is under way, the cards at rest are the table's, a booking that is shown as
   confirmed has been charged, a guest who is turned away has nothing to pay
   for, and a request is for a stay that was picked: for any number of blocks,
   listings, calendar months, intents, polls and failed calls. *)
THEOREM ScreensAreTrue == Spec => []ScreenIsTrue
<1>1. TabInv => ScreenIsTrue
  BY PayImplies DEF TabInv, ConsoleInv, DashboardInv, WidgetInv, ScreenIsTrue
<1> QED
  BY <1>1, TabHolds, PTL
=============================================================================
