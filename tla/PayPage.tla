------------------------------- MODULE PayPage -------------------------------
(***************************************************************************)
(* The guest's way from the pending booking to the confirmation: the pay   *)
(* page with its countdown, panel and card form, Stripe, and the page that *)
(* Stripe redirects to, which polls until the webhook has settled the      *)
(* booking. The API's side of it is Checkout; here it is what the pages    *)
(* see of it.                                                              *)
(***************************************************************************)
EXTENDS GuestBridge, Sequences

CONSTANTS
  HoldFor,        \* the hold's time to live
  MaxTime,        \* bound: the clock
  MaxPolls,       \* MAX_POLLS of the confirmation page
  ClientRetries,  \* how often the query client repeats a failed poll
  MaxIntents,     \* bound: clicks on "Pay now"
  MaxFaults,      \* bound: failed calls
  Fields          \* what GET /bookings/:id answers with

BoundsAssumption ==
  /\ HoldFor \in Nat /\ MaxTime \in Nat /\ MaxPolls \in Nat \ {0}
  /\ ClientRetries \in Nat /\ MaxIntents \in Nat /\ MaxFaults \in Nat

VARIABLES
  booking,   \* the status in the database
  now,
  intents,   \* Stripe's payment intents, in order of creation
  declined,  \* Stripe owes a payment_failed webhook
  page,      \* what the browser shows
  pay,       \* the call that creates an intent
  poll,      \* the query of the confirmation page
  faults

vars == <<booking, now, intents, declined, page, pay, poll, faults>>
-----------------------------------------------------------------------------
Status == {"PendingPayment", "Confirmed", "Cancelled", "Expired"}

NoCall == [pc |-> "idle", status |-> 0]
NoPoll == [pc |-> "off", count |-> 0, retry |-> 0, status |-> 0,
           data |-> "PendingPayment"]

Page == [at : {"away", "payment", "confirmed", "login", "error"},
         shown : Status, timedOut : BOOLEAN,
         phase : {"idle", "creating", "ready", "error", "dead"},
         form : 0 .. MaxIntents, submitting : BOOLEAN]

Fresh(at) == [at |-> at, shown |-> booking, timedOut |-> FALSE,
              phase |-> "idle", form |-> 0, submitting |-> FALSE]

(* Mutant of Landed: the redirect is taken for the confirmation.           *)
LandedConfirmed(at) ==
  IF at = "confirmed" THEN [Fresh(at) EXCEPT !.shown = "Confirmed"] ELSE Fresh(at)

(* Both pages load the booking on the server, and fail if that fails.      *)
Landed(at) ==
  IF GetBooking(200, Fields) = "none" THEN Fresh(at) ELSE Fresh("error")

(* The confirmation page polls at once: its initial data is stale.         *)
PollOf(p) == IF p.at = "confirmed" THEN [NoPoll EXCEPT !.pc = "armed"] ELSE NoPoll

Init ==
  /\ booking = "PendingPayment" /\ now = 0
  /\ intents = <<>> /\ declined = FALSE
  /\ page = [Fresh("away") EXCEPT !.shown = "PendingPayment"]
  /\ pay = NoCall /\ poll = NoPoll /\ faults = 0
-----------------------------------------------------------------------------
(* Time, the saga and the expiry job.                                      *)
Tick == /\ now < MaxTime /\ now' = now + 1
        /\ UNCHANGED <<booking, intents, declined, page, pay, poll, faults>>

Charged == \E i \in DOMAIN intents : intents[i] = "succeeded"

Outcome(status) ==
  \/ status = "Confirmed" /\ Charged
  \/ status = "Expired" /\ (declined \/ now >= HoldFor)
  \/ status = "Cancelled"                       \* by the guest in another tab

(* Each of them saves the copy it has read: the later one wins, whatever   *)
(* the earlier one has made of the booking.                                *)
Settle ==
  /\ \E status \in Status \ {"PendingPayment", booking} :
       Outcome(status) /\ booking' = status
  /\ UNCHANGED <<now, intents, declined, page, pay, poll, faults>>
-----------------------------------------------------------------------------
(* The pay page.                                                           *)
Open ==
  /\ pay.pc # "sent" /\ ~page.submitting
  /\ page' = Landed("payment")
  /\ pay' = NoCall /\ poll' = NoPoll
  /\ UNCHANGED <<booking, now, intents, declined, faults>>

(* "Pay now" and "Try again".                                              *)
StartPayment ==
  /\ page.at = "payment" /\ page.shown = "PendingPayment"
  /\ page.phase \in {"idle", "error"}
  /\ Len(intents) < MaxIntents
  /\ page' = [page EXCEPT !.phase = "creating"]
  /\ pay' = [NoCall EXCEPT !.pc = "sent"]
  /\ UNCHANGED <<booking, now, intents, declined, poll, faults>>

(* The handler looks at the status of the booking only.                    *)
Payable == booking = "PendingPayment"

ServePay ==
  /\ pay.pc = "sent"
  /\ LET status == StatusForPayment(IF Payable THEN "none" ELSE "BookingNotPayable")
     IN  /\ pay' = [pc |-> "answered", status |-> PayRoute(status)]
         /\ intents' = IF Payable THEN Append(intents, "open") ELSE intents
  /\ UNCHANGED <<booking, now, declined, page, poll, faults>>

PayFails ==
  /\ pay.pc # "idle" /\ faults < MaxFaults
  /\ faults' = faults + 1
  /\ \E status \in {PayRoute(s) : s \in {401, 500}} \cup {0} :
       pay' = [pc |-> "answered", status |-> status]
  /\ UNCHANGED <<booking, now, intents, declined, page, poll>>

Panel(p, status) ==
  CASE status = 201 -> [p EXCEPT !.phase = "ready", !.form = Len(intents)]
    [] status = 401 -> [p EXCEPT !.at = "login"]
    [] status = 409 -> [p EXCEPT !.phase = "dead"]
    [] OTHER -> [p EXCEPT !.phase = "error"]

SettlePay ==
  /\ pay.pc = "answered"
  /\ page' = Panel(page, pay.status)
  /\ pay' = NoCall
  /\ UNCHANGED <<booking, now, intents, declined, poll, faults>>
-----------------------------------------------------------------------------
(* The card form. An intent that has been paid cannot be paid again.       *)
HandleSubmit ==
  /\ page.at = "payment" /\ page.phase = "ready" /\ ~page.submitting
  /\ page' = [page EXCEPT !.submitting = TRUE]
  /\ UNCHANGED <<booking, now, intents, declined, pay, poll, faults>>

CardError(p) == [p EXCEPT !.submitting = FALSE]

StripeDeclines ==
  /\ page.submitting
  /\ page' = CardError(page)
  /\ declined' \in {declined, TRUE}             \* a mere typo has no webhook
  /\ UNCHANGED <<booking, now, intents, pay, poll, faults>>

(* Stripe redirects, with the money or with a method that takes longer; or *)
(* the guest has closed the tab.                                           *)
StripeTakes ==
  /\ page.submitting /\ intents[page.form] = "open"
  /\ \E state \in {"succeeded", "processing"} :
       intents' = [intents EXCEPT ![page.form] = state]
  /\ page' \in {Landed("confirmed"), Fresh("away")}
  /\ poll' = [PollOf(page') EXCEPT !.data = page'.shown]
  /\ UNCHANGED <<booking, now, declined, pay, faults>>

StripeSettles ==
  /\ \E i \in DOMAIN intents :
       /\ intents[i] = "processing"
       /\ \E state \in {"succeeded", "open"} :
            /\ intents' = [intents EXCEPT ![i] = state]
            /\ declined' = (declined \/ state = "open")
  /\ UNCHANGED <<booking, now, page, pay, poll, faults>>
-----------------------------------------------------------------------------
(* The confirmation page.                                                  *)
Settled(status) == status # "PendingPayment"

Poll ==
  /\ page.at = "confirmed" /\ poll.pc = "armed"
  /\ poll' = [poll EXCEPT !.pc = "sent", !.count = @ + 1]
  /\ UNCHANGED <<booking, now, intents, declined, page, pay, faults>>

ServePoll ==
  /\ poll.pc = "sent"
  /\ poll' = [poll EXCEPT !.pc = "answered", !.data = booking,
                          !.status = GetBookingRoute(200, Fields)]
  /\ UNCHANGED <<booking, now, intents, declined, page, pay, faults>>

PollFails ==
  /\ poll.pc = "sent" /\ faults < MaxFaults
  /\ faults' = faults + 1
  /\ poll' = [poll EXCEPT !.pc = "answered", !.status = GetBookingRoute(0, {})]
  /\ UNCHANGED <<booking, now, intents, declined, page, pay>>

(* refetchInterval.                                                        *)
Rearmed(p, data) ==
  IF Settled(data) \/ p.count >= MaxPolls THEN [p EXCEPT !.pc = "stopped"]
                                          ELSE [p EXCEPT !.pc = "armed"]

(* The component reads data alone, so only new data renders it again.      *)
Rendered(data) ==
  IF data = page.shown THEN page
    ELSE [page EXCEPT !.shown = data, !.timedOut = poll.count >= MaxPolls]

PollArrives ==
  /\ poll.pc = "answered" /\ poll.status = 200
  /\ page' = Rendered(poll.data)
  /\ poll' = [Rearmed(poll, poll.data) EXCEPT !.retry = 0]
  /\ UNCHANGED <<booking, now, intents, declined, pay, faults>>

PollRetries ==
  /\ poll.pc = "answered" /\ poll.status # 200
  /\ poll' = IF poll.retry < ClientRetries
               THEN [poll EXCEPT !.pc = "sent", !.count = @ + 1, !.retry = @ + 1]
               ELSE [Rearmed(poll, page.shown) EXCEPT !.retry = 0]
  /\ UNCHANGED <<booking, now, intents, declined, page, pay, faults>>

Rest ==
  /\ page.at # "payment" /\ poll.pc \in {"off", "stopped"}
  /\ UNCHANGED vars

Next ==
  \/ Tick \/ Settle \/ Open
  \/ StartPayment \/ ServePay \/ PayFails \/ SettlePay
  \/ HandleSubmit \/ StripeDeclines \/ StripeTakes \/ StripeSettles
  \/ Poll \/ ServePoll \/ PollFails \/ PollArrives \/ PollRetries
  \/ Rest

Spec == Init /\ [][Next]_vars

(* Calls are answered, timers fire and Stripe answers. Neither the guest   *)
(* nor the webhook has to come.                                            *)
Fairness == /\ WF_vars(ServePay \/ SettlePay)
            /\ WF_vars(StripeDeclines \/ StripeTakes)
            /\ WF_vars(Poll \/ ServePoll \/ PollArrives \/ PollRetries)

FairSpec == Spec /\ Fairness
-----------------------------------------------------------------------------
(* Types; retries overrun the cap on polls by their own number at most.    *)
TypeOK ==
  /\ booking \in Status /\ now \in 0 .. MaxTime
  /\ Len(intents) <= MaxIntents
  /\ \A i \in DOMAIN intents : intents[i] \in {"open", "processing", "succeeded"}
  /\ declined \in BOOLEAN /\ page \in Page
  /\ pay.pc \in {"idle", "sent", "answered"}
  /\ poll.pc \in {"off", "armed", "sent", "answered", "stopped"}
  /\ poll.count \in 0 .. MaxPolls + ClientRetries
  /\ poll.retry \in 0 .. ClientRetries /\ faults \in 0 .. MaxFaults

(* "You're booked" is said of a booking that has been charged.             *)
SuccessIsPaid == page.shown = "Confirmed" => Charged

(* A guest is only turned away from a booking that cannot be paid.         *)
TurnedAwayForGood == page.phase = "dead" => booking # "PendingPayment"

(* The panel or the form waits; never both.                                *)
Busy == (page.at = "payment" /\ page.phase = "creating") \/ page.submitting

(* A booking that has settled before the last poll is read is shown as     *)
(* settled, through failing polls and retries, unless the last one fails.  *)
PollToCome == poll.pc \in {"armed", "sent"} \/ poll.count < MaxPolls

LastPollFailed ==
  poll.count >= MaxPolls /\ poll.pc = "answered" /\ poll.status # 200

SettledIsSeen ==
  page.at = "confirmed" /\ Settled(booking) /\ PollToCome
    ~> page.at # "confirmed" \/ Settled(page.shown) \/ LastPollFailed

(* The payment page and the confirmation page load.                        *)
PagesLoad == page.at # "error"

(* A lapsed hold cannot be paid for.                                       *)
LapsedIsRefused ==
  [][Len(intents') > Len(intents) => now < HoldFor]_vars

(* Without a webhook the confirmation page stops spinning in the end.      *)
SpinnerEnds ==
  page.at = "confirmed"
    ~> page.at # "confirmed" \/ Settled(page.shown) \/ page.timedOut
=============================================================================
