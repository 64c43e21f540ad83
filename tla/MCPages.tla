------------------------------ MODULE MCPages ------------------------------
(***************************************************************************)
(* The interactive pages of the web application, for TLC. A tab opens one  *)
(* of them; the others stay as they are mounted, so a behaviour of this    *)
(* module is a behaviour of one page, and one run checks all five.         *)
(***************************************************************************)
EXTENDS Integers, Sequences, FiniteSets, TLC

CONSTANTS
  MaxFaults, MaxPayFaults, None,
  BlockId, Range, Slot, Ops, Standing,                          \* availability
  Card, Text, Blank,                                            \* dashboard
  MonthLength, LastMonth, Clicks, Rivals, MaxRivalry,           \* reserve widget
  HoldFor, MaxTime, MaxPolls, ClientRetries, MaxIntents, Fields, \* payment
  Notices, Price                                                \* cancellation

VARIABLES
  open,                                                         \* the page of the tab
  blockRows, signedIn, manager, blockCalls, blockFaults,
  listingRows, dashboard, hostCall, hostFaults,
  taken, mine, view, query, reserve, owed, rivalry, viewFaults,
  booking, now, intents, declined, payPage, pay, poll, payFaults,
  stay, sagas, revived, hour, stayPage, dialog, cancelCall, cancelFaults

Availability == INSTANCE HostConsole WITH
  table <- blockRows, page <- manager, call <- blockCalls, faults <- blockFaults
Dashboard == INSTANCE HostDashboard WITH
  Listing <- Card, table <- listingRows, tab <- dashboard, call <- hostCall,
  faults <- hostFaults
Widget == INSTANCE BookingWidget WITH faults <- viewFaults
Payment == INSTANCE PayPage WITH
  MaxFaults <- MaxPayFaults, page <- payPage, faults <- payFaults
Cancellation == INSTANCE CancelDialog WITH
  booking <- stay, now <- hour, page <- stayPage, call <- cancelCall,
  faults <- cancelFaults

Bridge == INSTANCE GuestBridge

ASSUME PageAssumptions ==
  /\ Availability!OpsAssumption /\ Availability!StandingAssumption
  /\ Availability!FaultsAssumption /\ Availability!NoneAssumption
  /\ Dashboard!TextAssumption /\ Dashboard!FaultsAssumption
  /\ Widget!BoundsAssumption /\ Widget!RivalsAssumption /\ Widget!ClicksAssumption
  /\ Payment!BoundsAssumption
  /\ Cancellation!BoundsAssumption

availability == <<blockRows, signedIn, manager, blockCalls, blockFaults>>
hosting == <<listingRows, dashboard, hostCall, hostFaults>>
widget == <<taken, mine, view, query, reserve, owed, rivalry, viewFaults>>
payment == <<booking, now, intents, declined, payPage, pay, poll, payFaults>>
cancellation ==
  <<stay, sagas, revived, hour, stayPage, dialog, cancelCall, cancelFaults>>

vars == <<open, availability, hosting, widget, payment, cancellation>>
-----------------------------------------------------------------------------
(* The instances.                                                          *)
OneBlock == {[id |-> b, range |-> r] : b \in {CHOOSE b \in BlockId : TRUE},
                                       r \in {CHOOSE r \in Range : TRUE}}
LongStay == {[checkIn |-> 0, checkOut |-> 3]}
FirstDays == 0 .. 1
Assumed == Bridge!SummaryFields
Actual == Bridge!DetailFields
Edges == <<168, 167, 48, 47>>
-----------------------------------------------------------------------------
Init ==
  /\ open \in {"availability", "dashboard", "widget", "payment", "cancellation"}
  /\ Availability!Init /\ Dashboard!Init /\ Widget!Init
  /\ Payment!Init /\ Cancellation!Init
  /\ open # "cancellation" => stay.status = "Confirmed"

OnAvailability ==
  /\ open = "availability" /\ Availability!Next
  /\ UNCHANGED <<open, hosting, widget, payment, cancellation>>

OnDashboard ==
  /\ open = "dashboard" /\ Dashboard!Next
  /\ UNCHANGED <<open, availability, widget, payment, cancellation>>

OnWidget ==
  /\ open = "widget" /\ Widget!Next
  /\ UNCHANGED <<open, availability, hosting, payment, cancellation>>

OnPayment ==
  /\ open = "payment" /\ Payment!Next
  /\ UNCHANGED <<open, availability, hosting, widget, cancellation>>

OnCancellation ==
  /\ open = "cancellation" /\ Cancellation!Next
  /\ UNCHANGED <<open, availability, hosting, widget, payment>>

Next == OnAvailability \/ OnDashboard \/ OnWidget \/ OnPayment \/ OnCancellation

Spec == Init /\ [][Next]_vars

(* The fairness of each page. As mounted, only the widget has a call under *)
(* way; it is served when it is the page that is open.                     *)
WidgetFairness ==
  \A m \in Widget!Month :
    /\ WF_widget(open = "widget" /\ Widget!ServeAvailability(m))
    /\ SF_widget(open = "widget" /\ Widget!AvailabilityArrives(m))

FairSpec ==
  /\ Spec
  /\ Availability!Fairness /\ Dashboard!Fairness /\ WidgetFairness
  /\ Payment!Fairness /\ Cancellation!Fairness
-----------------------------------------------------------------------------
(* The state of every page and of the tables behind it has its type.       *)
PagesTypeOK ==
  /\ Availability!TypeOK /\ Dashboard!TypeOK /\ Widget!TypeOK
  /\ Payment!TypeOK /\ Cancellation!TypeOK

(* What a page says is so: a button is busy just while its call is under   *)
(* way, the cards at rest are the table's, "You're booked" has been        *)
(* charged for, a guest who is turned away cannot pay any more, and a      *)
(* request is for a stay that was picked.                                  *)
ScreenIsTrue ==
  /\ Availability!FlagsMatchCalls
  /\ Dashboard!CardsAreTable
  /\ Payment!SuccessIsPaid /\ Payment!TurnedAwayForGood
  /\ Widget!RequestIsStay

(* Every button that a click makes busy comes back, or its page is left,   *)
(* whatever happens to the call: add, remove, publish, pay, cancel. Only a *)
(* saga that saves over the cancelled booking leaves its dialog busy. One  *)
(* page is open, and but for a removal one control waits at a time.        *)
Busy ==
  Availability!Adding \/ Dashboard!Busy \/ Payment!Busy \/ Cancellation!Busy

ControlsComeBack ==
  /\ Busy ~> ~Busy
  /\ Availability!Removing ~> ~Availability!Removing

(* News reaches the screen: the nights that a calendar has shown as free   *)
(* and the guest was refused for, the settled booking while the            *)
(* confirmation page has a poll left.                                      *)
ScreenCatchesUp == Widget!CalendarRefreshes /\ Payment!SettledIsSeen

(* What the dialog promises is what the policy grants, at the edges of its *)
(* tiers, too, and less only if a tier has passed since.                   *)
RefundAsPromised ==
  Cancellation!PreviewMirrorsPolicy /\ Cancellation!RefundAsPromised

(* A host's full-replace edit keeps every field that was not touched.      *)
UntouchedFieldsKept == Dashboard!UntouchedFieldsKept
-----------------------------------------------------------------------------
(* What the pages' comments say and the pages do not do: no configuration  *)
(* checks these, the README has what TLC shows of each.                    *)
ShownIsServers == Availability!ShownIsServers
PickedIsFree == Widget!PickedIsFree
ConflictIsTold == Widget!ConflictIsTold
ConflictRefetches == Widget!ConflictRefetches
LapsedIsRefused == Payment!LapsedIsRefused
SpinnerEnds == Payment!SpinnerEnds
CancelIsShown == Cancellation!CancelIsShown
DialogComesBack == Cancellation!DialogComesBack
PagesLoad == Payment!PagesLoad
=============================================================================
