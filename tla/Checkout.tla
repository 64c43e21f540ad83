------------------------------ MODULE Checkout ------------------------------
(***************************************************************************)
(* Payment of a booking: intents opened at Stripe, Stripe's webhooks with  *)
(* their ledger of processed events, the in-process event each of them     *)
(* publishes, and the saga's transaction that event triggers. A guest may  *)
(* try several cards on one intent, Stripe delivers an event any number of *)
(* times and in any order, handlers run concurrently, calls fail and the   *)
(* process may die between two of them.                                    *)
(*                                                                         *)
(* The booking is its status: ReservationCore shows that the hold agrees   *)
(* with it, and has the statement-level view of the saga, the cancel and   *)
(* the expiry; here each is a read followed by a blind write.              *)
(***************************************************************************)
EXTENDS Naturals

CONSTANTS
  Booking, Intent,
  Worker,         \* handlers that may be running at the same time
  None,           \* no booking, no intent, no event
  MaxTries,       \* bound: cards tried on one intent
  MaxFaults,      \* bound: failing database or Stripe calls
  MaxCrashes      \* bound: crashes of the process

ASSUME NoneAssumption == None \notin Booking \cup Intent
ASSUME TriesAssumption ==
  MaxTries \in Nat /\ MaxFaults \in Nat /\ MaxCrashes \in Nat

VARIABLES
  booking,        \* table booking: status
  payment,        \* table payment: status of the row of each intent
  ledger,         \* table processed_webhook_event
  payFor,         \* Stripe: the booking in an intent's metadata
  open,           \* intents whose client secret a guest has
  tries,          \* Stripe: cards tried on an intent
  charged,        \* Stripe: intents whose money was taken
  emitted,        \* Stripe: events created so far
  acked,          \* Stripe: events answered with 200
  bus,            \* in-process events whose saga handler has not started
  published,      \* how often each event was published on the bus
  faults, crashes,
  job             \* what each worker is doing

stripe == <<payFor, open, tries, charged, emitted, acked>>
tables == <<booking, payment, ledger>>
budget == <<faults, crashes>>
vars == <<booking, payment, ledger, payFor, open, tries, charged, emitted,
          acked, bus, published, faults, crashes, job>>
-----------------------------------------------------------------------------
BookingStatus == {"PendingPayment", "Confirmed", "Cancelled", "Expired"}
PaymentStatus == {"Absent", "Pending", "Succeeded", "Failed"}
Outcome == {"succeeded", "failed"}

(* payment_intent.succeeded and payment_intent.payment_failed of one try;  *)
(* the record stands for Stripe's event id.                                *)
Event == [intent : Intent, try : 1 .. MaxTries, type : Outcome]

(* of: the intent or booking the handler works on; mem: the status in its  *)
(* copy of the row.                                                        *)
Kind == {"pay", "webhook", "saga", "idle"}
Step == {"createIntent", "savePayment", "exists", "find", "save", "record",
         "publish", "saveBooking", "idle"}
Job == [kind : Kind, pc : Step, booking : Booking \cup {None},
        intent : Intent \cup {None}, event : Event \cup {None},
        mem : BookingStatus \cup PaymentStatus]

Idle == [kind |-> "idle", pc |-> "idle", booking |-> None, intent |-> None,
         event |-> None, mem |-> "Absent"]

Init ==
  /\ booking = [b \in Booking |-> "PendingPayment"]
  /\ payment = [i \in Intent |-> "Absent"]
  /\ ledger = {}
  /\ payFor = [i \in Intent |-> None]
  /\ open = {}
  /\ tries = [i \in Intent |-> 0]
  /\ charged = {}
  /\ emitted = {}
  /\ acked = {}
  /\ bus = {}
  /\ published = [e \in Event |-> 0]
  /\ faults = 0
  /\ crashes = 0
  /\ job = [w \in Worker |-> Idle]

Go(w, j) == job' = [job EXCEPT ![w] = j]
At(w, kind, pc) == job[w].kind = kind /\ job[w].pc = pc
-----------------------------------------------------------------------------
(* POST /bookings/:id/pay: CreatePaymentIntentHandler. The intent Stripe   *)
(* will return is fixed at the start: one nobody has seen yet.             *)

StartPay(w, b, i) ==
  /\ job[w] = Idle
  /\ booking[b] = "PendingPayment"
  /\ payFor[i] = None
  /\ \A v \in Worker : job[v].intent # i
  /\ Go(w, [Idle EXCEPT !.kind = "pay", !.pc = "createIntent", !.booking = b,
                        !.intent = i])
  /\ UNCHANGED <<tables, stripe, bus, published, budget>>

(* Mutant of CreateIntent: the secret is handed out before the row exists. *)
CreateAndRespond(w) ==
  /\ At(w, "pay", "createIntent")
  /\ payFor' = [payFor EXCEPT ![job[w].intent] = job[w].booking]
  /\ open' = open \cup {job[w].intent}
  /\ Go(w, [job[w] EXCEPT !.pc = "savePayment"])
  /\ UNCHANGED <<tables, tries, charged, emitted, acked, bus, published, budget>>

(* The call to Stripe returns a fresh intent.                              *)
CreateIntent(w) ==
  /\ At(w, "pay", "createIntent")
  /\ payFor' = [payFor EXCEPT ![job[w].intent] = job[w].booking]
  /\ Go(w, [job[w] EXCEPT !.pc = "savePayment"])
  /\ UNCHANGED <<tables, open, tries, charged, emitted, acked, bus, published,
                 budget>>

(* The Pending row is saved, and only then the guest gets the secret.      *)
SavePayment(w) ==
  /\ At(w, "pay", "savePayment")
  /\ payment' = [payment EXCEPT ![job[w].intent] = "Pending"]
  /\ open' = open \cup {job[w].intent}
  /\ Go(w, Idle)
  /\ UNCHANGED <<booking, ledger, payFor, tries, charged, emitted, acked, bus,
                 published, budget>>

(* The guest tries a card. A declined card leaves the intent open.         *)
TryCard(i, type) ==
  /\ i \in open
  /\ i \notin charged
  /\ tries[i] < MaxTries
  /\ tries' = [tries EXCEPT ![i] = @ + 1]
  /\ charged' = IF type = "succeeded" THEN charged \cup {i} ELSE charged
  /\ emitted' = emitted \cup
                  {[intent |-> i, try |-> tries[i] + 1, type |-> type]}
  /\ UNCHANGED <<tables, payFor, open, acked, bus, published, budget, job>>
-----------------------------------------------------------------------------
(* POST /webhooks/stripe: HandleStripeWebhookHandler. The signature is     *)
(* valid and the type one the adapter translates; others change nothing.   *)

(* Mutant of Deliver: the signature is not verified.                       *)
DeliverForged(w, e) ==
  /\ job[w] = Idle
  /\ Go(w, [Idle EXCEPT !.kind = "webhook", !.pc = "exists",
                        !.intent = e.intent, !.event = e])
  /\ UNCHANGED <<tables, stripe, bus, published, budget>>

(* Events come at any time, again and out of order.                        *)
Deliver(w, e) ==
  /\ job[w] = Idle
  /\ e \in emitted
  /\ Go(w, [Idle EXCEPT !.kind = "webhook", !.pc = "exists",
                        !.intent = e.intent, !.event = e])
  /\ UNCHANGED <<tables, stripe, bus, published, budget>>

(* A known event is answered with 200 and changes nothing.                 *)
Exists(w) ==
  LET e == job[w].event
  IN  /\ At(w, "webhook", "exists")
      /\ IF e \in ledger
           THEN Go(w, Idle) /\ acked' = acked \cup {e}
           ELSE Go(w, [job[w] EXCEPT !.pc = "find"]) /\ UNCHANGED acked
      /\ UNCHANGED <<tables, payFor, open, tries, charged, emitted, bus,
                     published, budget>>

Marked(type) == IF type = "succeeded" THEN "Succeeded" ELSE "Failed"

(* markSucceeded and markFailed accept Pending and the status they set.    *)
Accepts(status, type) == status \in {"Pending", Marked(type)}

(* The payment is read and marked in memory; an unknown intent and a       *)
(* conflicting transition throw: rollback, 400, Stripe tries again.        *)
Find(w) ==
  LET e == job[w].event
  IN  /\ At(w, "webhook", "find")
      /\ Go(w, IF Accepts(payment[e.intent], e.type)
                 THEN [job[w] EXCEPT !.pc = "save", !.mem = Marked(e.type)]
                 ELSE Idle)
      /\ UNCHANGED <<tables, stripe, bus, published, budget>>

(* Mutant of Save: the ledger row is written outside the transaction.      *)
SaveAfterLedger(w) ==
  /\ At(w, "webhook", "save")
  /\ ledger' = ledger \cup {job[w].event}
  /\ Go(w, [job[w] EXCEPT !.pc = "record"])
  /\ UNCHANGED <<booking, payment, stripe, bus, published, budget>>

(* PaymentRepository.save takes the row's lock, held until the commit.     *)
Save(w) ==
  /\ At(w, "webhook", "save")
  /\ \A v \in Worker \ {w} : ~(At(v, "webhook", "record")
                               /\ job[v].intent = job[w].intent)
  /\ Go(w, [job[w] EXCEPT !.pc = "record"])
  /\ UNCHANGED <<tables, stripe, bus, published, budget>>

(* Mutant of Record: the ledger row is upserted, its key rejects nobody.   *)
RecordAnyway(w) ==
  LET e == job[w].event
  IN  /\ At(w, "webhook", "record")
      /\ ledger' = ledger \cup {e}
      /\ payment' = [payment EXCEPT ![e.intent] = job[w].mem]
      /\ Go(w, [job[w] EXCEPT !.pc = "publish"])
      /\ UNCHANGED <<booking, stripe, bus, published, budget>>

(* Mutant of Record: nothing is left to publish after the commit.          *)
RecordOnly(w) ==
  LET e == job[w].event
  IN  /\ At(w, "webhook", "record")
      /\ IF e \in ledger
           THEN Go(w, Idle) /\ UNCHANGED <<payment, ledger>>
           ELSE /\ ledger' = ledger \cup {e}
                /\ payment' = [payment EXCEPT ![e.intent] = job[w].mem]
                /\ Go(w, Idle)
      /\ UNCHANGED <<booking, stripe, bus, published, budget>>

(* The ledger's primary key rejects an event a concurrent delivery has     *)
(* recorded; otherwise payment and ledger commit together.                 *)
Record(w) ==
  LET e == job[w].event
  IN  /\ At(w, "webhook", "record")
      /\ IF e \in ledger
           THEN Go(w, Idle) /\ UNCHANGED <<payment, ledger>>
           ELSE /\ ledger' = ledger \cup {e}
                /\ payment' = [payment EXCEPT ![e.intent] = job[w].mem]
                /\ Go(w, [job[w] EXCEPT !.pc = "publish"])
      /\ UNCHANGED <<booking, stripe, bus, published, budget>>

(* After the commit the event goes on the bus and Stripe gets its 200.     *)
Publish(w) ==
  LET e == job[w].event
  IN  /\ At(w, "webhook", "publish")
      /\ bus' = bus \cup {e}
      /\ published' = [published EXCEPT ![e] = @ + 1]
      /\ acked' = acked \cup {e}
      /\ Go(w, Idle)
      /\ UNCHANGED <<tables, payFor, open, tries, charged, emitted, budget>>
-----------------------------------------------------------------------------
(* The handlers that write a booking. Each judges the copy it has read.    *)

Settling(b, to, event) ==
  [Idle EXCEPT !.kind = "saga", !.pc = "saveBooking", !.booking = b,
               !.event = event, !.mem = to]

(* Mutant of SettledAs: the trigger of both events is the confirm path.    *)
AlwaysConfirmed(type) == "Confirmed"

SettledAs(type) == IF type = "succeeded" THEN "Confirmed" ELSE "Expired"

(* onPaymentSucceeded, onPaymentFailed: the payment leads to the booking,  *)
(* confirm() and expire() throw unless it is pending; the bus swallows it. *)
StartSaga(w, e) ==
  LET b == payFor[e.intent]
  IN  /\ job[w] = Idle
      /\ e \in bus
      /\ bus' = bus \ {e}
      /\ IF booking[b] = "PendingPayment"
           THEN Go(w, Settling(b, SettledAs(e.type), e))
           ELSE UNCHANGED job
      /\ UNCHANGED <<tables, stripe, published, budget>>

(* The sweep found the hold past its TTL: onHoldExpired.                   *)
StartExpire(w, b) ==
  /\ job[w] = Idle
  /\ booking[b] = "PendingPayment"
  /\ Go(w, Settling(b, "Expired", None))
  /\ UNCHANGED <<tables, stripe, bus, published, budget>>

StartCancel(w, b) ==
  /\ job[w] = Idle
  /\ booking[b] \in {"PendingPayment", "Confirmed"}
  /\ Go(w, Settling(b, "Cancelled", None))
  /\ UNCHANGED <<tables, stripe, bus, published, budget>>

(* The commit: an upsert of the copy, whatever the row has become.         *)
SaveBooking(w) ==
  /\ At(w, "saga", "saveBooking")
  /\ booking' = [booking EXCEPT ![job[w].booking] = job[w].mem]
  /\ Go(w, Idle)
  /\ UNCHANGED <<payment, ledger, stripe, bus, published, budget>>

(* A confirm whose booking has given its nights back meanwhile may find    *)
(* them taken (23P01), and rolls back.                                     *)
NightsTaken(w) ==
  /\ At(w, "saga", "saveBooking")
  /\ job[w].mem = "Confirmed"
  /\ booking[job[w].booking] \in {"Cancelled", "Expired"}
  /\ Go(w, Idle)
  /\ UNCHANGED <<tables, stripe, bus, published, budget>>
-----------------------------------------------------------------------------
(* A call fails, a transaction times out or is a deadlock's victim: it     *)
(* rolls back. Publishing needs no call.                                   *)
Fault(w) ==
  /\ job[w] # Idle
  /\ job[w].pc # "publish"
  /\ faults < MaxFaults
  /\ faults' = faults + 1
  /\ Go(w, Idle)
  /\ UNCHANGED <<tables, stripe, bus, published, crashes>>

Crash ==
  /\ crashes < MaxCrashes
  /\ crashes' = crashes + 1
  /\ job' = [w \in Worker |-> Idle]
  /\ bus' = {}
  /\ UNCHANGED <<tables, stripe, published, faults>>

(* The server may be idle for ever.                                        *)
Quiet == (\A w \in Worker : job[w] = Idle) /\ UNCHANGED vars

Proceed(w) ==
  \/ CreateIntent(w) \/ SavePayment(w)
  \/ Exists(w) \/ Find(w) \/ Save(w) \/ Record(w) \/ Publish(w)
  \/ SaveBooking(w) \/ NightsTaken(w)

Start(w) ==
  \/ \E b \in Booking : StartExpire(w, b) \/ StartCancel(w, b)
  \/ \E b \in Booking, i \in Intent : StartPay(w, b, i)
  \/ \E e \in Event : Deliver(w, e) \/ StartSaga(w, e)

Next ==
  \/ \E w \in Worker : Start(w) \/ Proceed(w) \/ Fault(w)
  \/ \E i \in Intent, type \in Outcome : TryCard(i, type)
  \/ Crash
  \/ Quiet

Spec == Init /\ [][Next]_vars

(* Handlers go on, the bus starts the saga's, and Stripe delivers an event *)
(* until it is answered with 200. Strong fairness where a start waits for  *)
(* a worker, which is a bound of the model.                                *)
Retry(w, e) == e \notin acked /\ Deliver(w, e)

Fairness ==
  /\ \A w \in Worker : WF_vars(Proceed(w))
  /\ \A e \in Event : /\ SF_vars(\E w \in Worker : Retry(w, e))
                      /\ SF_vars(\E w \in Worker : StartSaga(w, e))

FairSpec == Spec /\ Fairness
-----------------------------------------------------------------------------
(* Tables, Stripe's objects and handlers have their types; Stripe charges  *)
(* only what a guest could pay.                                            *)
TypeOK ==
  /\ booking \in [Booking -> BookingStatus]
  /\ payment \in [Intent -> PaymentStatus]
  /\ ledger \subseteq emitted
  /\ payFor \in [Intent -> Booking \cup {None}]
  /\ open \subseteq Intent
  /\ tries \in [Intent -> 0 .. MaxTries]
  /\ charged \subseteq open
  /\ emitted \subseteq Event
  /\ acked \subseteq emitted
  /\ bus \subseteq emitted
  /\ published \in [Event -> Nat]
  /\ faults \in 0 .. MaxFaults
  /\ crashes \in 0 .. MaxCrashes
  /\ job \in [Worker -> Job]

(* Money is only taken for an intent whose payment row leads to a booking: *)
(* a webhook never meets an intent the program does not know, whatever     *)
(* crash or failing call hits the request that opened it.                  *)
ChargedIsKnown ==
  \A i \in open : payment[i] # "Absent" /\ payFor[i] \in Booking

(* However often and in whatever order Stripe delivers an event, and       *)
(* however many deliveries run at once, the saga is told at most once.     *)
PublishedOnce == \A e \in Event : published[e] <= 1

(* No booking is confirmed unless one of its intents was charged.          *)
Charged(b) == \E i \in charged : payFor[i] = b

ConfirmedIsPaid == \A b \in Booking : booking[b] = "Confirmed" => Charged(b)

(* A payment says Succeeded only when Stripe took the money.               *)
SucceededIsCharged == \A i \in Intent : payment[i] = "Succeeded" => i \in charged

(* A recorded event has been told to the saga or is about to be, unless    *)
(* the process died: the ledger alone never swallows an outcome.           *)
LedgerReachesSaga ==
  \A e \in ledger :
    \/ published[e] > 0
    \/ crashes > 0
    \/ \E w \in Worker : At(w, "webhook", "publish") /\ job[w].event = e

(* A payment does not leave Succeeded or Failed again.                     *)
PaymentFinal ==
  [][\A i \in Intent : payment[i] \in {"Succeeded", "Failed"}
                         => payment'[i] = payment[i]]_payment

(* An intent that was charged ends as a Succeeded payment, through         *)
(* redelivery, lost calls and crashes.                                     *)
ChargeIsRecorded == \A i \in Intent : i \in charged ~> payment[i] = "Succeeded"

(* A guest whose card was declined may try another one: the decline, told  *)
(* late or not, does not expire a booking that has been paid for since.    *)
ChargedIsNotExpired ==
  [][\A w \in Worker :
       LET b == job[w].booking
       IN  At(w, "saga", "saveBooking") /\ job[w].event \in Event
             /\ booking[b] = "PendingPayment" /\ booking'[b] = "Expired"
           => ~Charged(b)]_vars

(* An intent that its first card has paid ends as a Succeeded payment.     *)
FirstCardIsRecorded ==
  \A i \in Intent :
    i \in charged /\ (\A e \in emitted : e.intent = i => e.type = "succeeded")
      ~> payment[i] = "Succeeded"

(* A booking whose payment is recorded as Succeeded is confirmed, unless   *)
(* its guest cancels: redelivery makes up for what went wrong.             *)
RecordedIsConfirmed ==
  \A b \in Booking :
    booking[b] = "PendingPayment" /\ (\E i \in Intent : payFor[i] = b
                                        /\ payment[i] = "Succeeded")
      ~> booking[b] \in {"Confirmed", "Cancelled"}
=============================================================================
