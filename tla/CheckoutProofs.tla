--------------------------- MODULE CheckoutProofs ---------------------------
(***************************************************************************)
(* Safety of payments for any number of bookings, intents and handlers,    *)
(* any number of card tries, redeliveries, failing calls and crashes.      *)
(*                                                                         *)
(* The invariant has four parts: what Stripe's objects and the tables say  *)
(* of one another (Books), what each running handler holds (JobOk), that   *)
(* no two handlers hold the same intent or the same event to publish       *)
(* (Apart), and that no recorded event is forgotten (LedgerReachesSaga).   *)
(***************************************************************************)
EXTENDS Checkout, TLAPS

Typing ==
  /\ booking \in [Booking -> BookingStatus]
  /\ payment \in [Intent -> PaymentStatus]
  /\ payFor \in [Intent -> Booking \cup {None}]
  /\ open \subseteq Intent
  /\ tries \in [Intent -> 0 .. MaxTries]
  /\ emitted \subseteq Event
  /\ published \in [Event -> Nat]
  /\ faults \in 0 .. MaxFaults /\ crashes \in 0 .. MaxCrashes
  /\ job \in [Worker -> Job]

(* Stripe charges open intents only and tells what it did; the program keeps
   a row for what is open, and records and publishes what Stripe has told. *)
Books ==
  /\ charged \subseteq open
  /\ ledger \subseteq emitted /\ acked \subseteq emitted /\ bus \subseteq emitted
  /\ \A e \in emitted : e.intent \in open /\ (e.type = "succeeded" => e.intent \in charged)
  /\ ChargedIsKnown
  /\ SucceededIsCharged
  /\ ConfirmedIsPaid
  /\ \A e \in Event : published[e] <= 1 /\ (published[e] > 0 => e \in ledger)

(* An intent that is being opened is not open yet. *)
PayOk(j) ==
  /\ j.kind = "pay" /\ j.booking \in Booking /\ j.intent \in Intent \ open
  /\ \/ j.pc = "createIntent"
     \/ j.pc = "savePayment" /\ payFor[j.intent] \in Booking

(* The copy says what the event says; what is to be published is recorded and
   has not been published. *)
WebhookOk(j) ==
  /\ j.kind = "webhook" /\ j.event \in emitted /\ j.intent = j.event.intent
  /\ \/ j.pc \in {"exists", "find"}
     \/ j.pc \in {"save", "record"} /\ j.mem = Marked(j.event.type)
     \/ j.pc = "publish" /\ j.event \in ledger /\ published[j.event] = 0

(* A confirm that is about to commit is paid for. *)
SagaOk(j) ==
  /\ j.kind = "saga" /\ j.pc = "saveBooking" /\ j.booking \in Booking
  /\ j.mem \in {"Confirmed", "Expired", "Cancelled"}
  /\ j.mem = "Confirmed" => Charged(j.booking)

JobOk(j) == j = Idle \/ PayOk(j) \/ WebhookOk(j) \/ SagaOk(j)

Apart(j, k) ==
  /\ j.kind = "pay" /\ k.kind = "pay" => j.intent # k.intent
  /\ j.pc = "publish" /\ k.pc = "publish" => j.event # k.event

CInv ==
  /\ Typing
  /\ Books
  /\ \A w \in Worker : JobOk(job[w])
  /\ \A v, w \in Worker : v # w => Apart(job[v], job[w])
  /\ LedgerReachesSaga

----------------------------------------------------------------------------
(* Records *)

LEMMA IdleJob == Idle \in Job /\ Idle.kind = "idle" /\ Idle.pc = "idle" /\ JobOk(Idle)
  BY DEF Idle, Job, JobOk, Kind, Step, BookingStatus, PaymentStatus

LEMMA PcStep ==
  ASSUME NEW j \in Job, NEW p \in Step
  PROVE  LET k == [j EXCEPT !.pc = p]
         IN  /\ k \in Job /\ k.pc = p /\ k.kind = j.kind /\ k.booking = j.booking
             /\ k.intent = j.intent /\ k.event = j.event /\ k.mem = j.mem
  BY DEF Job

Opening(b, i) == [Idle EXCEPT !.kind = "pay", !.pc = "createIntent", !.booking = b,
                              !.intent = i]

LEMMA PayJob ==
  ASSUME NEW b \in Booking, NEW i \in Intent
  PROVE  /\ Opening(b, i) \in Job
         /\ Opening(b, i).kind = "pay" /\ Opening(b, i).pc = "createIntent"
         /\ Opening(b, i).booking = b /\ Opening(b, i).intent = i
  BY DEF Opening, Idle, Job, Kind, Step, BookingStatus, PaymentStatus

LEMMA WebhookJob ==
  ASSUME NEW e \in Event
  PROVE  LET k == [Idle EXCEPT !.kind = "webhook", !.pc = "exists",
                               !.intent = e.intent, !.event = e]
         IN  /\ k \in Job /\ k.kind = "webhook" /\ k.pc = "exists" /\ k.event = e
             /\ k.intent = e.intent
  BY DEF Idle, Job, Kind, Step, BookingStatus, PaymentStatus, Event

LEMMA SagaJob ==
  ASSUME NEW b \in Booking, NEW to \in BookingStatus, NEW e \in Event \cup {None}
  PROVE  /\ Settling(b, to, e) \in Job
         /\ Settling(b, to, e).kind = "saga" /\ Settling(b, to, e).pc = "saveBooking"
         /\ Settling(b, to, e).booking = b /\ Settling(b, to, e).mem = to
  BY DEF Settling, Idle, Job, Kind, Step, BookingStatus, PaymentStatus

----------------------------------------------------------------------------
(* Initial states *)

LEMMA InitC == Init => CInv
<1> SUFFICES ASSUME Init PROVE CInv
  OBVIOUS
<1>1. Typing
  BY IdleJob, TriesAssumption DEF Init, Typing, BookingStatus, PaymentStatus
<1>2. Books
  BY DEF Init, Books, ChargedIsKnown, SucceededIsCharged, ConfirmedIsPaid
<1>3. \A w \in Worker : job[w] = Idle
  BY DEF Init
<1>4. \A v, w \in Worker : Apart(job[v], job[w])
  BY <1>3, IdleJob DEF Apart
<1>5. LedgerReachesSaga
  BY DEF Init, LedgerReachesSaga
<1> QED
  BY <1>1, <1>2, <1>3, <1>4, <1>5, IdleJob DEF CInv

----------------------------------------------------------------------------
(* A handler's step that changes no table: it becomes j. *)

LEMMA GoKeeps ==
  ASSUME CInv, NEW w \in Worker, NEW j \in Job,
         Go(w, j), JobOk(j), ~At(w, "webhook", "publish"),
         \A v \in Worker \ {w} : Apart(job[v], j) /\ Apart(j, job[v]),
         UNCHANGED <<tables, stripe, bus, published, crashes>>,
         faults' \in 0 .. MaxFaults
  PROVE  CInv'
<1>1. job' = [job EXCEPT ![w] = j] /\ job \in [Worker -> Job]
  BY DEF Go, CInv, Typing
<1>2. \A v \in Worker : job'[v] = IF v = w THEN j ELSE job[v]
  BY <1>1
<1>3. Typing'
  BY <1>1 DEF CInv, Typing, tables, stripe
<1>4. Books'
  BY DEF CInv, Books, ChargedIsKnown, SucceededIsCharged, ConfirmedIsPaid, Charged, tables, stripe
<1>5. \A k \in Job : JobOk(k)' <=> JobOk(k)
  BY DEF JobOk, PayOk, WebhookOk, SagaOk, Charged, tables, stripe
<1>6. \A v \in Worker : JobOk(job[v])'
  <2> SUFFICES ASSUME NEW v \in Worker PROVE JobOk(job[v])'
    OBVIOUS
  <2>1. job'[v] \in Job /\ JobOk(job'[v])
    BY <1>1, <1>2 DEF CInv
  <2> QED
    BY <2>1, <1>5 DEF JobOk, PayOk, WebhookOk, SagaOk, Charged, tables, stripe
<1>7. \A u, v \in Worker : u # v => Apart(job[u], job[v])'
  BY <1>2 DEF CInv, Apart
<1>8. LedgerReachesSaga'
  BY <1>2 DEF CInv, LedgerReachesSaga, At, tables, stripe
<1> QED
  BY <1>3, <1>4, <1>6, <1>7, <1>8 DEF CInv

(* An idle handler, and any that does not open an intent or publish, is apart
   from every other. *)
LEMMA ApartFrom ==
  ASSUME NEW j, NEW k, k.kind # "pay", k.pc # "publish"
  PROVE  Apart(j, k) /\ Apart(k, j)
  BY DEF Apart

LEMMA StartPayC ==
  ASSUME CInv, NEW w \in Worker, NEW b \in Booking, NEW i \in Intent, StartPay(w, b, i)
  PROVE  CInv'
<1> DEFINE j == Opening(b, i)
<1>1. j \in Job /\ j.kind = "pay" /\ j.pc = "createIntent" /\ j.booking = b /\ j.intent = i
  BY PayJob
<1>2. Go(w, j)
  BY DEF StartPay, Opening
<1> HIDE DEF j
<1>3. i \notin open
  BY NoneAssumption DEF StartPay, CInv, Books, ChargedIsKnown, NoneAssumption
<1>4. JobOk(j)
  BY <1>1, <1>3 DEF JobOk, PayOk
<1>5. ~At(w, "webhook", "publish")
  BY IdleJob DEF StartPay, At
<1>6. \A v \in Worker \ {w} : Apart(job[v], j) /\ Apart(j, job[v])
  BY <1>1 DEF StartPay, Apart
<1>7. UNCHANGED <<tables, stripe, bus, published, crashes>> /\ faults' = faults
  BY DEF StartPay, budget
<1> QED
  BY <1>1, <1>2, <1>4, <1>5, <1>6, <1>7, GoKeeps DEF CInv, Typing

LEMMA DeliverC ==
  ASSUME CInv, NEW w \in Worker, NEW e \in Event, Deliver(w, e)
  PROVE  CInv'
<1> DEFINE j == [Idle EXCEPT !.kind = "webhook", !.pc = "exists",
                             !.intent = e.intent, !.event = e]
<1>1. j \in Job /\ j.kind = "webhook" /\ j.pc = "exists" /\ j.event = e /\ j.intent = e.intent
  BY WebhookJob
<1>2. Go(w, j)
  BY DEF Deliver
<1> HIDE DEF j
<1>3. JobOk(j)
  BY <1>1 DEF Deliver, JobOk, WebhookOk
<1>4. ~At(w, "webhook", "publish")
  BY IdleJob DEF Deliver, At
<1>5. \A v \in Worker \ {w} : Apart(job[v], j) /\ Apart(j, job[v])
  BY <1>1, ApartFrom
<1>6. UNCHANGED <<tables, stripe, bus, published, crashes>> /\ faults' = faults
  BY DEF Deliver, budget
<1> QED
  BY <1>1, <1>2, <1>3, <1>4, <1>5, <1>6, GoKeeps DEF CInv, Typing

LEMMA FindC ==
  ASSUME CInv, NEW w \in Worker, Find(w)
  PROVE  CInv'
<1> DEFINE e == job[w].event
           k == [job[w] EXCEPT !.pc = "save", !.mem = Marked(e.type)]
           j == IF Accepts(payment[e.intent], e.type) THEN k ELSE Idle
<1>1. job[w] \in Job /\ job[w].kind = "webhook" /\ job[w].pc = "find" /\ WebhookOk(job[w])
  BY DEF Find, At, CInv, Typing, JobOk, PayOk, SagaOk, Idle
<1>2. Marked(e.type) \in PaymentStatus
  BY DEF Marked, PaymentStatus
<1>3. /\ k \in Job /\ k.pc = "save" /\ k.kind = "webhook" /\ k.event = e
      /\ k.intent = job[w].intent /\ k.mem = Marked(e.type)
  BY <1>1, <1>2 DEF Job, Step
<1>4. j \in Job /\ j.kind # "pay" /\ j.pc # "publish"
  BY <1>3, IdleJob
<1>5. JobOk(j)
  BY <1>1, <1>3, IdleJob DEF JobOk, WebhookOk
<1>6. Go(w, j) /\ UNCHANGED <<tables, stripe, bus, published, crashes>> /\ faults' = faults
  BY DEF Find, budget
<1>7. ~At(w, "webhook", "publish")
  BY <1>1 DEF At
<1> HIDE DEF j
<1>8. \A v \in Worker \ {w} : Apart(job[v], j) /\ Apart(j, job[v])
  BY <1>4, ApartFrom
<1> QED
  BY <1>4, <1>5, <1>6, <1>7, <1>8, GoKeeps DEF CInv, Typing

LEMMA SaveC ==
  ASSUME CInv, NEW w \in Worker, Save(w)
  PROVE  CInv'
<1> DEFINE j == [job[w] EXCEPT !.pc = "record"]
<1>1. job[w] \in Job /\ job[w].kind = "webhook" /\ job[w].pc = "save" /\ WebhookOk(job[w])
  BY DEF Save, At, CInv, Typing, JobOk, PayOk, SagaOk, Idle
<1>2. /\ j \in Job /\ j.pc = "record" /\ j.kind = "webhook" /\ j.event = job[w].event
      /\ j.intent = job[w].intent /\ j.mem = job[w].mem
  BY <1>1, PcStep DEF Step
<1>3. Go(w, j) /\ UNCHANGED <<tables, stripe, bus, published, crashes>> /\ faults' = faults
  BY DEF Save, budget
<1>4. ~At(w, "webhook", "publish")
  BY <1>1 DEF At
<1> HIDE DEF j
<1>5. JobOk(j)
  <2>1. job[w].mem = Marked(job[w].event.type) /\ job[w].event \in emitted
        /\ job[w].intent = job[w].event.intent
    BY <1>1 DEF WebhookOk
  <2>2. WebhookOk(j)
    BY <1>2, <2>1 DEF WebhookOk
  <2> QED
    BY <2>2 DEF JobOk
<1>6. \A v \in Worker \ {w} : Apart(job[v], j) /\ Apart(j, job[v])
  BY <1>2, ApartFrom
<1> QED
  BY <1>2, <1>3, <1>4, <1>5, <1>6, GoKeeps DEF CInv, Typing

(* A handler that ends without a write. *)
LEMMA EndC ==
  ASSUME CInv, NEW w \in Worker, Go(w, Idle), ~At(w, "webhook", "publish"),
         UNCHANGED <<tables, stripe, bus, published, crashes>>, faults' \in 0 .. MaxFaults
  PROVE  CInv'
<1>1. \A v \in Worker \ {w} : Apart(job[v], Idle) /\ Apart(Idle, job[v])
  BY IdleJob, ApartFrom
<1> QED
  BY <1>1, IdleJob, GoKeeps

LEMMA NightsTakenC ==
  ASSUME CInv, NEW w \in Worker, NightsTaken(w)
  PROVE  CInv'
  BY EndC DEF NightsTaken, At, budget, CInv, Typing

LEMMA FaultC ==
  ASSUME CInv, NEW w \in Worker, Fault(w)
  PROVE  CInv'
<1>1. faults' \in 0 .. MaxFaults
  BY TriesAssumption DEF Fault, CInv, Typing, TriesAssumption
<1> QED
  BY <1>1, EndC DEF Fault, At

(* The sweep and a cancel start to settle a booking. *)
LEMMA SettleC ==
  ASSUME CInv, NEW w \in Worker, NEW b \in Booking, NEW to \in {"Expired", "Cancelled"},
         job[w] = Idle, Go(w, Settling(b, to, None)),
         UNCHANGED <<tables, stripe, bus, published, budget>>
  PROVE  CInv'
<1> DEFINE j == Settling(b, to, None)
<1>1. /\ j \in Job /\ j.kind = "saga" /\ j.pc = "saveBooking" /\ j.booking = b /\ j.mem = to
  BY SagaJob DEF BookingStatus
<1> HIDE DEF j
<1>2. JobOk(j)
  BY <1>1 DEF JobOk, SagaOk
<1>3. \A v \in Worker \ {w} : Apart(job[v], j) /\ Apart(j, job[v])
  BY <1>1, ApartFrom
<1>4. ~At(w, "webhook", "publish")
  BY IdleJob DEF At
<1>5. Go(w, j) /\ UNCHANGED <<tables, stripe, bus, published, crashes>>
      /\ faults' \in 0 .. MaxFaults
  BY DEF j, budget, CInv, Typing
<1> QED
  BY <1>1, <1>2, <1>3, <1>4, <1>5, GoKeeps

----------------------------------------------------------------------------
(* Steps that change a table or an object of Stripe *)

(* What a handler holds outlives a step after which Stripe, the ledger and
   the ranges of the tables have only grown, its own intent is still closed
   and its own event still unpublished. *)
LEMMA JobKept ==
  ASSUME CInv, NEW j \in Job, JobOk(j),
         emitted \subseteq emitted', charged \subseteq charged', ledger \subseteq ledger',
         \A i \in open : payFor'[i] = payFor[i],
         j.kind = "pay" => j.intent \notin open' /\ payFor'[j.intent] = payFor[j.intent],
         j.kind = "webhook" /\ j.pc = "publish" => published'[j.event] = published[j.event]
  PROVE  (JobOk(j))'
<1>1. CASE j = Idle
  BY <1>1 DEF JobOk
<1>2. CASE PayOk(j)
  BY <1>2 DEF JobOk, PayOk
<1>3. CASE WebhookOk(j)
  BY <1>3 DEF JobOk, WebhookOk
<1>4. CASE SagaOk(j)
  <2>1. Charged(j.booking) => Charged(j.booking)'
    BY DEF Charged, CInv, Books
  <2> QED
    BY <1>4, <2>1 DEF JobOk, SagaOk
<1> QED
  BY <1>1, <1>2, <1>3, <1>4 DEF JobOk

LEMMA SameJobKept ==
  ASSUME CInv, NEW v \in Worker, job'[v] = job[v],
         emitted \subseteq emitted', charged \subseteq charged', ledger \subseteq ledger',
         \A i \in open : payFor'[i] = payFor[i],
         job[v].kind = "pay" =>
           job[v].intent \notin open' /\ payFor'[job[v].intent] = payFor[job[v].intent],
         job[v].kind = "webhook" /\ job[v].pc = "publish" =>
           published'[job[v].event] = published[job[v].event]
  PROVE  (JobOk(job[v]))'
<1>1. PICK j \in Job : j = job[v]
  BY DEF CInv, Typing
<1>2. JobOk(j)
  BY <1>1 DEF CInv
<1>3. (JobOk(j))'
  BY <1>1, <1>2, JobKept
<1> QED
  BY <1>1, <1>3 DEF JobOk, PayOk, WebhookOk, SagaOk, Charged

(* The intent of a handler that opens one is not open. *)
LEMMA PayIntents ==
  ASSUME CInv, NEW v \in Worker, job[v].kind = "pay"
  PROVE  job[v].intent \in Intent \ open /\ PayOk(job[v])
  BY DEF CInv, JobOk, PayOk, WebhookOk, SagaOk, Idle

(* What is to be published is recorded and has not been published. *)
LEMMA Publishers ==
  ASSUME CInv, NEW v \in Worker, job[v].pc = "publish"
  PROVE  /\ job[v].kind = "webhook" /\ job[v].event \in ledger
         /\ published[job[v].event] = 0
  BY DEF CInv, JobOk, PayOk, WebhookOk, SagaOk, Idle

LEMMA CreateIntentC ==
  ASSUME CInv, NEW w \in Worker, CreateIntent(w)
  PROVE  CInv'
<1> DEFINE j == [job[w] EXCEPT !.pc = "savePayment"]
           i == job[w].intent
<1>1. job[w] \in Job /\ job[w].kind = "pay" /\ job[w].pc = "createIntent" /\ PayOk(job[w])
  BY DEF CreateIntent, At, CInv, Typing, JobOk, WebhookOk, SagaOk, Idle
<1>2. /\ j \in Job /\ j.pc = "savePayment" /\ j.kind = "pay" /\ j.intent = i
      /\ j.booking = job[w].booking
  BY <1>1, PcStep DEF Step
<1>3. /\ payFor' = [payFor EXCEPT ![i] = job[w].booking]
      /\ job' = [job EXCEPT ![w] = j]
      /\ UNCHANGED <<booking, payment, ledger, open, tries, charged, emitted, acked, bus,
                     published, faults, crashes>>
  BY DEF CreateIntent, Go, tables, budget
<1> HIDE DEF j
<1>4. i \in Intent \ open /\ job[w].booking \in Booking
  BY <1>1 DEF PayOk
<1>5. /\ payFor' \in [Intent -> Booking \cup {None}]
      /\ \A k \in Intent : k # i => payFor'[k] = payFor[k]
      /\ payFor'[i] \in Booking
  BY <1>3, <1>4 DEF CInv, Typing
<1>6. job' \in [Worker -> Job] /\ \A v \in Worker : job'[v] = IF v = w THEN j ELSE job[v]
  BY <1>2, <1>3 DEF CInv, Typing
<1>7. Typing'
  BY <1>3, <1>5, <1>6 DEF CInv, Typing
<1>8. Books'
  <2>1. \A k \in open : payFor'[k] = payFor[k]
    BY <1>4, <1>5 DEF CInv, Typing
  <2>2. ChargedIsKnown'
    BY <1>3, <2>1 DEF CInv, Books, ChargedIsKnown
  <2>3. ConfirmedIsPaid'
    BY <1>3, <2>1 DEF CInv, Books, ConfirmedIsPaid, Charged
  <2> QED
    BY <1>3, <2>2, <2>3 DEF CInv, Books, SucceededIsCharged
<1>9. \A v \in Worker : JobOk(job[v])'
  <2> SUFFICES ASSUME NEW v \in Worker PROVE JobOk(job[v])'
    OBVIOUS
  <2>1. CASE v = w
    BY <1>2, <1>3, <1>4, <1>5, <1>6, <2>1 DEF JobOk, PayOk
  <2>2. CASE v # w
    <3>1. job'[v] = job[v]
      BY <1>6, <2>2
    <3>2. job[v].kind = "pay" => job[v].intent # i /\ job[v].intent \in Intent \ open
      BY <1>1, <2>2, PayIntents DEF CInv, Apart
    <3>3. \A k \in open : payFor'[k] = payFor[k]
      BY <1>4, <1>5 DEF CInv, Typing
    <3> QED
      BY <1>3, <1>5, <3>1, <3>2, <3>3, SameJobKept
  <2> QED
    BY <2>1, <2>2
<1>10. \A u, v \in Worker : u # v => Apart(job[u], job[v])'
  BY <1>1, <1>2, <1>6 DEF CInv, Apart
<1>11. LedgerReachesSaga'
  BY <1>1, <1>3, <1>6 DEF CInv, LedgerReachesSaga, At
<1> QED
  BY <1>7, <1>8, <1>9, <1>10, <1>11 DEF CInv

LEMMA SavePaymentC ==
  ASSUME CInv, NEW w \in Worker, SavePayment(w)
  PROVE  CInv'
<1> DEFINE i == job[w].intent
<1>1. job[w].kind = "pay" /\ job[w].pc = "savePayment" /\ i \in Intent \ open
      /\ payFor[i] \in Booking
  BY PayIntents DEF SavePayment, At, PayOk
<1>2. /\ payment' = [payment EXCEPT ![i] = "Pending"]
      /\ open' = open \cup {i}
      /\ job' = [job EXCEPT ![w] = Idle]
      /\ UNCHANGED <<booking, ledger, payFor, tries, charged, emitted, acked, bus,
                     published, faults, crashes>>
  BY DEF SavePayment, Go, budget
<1>3. job' \in [Worker -> Job] /\ \A v \in Worker : job'[v] = IF v = w THEN Idle ELSE job[v]
  BY <1>2, IdleJob DEF CInv, Typing
<1>4. /\ payment' \in [Intent -> PaymentStatus]
      /\ \A k \in Intent : payment'[k] = IF k = i THEN "Pending" ELSE payment[k]
  BY <1>1, <1>2 DEF CInv, Typing, PaymentStatus
<1>5. Typing'
  BY <1>1, <1>2, <1>3, <1>4 DEF CInv, Typing
<1>6. Books'
  <2>1. ChargedIsKnown'
    BY <1>1, <1>2, <1>4 DEF CInv, Typing, Books, ChargedIsKnown
  <2>2. SucceededIsCharged'
    BY <1>2, <1>4 DEF CInv, Books, SucceededIsCharged
  <2>3. ConfirmedIsPaid'
    BY <1>2 DEF CInv, Books, ConfirmedIsPaid, Charged
  <2> QED
    BY <1>2, <2>1, <2>2, <2>3 DEF CInv, Books
<1>7. ASSUME NEW v \in Worker PROVE JobOk(job[v])'
  <2>1. CASE v = w
    BY <1>3, <2>1 DEF JobOk, Idle
  <2>2. CASE v # w
    <3>1. job'[v] = job[v]
      BY <1>3, <2>2
    <3>2. job[v].kind = "pay" => job[v].intent \notin open'
      BY <1>1, <1>2, <2>2, PayIntents DEF CInv, Apart
    <3> QED
      BY <1>2, <3>1, <3>2, SameJobKept
  <2> QED
    BY <2>1, <2>2
<1>8. \A u, v \in Worker : u # v => Apart(job[u], job[v])'
  BY <1>3, IdleJob DEF CInv, Apart
<1>9. LedgerReachesSaga'
  BY <1>1, <1>2, <1>3 DEF CInv, LedgerReachesSaga, At
<1> QED
  BY <1>5, <1>6, <1>7, <1>8, <1>9 DEF CInv

LEMMA TryCardC ==
  ASSUME CInv, NEW i \in Intent, NEW type \in Outcome, TryCard(i, type)
  PROVE  CInv'
<1> DEFINE e == [intent |-> i, try |-> tries[i] + 1, type |-> type]
<1>1. /\ i \in open /\ tries[i] < MaxTries
      /\ tries' = [tries EXCEPT ![i] = @ + 1]
      /\ charged' = IF type = "succeeded" THEN charged \cup {i} ELSE charged
      /\ emitted' = emitted \cup {e}
      /\ UNCHANGED <<booking, payment, ledger, payFor, open, acked, bus, published,
                     faults, crashes, job>>
  BY DEF TryCard, tables, budget
<1>2. tries[i] + 1 \in 1 .. MaxTries
  BY <1>1, TriesAssumption DEF CInv, Typing, TriesAssumption
<1>3. e \in Event /\ e.intent = i /\ e.type = type
  BY <1>2 DEF Event
<1> HIDE DEF e
<1>4. tries' \in [Intent -> 0 .. MaxTries]
  BY <1>1, <1>2 DEF CInv, Typing
<1>5. Typing'
  BY <1>1, <1>3, <1>4 DEF CInv, Typing
<1>6. charged \subseteq charged' /\ emitted \subseteq emitted' /\ charged' \subseteq open
  BY <1>1 DEF CInv, Books
<1>7. Books'
  <2>1. ChargedIsKnown' /\ SucceededIsCharged'
    BY <1>1, <1>6 DEF CInv, Books, ChargedIsKnown, SucceededIsCharged
  <2>2. ConfirmedIsPaid'
    BY <1>1, <1>6 DEF CInv, Books, ConfirmedIsPaid, Charged
  <2>3. \A d \in emitted' : d.intent \in open /\ (d.type = "succeeded" => d.intent \in charged')
    BY <1>1, <1>3, <1>6 DEF CInv, Books
  <2> QED
    BY <1>1, <1>6, <2>1, <2>2, <2>3 DEF CInv, Books
<1>8. ASSUME NEW v \in Worker PROVE JobOk(job[v])'
  <2>1. job[v].kind = "pay" => job[v].intent \notin open'
    BY <1>1, PayIntents
  <2> QED
    BY <1>1, <1>6, <2>1, SameJobKept
<1>9. (\A u, v \in Worker : u # v => Apart(job[u], job[v]))' /\ LedgerReachesSaga'
  BY <1>1 DEF CInv, Apart, LedgerReachesSaga, At
<1> QED
  BY <1>5, <1>7, <1>8, <1>9 DEF CInv

LEMMA ExistsC ==
  ASSUME CInv, NEW w \in Worker, Exists(w)
  PROVE  CInv'
<1> DEFINE e == job[w].event
           k == [job[w] EXCEPT !.pc = "find"]
<1>1. /\ job[w] \in Job /\ job[w].kind = "webhook" /\ job[w].pc = "exists"
      /\ WebhookOk(job[w])
  BY DEF Exists, At, CInv, Typing, JobOk, PayOk, SagaOk, Idle
<1>2. /\ k \in Job /\ k.pc = "find" /\ k.kind = "webhook" /\ k.event = e
      /\ k.intent = job[w].intent
  BY <1>1, PcStep DEF Step
<1>3. PICK j \in {k, Idle} : Go(w, j)
  BY DEF Exists
<1>4. j \in Job /\ j.kind # "pay" /\ j.pc # "publish"
  BY <1>2, IdleJob
<1>5. acked' \subseteq emitted
  BY <1>1 DEF Exists, CInv, Books, WebhookOk
<1>6. /\ UNCHANGED <<booking, payment, ledger, payFor, open, tries, charged, emitted, bus,
                     published, faults, crashes>>
  BY DEF Exists, tables, budget
<1>7. job' \in [Worker -> Job] /\ \A v \in Worker : job'[v] = IF v = w THEN j ELSE job[v]
  BY <1>3, <1>4 DEF Go, CInv, Typing
<1>8. JobOk(j)
  <2>1. WebhookOk(k)
    BY <1>1, <1>2 DEF WebhookOk
  <2> QED
    BY <1>3, <2>1, IdleJob DEF JobOk
<1> HIDE DEF k
<1>9. Typing' /\ Books'
  BY <1>5, <1>6, <1>7 DEF CInv, Typing, Books, ChargedIsKnown, SucceededIsCharged,
                          ConfirmedIsPaid, Charged
<1>10. ASSUME NEW v \in Worker PROVE JobOk(job[v])'
  <2>1. CASE v = w
    <3>1. job'[v] = j
      BY <1>7, <2>1
    <3> QED
      BY <1>6, <1>8, <3>1 DEF JobOk, PayOk, WebhookOk, SagaOk, Charged
  <2>2. CASE v # w
    BY <1>6, <1>7, <2>2, PayIntents, SameJobKept
  <2> QED
    BY <2>1, <2>2
<1>11. \A u, v \in Worker : u # v => Apart(job[u], job[v])'
  BY <1>4, <1>7 DEF CInv, Apart
<1>12. LedgerReachesSaga'
  BY <1>1, <1>6, <1>7 DEF CInv, LedgerReachesSaga, At
<1> QED
  BY <1>9, <1>10, <1>11, <1>12 DEF CInv

(* Nobody else publishes an event that is not recorded yet. *)
LEMMA RecordC ==
  ASSUME CInv, NEW w \in Worker, Record(w)
  PROVE  CInv'
<1> DEFINE e == job[w].event
<1>1. /\ job[w] \in Job /\ job[w].kind = "webhook" /\ job[w].pc = "record"
      /\ WebhookOk(job[w])
  BY DEF Record, At, CInv, Typing, JobOk, PayOk, SagaOk, Idle
<1>2. CASE e \in ledger
  <2>1. Go(w, Idle) /\ UNCHANGED <<tables, stripe, bus, published, crashes>> /\ faults' = faults
    BY <1>2 DEF Record, tables, budget
  <2> QED
    BY <1>1, <2>1, EndC DEF At, CInv, Typing
<1>3. CASE e \notin ledger
  <2> DEFINE j == [job[w] EXCEPT !.pc = "publish"]
  <2>1. /\ j \in Job /\ j.pc = "publish" /\ j.kind = "webhook" /\ j.event = e
        /\ j.intent = job[w].intent
    BY <1>1, PcStep DEF Step
  <2>2. /\ ledger' = ledger \cup {e}
        /\ payment' = [payment EXCEPT ![e.intent] = job[w].mem]
        /\ job' = [job EXCEPT ![w] = j]
        /\ UNCHANGED <<booking, payFor, open, tries, charged, emitted, acked, bus, published,
                       faults, crashes>>
    BY <1>3 DEF Record, Go, stripe, budget
  <2> HIDE DEF j
  <2>3. /\ e \in emitted /\ e \in Event /\ e.intent \in open /\ e.intent \in Intent
        /\ job[w].mem = Marked(e.type) /\ (e.type = "succeeded" => e.intent \in charged)
    BY <1>1 DEF WebhookOk, CInv, Typing, Books
  <2>4. /\ payment' \in [Intent -> PaymentStatus]
        /\ \A i \in Intent : payment'[i] = IF i = e.intent THEN Marked(e.type) ELSE payment[i]
    BY <2>2, <2>3 DEF CInv, Typing, PaymentStatus, Marked
  <2>5. job' \in [Worker -> Job] /\ \A v \in Worker : job'[v] = IF v = w THEN j ELSE job[v]
    BY <2>1, <2>2 DEF CInv, Typing
  <2>6. Typing'
    BY <2>2, <2>4, <2>5 DEF CInv, Typing
  <2>7. Books'
    <3>1. ChargedIsKnown'
      BY <2>2, <2>4 DEF CInv, Typing, Books, ChargedIsKnown, Marked
    <3>2. SucceededIsCharged'
      BY <2>2, <2>3, <2>4 DEF CInv, Books, SucceededIsCharged, Marked
    <3>3. ConfirmedIsPaid'
      BY <2>2 DEF CInv, Books, ConfirmedIsPaid, Charged
    <3> QED
      BY <2>2, <2>3, <3>1, <3>2, <3>3 DEF CInv, Books
  <2>8. published[e] = 0
    BY <1>3, <2>3 DEF CInv, Books, Typing
  <2>9. ASSUME NEW v \in Worker PROVE JobOk(job[v])'
    <3>1. CASE v = w
      BY <2>1, <2>2, <2>3, <2>5, <2>8, <1>1, <3>1 DEF JobOk, WebhookOk
    <3>2. CASE v # w
      BY <2>2, <2>5, <3>2, PayIntents, SameJobKept
    <3> QED
      BY <3>1, <3>2
  <2>10. \A u, v \in Worker : u # v => Apart(job[u], job[v])'
    BY <1>3, <2>1, <2>5, Publishers DEF CInv, Apart
  <2>11. LedgerReachesSaga'
    <3>1. At(w, "webhook", "publish")' /\ job'[w].event = e
      BY <2>1, <2>5 DEF At
    <3> QED
      BY <1>1, <2>2, <2>5, <3>1 DEF CInv, LedgerReachesSaga, At
  <2> QED
    BY <2>6, <2>7, <2>9, <2>10, <2>11 DEF CInv
<1> QED
  BY <1>2, <1>3

LEMMA PublishC ==
  ASSUME CInv, NEW w \in Worker, Publish(w)
  PROVE  CInv'
<1> DEFINE e == job[w].event
<1>1. /\ job[w].kind = "webhook" /\ job[w].pc = "publish" /\ e \in ledger /\ published[e] = 0
  BY Publishers DEF Publish, At
<1>2. /\ bus' = bus \cup {e} /\ acked' = acked \cup {e}
      /\ published' = [published EXCEPT ![e] = @ + 1]
      /\ job' = [job EXCEPT ![w] = Idle]
      /\ UNCHANGED <<booking, payment, ledger, payFor, open, tries, charged, emitted,
                     faults, crashes>>
  BY DEF Publish, Go, tables, budget
<1>3. e \in emitted /\ e \in Event
  BY <1>1 DEF CInv, Books, Typing
<1>4. job' \in [Worker -> Job] /\ \A v \in Worker : job'[v] = IF v = w THEN Idle ELSE job[v]
  BY <1>2, IdleJob DEF CInv, Typing
<1>5. /\ published' \in [Event -> Nat]
      /\ \A d \in Event : published'[d] = IF d = e THEN 1 ELSE published[d]
  BY <1>1, <1>2, <1>3 DEF CInv, Typing
<1>6. Typing'
  BY <1>2, <1>4, <1>5 DEF CInv, Typing
<1>7. Books'
  BY <1>1, <1>2, <1>3, <1>5 DEF CInv, Books, ChargedIsKnown, SucceededIsCharged,
                                ConfirmedIsPaid, Charged
<1>8. ASSUME NEW v \in Worker PROVE JobOk(job[v])'
  <2>1. CASE v = w
    BY <1>4, <2>1 DEF JobOk, Idle
  <2>2. CASE v # w
    <3>1. job[v].pc = "publish" => job[v].event # e /\ job[v].event \in Event
      BY <1>1, <2>2, Publishers DEF CInv, Apart, Books, Typing
    <3>2. job'[v] = job[v]
      BY <1>4, <2>2
    <3> QED
      BY <1>2, <1>5, <3>1, <3>2, PayIntents, SameJobKept
  <2> QED
    BY <2>1, <2>2
<1>9. \A u, v \in Worker : u # v => Apart(job[u], job[v])'
  BY <1>4, IdleJob DEF CInv, Apart
<1>10. LedgerReachesSaga'
  <2> SUFFICES ASSUME NEW d \in ledger', published'[d] <= 0, ~(crashes' > 0)
               PROVE  \E v \in Worker : (At(v, "webhook", "publish") /\ job[v].event = d)'
    BY <1>2, <1>5, <1>6 DEF LedgerReachesSaga, CInv, Typing, Books
  <2>1. d \in Event /\ d \in ledger
    BY <1>2 DEF CInv, Books, Typing
  <2>2. d # e /\ published[d] <= 0
    BY <1>5, <2>1
  <2>3. PICK v \in Worker : At(v, "webhook", "publish") /\ job[v].event = d
    BY <1>2, <2>1, <2>2 DEF CInv, LedgerReachesSaga, Typing
  <2>4. v # w
    BY <2>2, <2>3
  <2> QED
    BY <1>4, <2>3, <2>4 DEF At
<1> QED
  BY <1>6, <1>7, <1>8, <1>9, <1>10 DEF CInv

(* The saga acts on the booking of an open intent; a success it is told of was
   charged. *)
LEMMA StartSagaC ==
  ASSUME CInv, NEW w \in Worker, NEW e \in Event, StartSaga(w, e)
  PROVE  CInv'
<1> DEFINE b == payFor[e.intent]
<1>1. /\ job[w] = Idle /\ e \in bus /\ bus' = bus \ {e}
      /\ UNCHANGED <<booking, payment, ledger, payFor, open, tries, charged, emitted,
                     acked, published, faults, crashes>>
  BY DEF StartSaga, tables, stripe, budget
<1>2. b \in Booking /\ (e.type = "succeeded" => Charged(b))
  BY <1>1 DEF CInv, Books, ChargedIsKnown, Charged
<1>3. SettledAs(e.type) \in {"Confirmed", "Expired"}
      /\ (SettledAs(e.type) = "Confirmed" => e.type = "succeeded")
  BY DEF SettledAs
<1> DEFINE s == Settling(b, SettledAs(e.type), e)
<1>4. /\ s \in Job /\ s.kind = "saga" /\ s.pc = "saveBooking" /\ s.booking = b
      /\ s.mem = SettledAs(e.type)
  BY <1>2, <1>3, SagaJob DEF BookingStatus
<1>5. JobOk(s)
  BY <1>2, <1>3, <1>4 DEF JobOk, SagaOk
<1>6. PICK j \in {s, Idle} : Go(w, j)
  <2>1. job \in [Worker -> Job]
    BY DEF CInv, Typing
  <2>2. [job EXCEPT ![w] = Idle] = job
    BY <1>1, <2>1
  <2>3. Go(w, s) \/ UNCHANGED job
    BY DEF StartSaga
  <2> QED
    BY <2>2, <2>3 DEF Go
<1> HIDE DEF s, b
<1>7. j \in Job /\ j.kind # "pay" /\ j.pc # "publish" /\ JobOk(j)
  BY <1>4, <1>5, <1>6, IdleJob
<1>8. job' \in [Worker -> Job] /\ \A v \in Worker : job'[v] = IF v = w THEN j ELSE job[v]
  BY <1>6, <1>7 DEF Go, CInv, Typing
<1>9. Typing' /\ Books'
  BY <1>1, <1>8 DEF CInv, Typing, Books, ChargedIsKnown, SucceededIsCharged,
                    ConfirmedIsPaid, Charged
<1>10. ASSUME NEW v \in Worker PROVE JobOk(job[v])'
  <2>1. CASE v = w
    <3>1. job'[v] = j
      BY <1>8, <2>1
    <3> QED
      BY <1>1, <1>7, <3>1 DEF JobOk, PayOk, WebhookOk, SagaOk, Charged
  <2>2. CASE v # w
    BY <1>1, <1>8, <2>2, PayIntents, SameJobKept
  <2> QED
    BY <2>1, <2>2
<1>11. \A u, v \in Worker : u # v => Apart(job[u], job[v])'
  BY <1>7, <1>8 DEF CInv, Apart
<1>12. LedgerReachesSaga'
  BY <1>1, <1>8, IdleJob DEF CInv, LedgerReachesSaga, At
<1> QED
  BY <1>9, <1>10, <1>11, <1>12 DEF CInv

LEMMA SaveBookingC ==
  ASSUME CInv, NEW w \in Worker, SaveBooking(w)
  PROVE  CInv'
<1> DEFINE b == job[w].booking
<1>1. job[w].kind = "saga" /\ job[w].pc = "saveBooking" /\ SagaOk(job[w])
  BY DEF SaveBooking, At, CInv, JobOk, PayOk, WebhookOk, Idle
<1>2. /\ booking' = [booking EXCEPT ![b] = job[w].mem]
      /\ Go(w, Idle)
      /\ UNCHANGED <<payment, ledger, payFor, open, tries, charged, emitted, acked, bus,
                     published, faults, crashes>>
  BY DEF SaveBooking, stripe, budget
<1>3. job' \in [Worker -> Job] /\ \A v \in Worker : job'[v] = IF v = w THEN Idle ELSE job[v]
  BY <1>2, IdleJob DEF Go, CInv, Typing
<1>4. /\ b \in Booking /\ job[w].mem \in BookingStatus
      /\ (job[w].mem = "Confirmed" => Charged(b))
  BY <1>1 DEF SagaOk, BookingStatus
<1>5. /\ booking' \in [Booking -> BookingStatus]
      /\ \A c \in Booking : booking'[c] = IF c = b THEN job[w].mem ELSE booking[c]
  BY <1>2, <1>4 DEF CInv, Typing
<1>6. Typing'
  BY <1>2, <1>3, <1>5 DEF CInv, Typing
<1>7. Books'
  <2>1. ConfirmedIsPaid'
    BY <1>2, <1>4, <1>5 DEF CInv, Books, ConfirmedIsPaid, Charged
  <2> QED
    BY <1>2, <2>1 DEF CInv, Books, ChargedIsKnown, SucceededIsCharged
<1>8. ASSUME NEW v \in Worker PROVE JobOk(job[v])'
  <2>1. CASE v = w
    BY <1>3, <2>1 DEF JobOk, Idle
  <2>2. CASE v # w
    BY <1>2, <1>3, <2>2, PayIntents, SameJobKept
  <2> QED
    BY <2>1, <2>2
<1>9. \A u, v \in Worker : u # v => Apart(job[u], job[v])'
  BY <1>3, IdleJob DEF CInv, Apart
<1>10. LedgerReachesSaga'
  BY <1>1, <1>2, <1>3 DEF CInv, LedgerReachesSaga, At
<1> QED
  BY <1>6, <1>7, <1>8, <1>9, <1>10 DEF CInv

(* The tables and Stripe survive; after a crash the ledger may hold an event
   the saga was never told. *)
LEMMA CrashC ==
  ASSUME CInv, Crash
  PROVE  CInv'
<1>1. /\ crashes' = crashes + 1 /\ crashes < MaxCrashes /\ bus' = {}
      /\ job' = [w \in Worker |-> Idle]
      /\ UNCHANGED <<booking, payment, ledger, payFor, open, tries, charged, emitted,
                     acked, published, faults>>
  BY DEF Crash, tables, stripe
<1>2. crashes' \in 0 .. MaxCrashes /\ crashes' > 0
  BY <1>1, TriesAssumption DEF CInv, Typing, TriesAssumption
<1>3. Typing' /\ Books'
  BY <1>1, <1>2, IdleJob DEF CInv, Typing, Books, ChargedIsKnown, SucceededIsCharged,
                             ConfirmedIsPaid, Charged
<1>4. \A w \in Worker : JobOk(job[w])'
  BY <1>1 DEF JobOk, Idle
<1>5. \A v, w \in Worker : v # w => Apart(job[v], job[w])'
  BY <1>1, IdleJob DEF Apart
<1>6. LedgerReachesSaga'
  BY <1>2 DEF LedgerReachesSaga
<1> QED
  BY <1>3, <1>4, <1>5, <1>6 DEF CInv

----------------------------------------------------------------------------
(* Every step keeps the invariant *)

LEMMA StartC ==
  ASSUME CInv, NEW w \in Worker, Start(w)
  PROVE  CInv'
<1>1. ASSUME NEW b \in Booking, StartExpire(w, b) PROVE CInv'
  BY <1>1, SettleC DEF StartExpire
<1>2. ASSUME NEW b \in Booking, StartCancel(w, b) PROVE CInv'
  BY <1>2, SettleC DEF StartCancel
<1>3. ASSUME NEW b \in Booking, NEW i \in Intent, StartPay(w, b, i) PROVE CInv'
  BY <1>3, StartPayC
<1>4. ASSUME NEW e \in Event, Deliver(w, e) PROVE CInv'
  BY <1>4, DeliverC
<1>5. ASSUME NEW e \in Event, StartSaga(w, e) PROVE CInv'
  BY <1>5, StartSagaC
<1> QED
  BY <1>1, <1>2, <1>3, <1>4, <1>5 DEF Start

LEMMA ProceedC ==
  ASSUME CInv, NEW w \in Worker, Proceed(w)
  PROVE  CInv'
<1>1. CASE CreateIntent(w) BY <1>1, CreateIntentC
<1>2. CASE SavePayment(w) BY <1>2, SavePaymentC
<1>3. CASE Exists(w) BY <1>3, ExistsC
<1>4. CASE Find(w) BY <1>4, FindC
<1>5. CASE Save(w) BY <1>5, SaveC
<1>6. CASE Record(w) BY <1>6, RecordC
<1>7. CASE Publish(w) BY <1>7, PublishC
<1>8. CASE SaveBooking(w) BY <1>8, SaveBookingC
<1>9. CASE NightsTaken(w) BY <1>9, NightsTakenC
<1> QED
  BY <1>1, <1>2, <1>3, <1>4, <1>5, <1>6, <1>7, <1>8, <1>9 DEF Proceed

LEMMA StutterC ==
  ASSUME CInv, UNCHANGED vars
  PROVE  CInv'
  BY DEF vars, CInv, Typing, Books, ChargedIsKnown, SucceededIsCharged, ConfirmedIsPaid,
         Charged, JobOk, PayOk, WebhookOk, SagaOk, Apart, LedgerReachesSaga, At

LEMMA NextC == CInv /\ [Next]_vars => CInv'
<1> SUFFICES ASSUME CInv, [Next]_vars PROVE CInv'
  OBVIOUS
<1>1. ASSUME NEW w \in Worker, Start(w) PROVE CInv'
  BY <1>1, StartC
<1>2. ASSUME NEW w \in Worker, Proceed(w) PROVE CInv'
  BY <1>2, ProceedC
<1>3. ASSUME NEW w \in Worker, Fault(w) PROVE CInv'
  BY <1>3, FaultC
<1>4. ASSUME NEW i \in Intent, NEW type \in Outcome, TryCard(i, type) PROVE CInv'
  BY <1>4, TryCardC
<1>5. CASE Crash
  BY <1>5, CrashC
<1>6. CASE Quiet \/ UNCHANGED vars
  BY <1>6, StutterC DEF Quiet
<1> QED
  BY <1>1, <1>2, <1>3, <1>4, <1>5, <1>6 DEF Next

LEMMA CCorrect == Spec => []CInv
  BY InitC, NextC, PTL DEF Spec

----------------------------------------------------------------------------
(* What the rest of the system relies on *)

(* Tables, Stripe's objects and handlers always have their types, and Stripe
   charges, answers and publishes only what was opened and emitted. *)
THEOREM PaymentsAreTyped == Spec => []TypeOK
<1>1. CInv => TypeOK
  BY DEF CInv, Typing, Books, TypeOK
<1> QED
  BY <1>1, CCorrect, PTL

(* Whatever crash or failing call hits the request that opens an intent, a
   guest can only pay one whose row is in the payment table. *)
THEOREM ChargesAreKnown == Spec => []ChargedIsKnown
<1>1. CInv => ChargedIsKnown
  BY DEF CInv, Books
<1> QED
  BY <1>1, CCorrect, PTL

(* However many deliveries of an event run at once, the ledger's key lets one
   of them publish it. *)
THEOREM EventsArePublishedOnce == Spec => []PublishedOnce
<1>1. CInv => PublishedOnce
  BY DEF CInv, Books, PublishedOnce
<1> QED
  BY <1>1, CCorrect, PTL

(* The saga confirms a booking only when Stripe has charged one of its
   intents. *)
THEOREM ConfirmationsArePaid == Spec => []ConfirmedIsPaid
<1>1. CInv => ConfirmedIsPaid
  BY DEF CInv, Books
<1> QED
  BY <1>1, CCorrect, PTL

(* The payment table never claims money Stripe did not take. *)
THEOREM SuccessesAreCharged == Spec => []SucceededIsCharged
<1>1. CInv => SucceededIsCharged
  BY DEF CInv, Books
<1> QED
  BY <1>1, CCorrect, PTL

(* Only a crash keeps a recorded event from the saga. *)
THEOREM LedgerReachesTheSaga == Spec => []LedgerReachesSaga
<1>1. CInv => LedgerReachesSaga
  BY DEF CInv
<1> QED
  BY <1>1, CCorrect, PTL
=============================================================================
