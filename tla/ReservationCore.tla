-------------------------- MODULE ReservationCore --------------------------
(***************************************************************************)
(* The reservation core: the booking and hold tables, the four handlers    *)
(* that write them (create, cancel, and the checkout saga's confirm and    *)
(* compensate paths), the sweep that drives expiry, and the PostgreSQL     *)
(* behaviour the handlers rely on: READ COMMITTED reads, row locks held    *)
(* until the end of the transaction, and the no_overlapping_holds EXCLUDE  *)
(* constraint.                                                             *)
(*                                                                         *)
(* A booking and the hold it references are created together, by one       *)
(* transaction and with fresh ids, so one Reservation names both rows.     *)
(* Several requests, webhooks and sweeps run at once in the API process:   *)
(* a Worker is one running handler, and every await between two database   *)
(* calls is a point where another worker may step.                         *)
(***************************************************************************)
EXTENDS StayRules, Sequences, FiniteSets

CONSTANTS
  Reservation,     \* booking/hold pairs that may be created
  Stay,            \* the stays guests ask for
  Worker,          \* handlers that may be running at the same time
  Price,           \* priceSnapshot of every booking, in minor units
  Notice,          \* hours until check-in at which a guest may cancel
  NoReservation,   \* what an idle worker works on
  MaxOutcomes,     \* bound: payment outcomes delivered per booking
  MaxFaults        \* bound: transactions lost to a fault

ASSUME ReservationAssumption == NoReservation \notin Reservation
ASSUME StayAssumption ==
  \A s \in Stay : /\ s.checkIn \in Int
                  /\ s.checkOut \in Int
                  /\ s.checkIn < s.checkOut
ASSUME PriceAssumption == Price \in Nat
ASSUME NoticeAssumption == Notice \subseteq Int
ASSUME BoundsAssumption == MaxOutcomes \in Nat /\ MaxFaults \in Nat

VARIABLES
  stay,      \* listing and dates of each reservation; no handler changes them
  booking,   \* table booking: status and refundAmount
  hold,      \* table hold: status
  outbox,    \* table outbox_event: the rows of each booking, oldest first
  lapsed,    \* reservations whose hold has passed its expiresAt
  due,       \* booking ids a sweep has scanned and not yet handled
  outcomes,  \* payment outcomes delivered so far, per booking
  faults,    \* transactions lost to a fault so far
  job        \* what each worker is doing

tables == <<booking, hold, outbox>>
clock == <<lapsed, due, outcomes>>
vars == <<stay, booking, hold, outbox, lapsed, due, outcomes, faults, job>>
-----------------------------------------------------------------------------
(* refundAmount is null until the booking is cancelled.                    *)
NoRefund == -1
Refund == {NoRefund} \cup 0 .. Price

BookingRow == [status : BookingStatus \cup {Absent}, refund : Refund]
NoBooking == [status |-> Absent, refund |-> NoRefund]
NewBooking == [status |-> "PendingPayment", refund |-> NoRefund]
Moved(row, status) == [row EXCEPT !.status = status]
CancelledWith(amount) == [status |-> "Cancelled", refund |-> amount]

(* The two events a commit appends to the outbox.                          *)
BookingConfirmed == [type |-> "BookingConfirmed", refund |-> NoRefund]
BookingCancelled(amount) == [type |-> "BookingCancelled", refund |-> amount]
Event == [type : {"BookingConfirmed", "BookingCancelled"}, refund : Refund]

(* The checkout saga's three entry points; fail and expire differ only in  *)
(* what triggers them.                                                     *)
SagaKind == {"confirm", "fail", "expire"}
Kind == SagaKind \cup {"create", "cancel", "idle"}

(* The statement a handler's next database call is waiting in; "checkHold" *)
(* is the constraint check inside the upsert of a hold.                    *)
Step == {"readBooking", "readHold", "writeBooking", "writeHold", "checkHold",
         "commit", "idle"}

(* booking and hold are the aggregates in the handler's memory, wrote the  *)
(* tables in which its transaction has an uncommitted, locked row.         *)
Job == [kind : Kind, res : Reservation \cup {NoReservation}, pc : Step,
        booking : BookingRow, hold : HoldStatus \cup {Absent},
        wrote : SUBSET {"booking", "hold"}]

Idle == [kind |-> "idle", res |-> NoReservation, pc |-> "idle",
         booking |-> NoBooking, hold |-> Absent, wrote |-> {}]

Begin(kind, r, pc, row, status) ==
  [kind |-> kind, res |-> r, pc |-> pc, booking |-> row, hold |-> status,
   wrote |-> {}]

Init ==
  /\ stay \in [Reservation -> Stay]
  /\ booking = [r \in Reservation |-> NoBooking]
  /\ hold = [r \in Reservation |-> Absent]
  /\ outbox = [r \in Reservation |-> <<>>]
  /\ lapsed = {}
  /\ due = {}
  /\ outcomes = [r \in Reservation |-> 0]
  /\ faults = 0
  /\ job = [w \in Worker |-> Idle]
-----------------------------------------------------------------------------
(* Row locks and the exclusion constraint.                                 *)

(* v's transaction has an uncommitted version of r's row in this table.    *)
Wrote(v, table, r) == job[v].res = r /\ table \in job[v].wrote

RowFree(w, table) ==
  \A v \in Worker \ {w} : ~Wrote(v, table, job[w].res)

Rivals(r) == {q \in Reservation \ {r} : Clash(stay[q], stay[r])}

(* The row of q, in its committed or in v's uncommitted version, is one    *)
(* the constraint cannot ignore before v's transaction ends.               *)
InDoubt(v, q) == Wrote(v, "hold", q) /\ (Live(hold[q]) \/ Live(job[v].hold))

(* The conflict is committed and nobody is about to lift it: 23P01.        *)
ExclusionViolated(w) ==
  \E q \in Rivals(job[w].res) :
    Live(hold[q]) /\ \A v \in Worker : ~Wrote(v, "hold", q)

(* Mutant of ExclusionHolds: a SELECT for committed conflicts, which cannot *)
(* see the rows other transactions have not committed yet.                 *)
NoCommittedRival(w) == \A q \in Rivals(job[w].res) : ~Live(hold[q])

(* The constraint holds for every version that is or may become visible.   *)
ExclusionHolds(w) ==
  \A q \in Rivals(job[w].res) :
    ~Live(hold[q]) /\ \A v \in Worker : ~InDoubt(v, q)

(* w's statement waits for the end of v's transaction.                     *)
WaitsFor(w, v) ==
  /\ v # w
  /\ \/ job[w].pc = "writeBooking" /\ Wrote(v, "booking", job[w].res)
     \/ job[w].pc = "writeHold" /\ Wrote(v, "hold", job[w].res)
     \/ job[w].pc = "checkHold" /\ \E q \in Rivals(job[w].res) : InDoubt(v, q)

(* w is on a cycle of waiting transactions: every set that has the workers *)
(* w waits for and is closed under waiting also has w.                     *)
Deadlocked(w) ==
  /\ job[w].pc \in {"writeBooking", "writeHold", "checkHold"}
  /\ \A S \in SUBSET Worker :
       (\A u, v \in Worker : WaitsFor(u, v) /\ (u = w \/ u \in S) => v \in S)
         => w \in S

Go(w, j) == job' = [job EXCEPT ![w] = j]
Roll(w) == Go(w, Idle) /\ UNCHANGED <<stay, tables, clock>>
-----------------------------------------------------------------------------
(* The start of a handler, up to its first write or its first wait.        *)

Created(r) == booking[r].status # Absent

(* POST /bookings. The request names a free id pair: the ids are fresh     *)
(* uuids, so no other handler can know them before the commit. A request   *)
(* that fails leaves no row, and its pair may be used by another one.      *)
StartCreate(w, r) ==
  /\ job[w] = Idle
  /\ ~Created(r)
  /\ \A v \in Worker : job[v].res # r
  /\ Go(w, Begin("create", r, "writeHold", NewBooking, "active"))
  /\ UNCHANGED <<stay, tables, clock, faults>>

(* POST /bookings/:id/cancel. The booking is read before the transaction   *)
(* begins, the policy judges that copy, and cancel() marks it.             *)
StartCancel(w, r, notice) ==
  LET outcome == Evaluate(booking[r].status, notice, Price)
  IN  /\ job[w] = Idle
      /\ Created(r)
      /\ outcome.allowed
      /\ Go(w, Begin("cancel", r, "readHold", CancelledWith(outcome.refund),
                     Absent))
      /\ UNCHANGED <<stay, tables, clock, faults>>

(* A PaymentSucceeded or PaymentFailed event reaches the saga. A payment   *)
(* intent names an existing booking; one booking may have several intents. *)
StartOutcome(w, r, kind) ==
  /\ job[w] = Idle
  /\ Created(r)
  /\ outcomes[r] < MaxOutcomes
  /\ outcomes' = [outcomes EXCEPT ![r] = @ + 1]
  /\ Go(w, Begin(kind, r, "readBooking", NoBooking, Absent))
  /\ UNCHANGED <<stay, tables, lapsed, due, faults>>

(* The TTL of a hold runs out.                                             *)
Lapse(r) ==
  /\ Created(r)
  /\ r \notin lapsed
  /\ lapsed' = lapsed \cup {r}
  /\ UNCHANGED <<stay, tables, due, outcomes, faults, job>>

(* Mutant of Sweep: bookings whose payment already had an outcome are left  *)
(* to the saga.                                                            *)
SweepUnpaidOnly ==
  LET found == {r \in lapsed : /\ hold[r] = "active"
                               /\ booking[r].status = "PendingPayment"
                               /\ outcomes[r] = 0}
  IN  /\ due' = due \cup found
      /\ due' # due
      /\ UNCHANGED <<stay, tables, lapsed, outcomes, faults, job>>

(* HoldExpiryJob.sweep: the scan. Its two queries are one step: a booking  *)
(* that is pending at the second has an active hold from its creation on   *)
(* (PairsAgree). Ticks may overlap, so ids join the ones an earlier sweep  *)
(* has not handled yet.                                                    *)
Sweep ==
  LET found == {r \in lapsed : /\ hold[r] = "active"
                               /\ booking[r].status = "PendingPayment"}
  IN  /\ due' = due \cup found
      /\ due' # due
      /\ UNCHANGED <<stay, tables, lapsed, outcomes, faults, job>>

(* The sweep's loop calls onHoldExpired for the next id.                   *)
StartExpire(w, r) ==
  /\ job[w] = Idle
  /\ r \in due
  /\ due' = due \ {r}
  /\ Go(w, Begin("expire", r, "readBooking", NoBooking, Absent))
  /\ UNCHANGED <<stay, tables, lapsed, outcomes, faults>>
-----------------------------------------------------------------------------
(* The database calls of a running handler, in the order the code awaits   *)
(* them: create writes the hold, then the booking; the saga reads both and *)
(* writes the booking, then the hold; cancel reads the hold, writes it if  *)
(* it is still live, then writes the booking.                              *)

ReadBooking(w) ==
  LET j == job[w]
  IN  /\ j.pc = "readBooking"
      /\ Go(w, [j EXCEPT !.pc = "readHold", !.booking = booking[j.res]])
      /\ UNCHANGED <<stay, tables, clock, faults>>

(* The aggregates after the saga's two domain calls: booking.confirm() and *)
(* hold.commit(), or booking.expire() and hold.release().                  *)
SettledBooking(kind, row) ==
  Moved(row, IF kind = "confirm" THEN "Confirmed" ELSE "Expired")
SettledHold(kind) == IF kind = "confirm" THEN "committed" ELSE "released"

(* The statuses both domain calls of this kind accept.                     *)
Accepts(kind, row, status) ==
  /\ row.status = "PendingPayment"
  /\ IF kind = "confirm" THEN status = "active" ELSE Live(status)

(* The saga reads the hold; a domain call that throws rolls back.          *)
ReadHoldInSaga(w) ==
  LET j == job[w]
  IN  /\ j.pc = "readHold"
      /\ j.kind \in SagaKind
      /\ IF Accepts(j.kind, j.booking, hold[j.res])
           THEN Go(w, [j EXCEPT !.pc = "writeBooking",
                                !.booking = SettledBooking(j.kind, j.booking),
                                !.hold = SettledHold(j.kind)])
           ELSE Go(w, Idle)
      /\ UNCHANGED <<stay, tables, clock, faults>>

(* Mutant of ReadHoldInCancel: only an active hold is released.            *)
ReleaseActiveOnly(w) ==
  LET j == job[w]
  IN  /\ j.pc = "readHold"
      /\ j.kind = "cancel"
      /\ Go(w, IF hold[j.res] = "active"
                 THEN [j EXCEPT !.pc = "writeHold", !.hold = "released"]
                 ELSE [j EXCEPT !.pc = "writeBooking"])
      /\ UNCHANGED <<stay, tables, clock, faults>>

(* Cancel reads the hold: a live one is released, another is left alone.   *)
ReadHoldInCancel(w) ==
  LET j == job[w]
  IN  /\ j.pc = "readHold"
      /\ j.kind = "cancel"
      /\ Go(w, IF Live(hold[j.res])
                 THEN [j EXCEPT !.pc = "writeHold", !.hold = "released"]
                 ELSE [j EXCEPT !.pc = "writeBooking"])
      /\ UNCHANGED <<stay, tables, clock, faults>>

(* Mutant of AfterBooking: the saga commits without saving the hold.       *)
NothingAfterBooking(kind) == "commit"

AfterHold(kind) == IF kind \in SagaKind THEN "commit" ELSE "writeBooking"
AfterBooking(kind) == IF kind \in SagaKind THEN "writeHold" ELSE "commit"

(* BookingRepository.save: an upsert that waits for the row's lock and     *)
(* then writes what the handler has in memory, whatever the row has become.*)
WriteBooking(w) ==
  LET j == job[w]
  IN  /\ j.pc = "writeBooking"
      /\ RowFree(w, "booking")
      /\ Go(w, [j EXCEPT !.pc = AfterBooking(j.kind),
                         !.wrote = @ \cup {"booking"}])
      /\ UNCHANGED <<stay, tables, clock, faults>>

(* HoldRepository.save: the row is written and locked; a live status must  *)
(* then pass the constraint, any other is outside its WHERE clause.        *)
WriteHold(w) ==
  LET j == job[w]
  IN  /\ j.pc = "writeHold"
      /\ RowFree(w, "hold")
      /\ Go(w, [j EXCEPT !.pc = IF Live(j.hold) THEN "checkHold"
                                               ELSE AfterHold(j.kind),
                         !.wrote = @ \cup {"hold"}])
      /\ UNCHANGED <<stay, tables, clock, faults>>

PassExclusion(w) ==
  /\ job[w].pc = "checkHold"
  /\ ExclusionHolds(w)
  /\ Go(w, [job[w] EXCEPT !.pc = AfterHold(job[w].kind)])
  /\ UNCHANGED <<stay, tables, clock, faults>>

(* Mutant of FailExclusion: the save is retried until the night is free.   *)
RetryExclusion(w) ==
  /\ job[w].pc = "checkHold"
  /\ ExclusionViolated(w)
  /\ Go(w, [job[w] EXCEPT !.pc = "writeHold"])
  /\ UNCHANGED <<stay, tables, clock, faults>>

(* SQLSTATE 23P01, OverlappingHoldException: the transaction rolls back.   *)
FailExclusion(w) ==
  /\ job[w].pc = "checkHold"
  /\ ExclusionViolated(w)
  /\ Roll(w)
  /\ UNCHANGED faults

(* Mutant of AppendEvents: rows are skipped when the booking has some.     *)
AppendOnce(log, events) == IF log = <<>> THEN events ELSE log

AppendEvents(log, events) == log \o events

(* What the handler enqueues in its transaction.                           *)
Enqueued(j) ==
  CASE j.kind = "confirm" -> <<BookingConfirmed>>
    [] j.kind = "cancel" -> <<BookingCancelled(j.booking.refund)>>
    [] OTHER -> <<>>

(* The transaction commits: its rows become visible and its locks go.      *)
Commit(w) ==
  LET j == job[w]
      r == j.res
  IN  /\ j.pc = "commit"
      /\ booking' = [booking EXCEPT ![r] = j.booking]
      /\ hold' = IF "hold" \in j.wrote THEN [hold EXCEPT ![r] = j.hold] ELSE hold
      /\ outbox' = [outbox EXCEPT ![r] = AppendEvents(@, Enqueued(j))]
      /\ Go(w, Idle)
      /\ UNCHANGED <<stay, clock, faults>>

(* PostgreSQL aborts one transaction of a cycle of waiting ones.           *)
DeadlockVictim(w) ==
  /\ Deadlocked(w)
  /\ Roll(w)
  /\ UNCHANGED faults

(* A timeout, a lost connection or a crashed process: the transaction      *)
(* rolls back and nobody starts the handler again on its behalf.           *)
Fault(w) ==
  /\ job[w] # Idle
  /\ faults < MaxFaults
  /\ faults' = faults + 1
  /\ Roll(w)
-----------------------------------------------------------------------------
Start(w) ==
  \E r \in Reservation :
    \/ StartCreate(w, r)
    \/ \E n \in Notice : StartCancel(w, r, n)
    \/ \E kind \in {"confirm", "fail"} : StartOutcome(w, r, kind)
    \/ StartExpire(w, r)

Proceed(w) ==
  \/ ReadBooking(w)
  \/ ReadHoldInSaga(w)
  \/ ReadHoldInCancel(w)
  \/ WriteBooking(w)
  \/ WriteHold(w)
  \/ PassExclusion(w)
  \/ FailExclusion(w)
  \/ Commit(w)

(* No handler is running: the one state in which the system may stop.      *)
Quiet == (\A w \in Worker : job[w] = Idle) /\ UNCHANGED vars

Next ==
  \/ \E w \in Worker : Start(w) \/ Proceed(w) \/ DeadlockVictim(w) \/ Fault(w)
  \/ \E r \in Reservation : Lapse(r)
  \/ Sweep
  \/ Quiet

Spec == Init /\ [][Next]_vars

(* A running handler goes on: the event loop resumes it, and PostgreSQL    *)
(* breaks a deadlock. A transaction that waits for a row is queued for it  *)
(* and gets it before later comers: the saga and the cancels of a booking  *)
(* cannot both be denied a row for ever by transactions that start later.  *)
(* The sweep runs every minute and handles every id it scanned; strong     *)
(* fairness of StartExpire because a worker is a bound of the model, not a *)
(* pool of the program. Guests, Stripe, the clock and faults owe nothing.  *)
Granted(r, kind, Write(_)) ==
  \E w \in Worker : job[w].res = r /\ job[w].kind = kind /\ Write(w)

HandlerFairness ==
  /\ \A w \in Worker : SF_vars(Proceed(w))
  /\ WF_vars(\E w \in Worker : DeadlockVictim(w))

SweepFairness ==
  /\ WF_vars(Sweep)
  /\ \A r \in Reservation :
       /\ SF_vars(\E w \in Worker : StartExpire(w, r))
       /\ \A kind \in {"expire", "cancel"} :
            /\ SF_vars(Granted(r, kind, WriteBooking))
            /\ SF_vars(Granted(r, kind, WriteHold))

HandlerSpec == Spec /\ HandlerFairness
FairSpec == HandlerSpec /\ SweepFairness
-----------------------------------------------------------------------------
(* The variables have the types the tables and the handlers' memory have,  *)
(* and a handler that runs works on a reservation.                         *)
TypeOK ==
  /\ stay \in [Reservation -> Stay]
  /\ booking \in [Reservation -> BookingRow]
  /\ hold \in [Reservation -> HoldStatus \cup {Absent}]
  /\ outbox \in [Reservation -> Seq(Event)]
  /\ lapsed \subseteq Reservation
  /\ due \subseteq Reservation
  /\ outcomes \in [Reservation -> 0 .. MaxOutcomes]
  /\ faults \in 0 .. MaxFaults
  /\ job \in [Worker -> Job]
  /\ \A w \in Worker : job[w].res = NoReservation => job[w] = Idle

(* No two live holds share a night of a listing, whichever handlers raced: *)
(* not two creates, and not a create against a confirm that writes back a  *)
(* hold which was released after the confirm had read it.                  *)
NoOverbooking ==
  \A q, r \in Reservation :
    q # r /\ Clash(stay[q], stay[r]) => ~(Live(hold[q]) /\ Live(hold[r]))

(* A booking and its hold tell the same story after every commit: unpaid   *)
(* is held, confirmed is taken for good, expired is given back. The cancel *)
(* handler writes the booking from a copy older than its transaction, the  *)
(* others from copies that another commit may have overtaken.              *)
Agree(status, h) ==
  /\ status = Absent <=> h = Absent
  /\ status = "PendingPayment" <=> h = "active"
  /\ status = "Confirmed" => h = "committed"
  /\ status = "Expired" => h = "released"

PairsAgree == \A r \in Reservation : Agree(booking[r].status, hold[r])

(* Whoever replays a booking's outbox rows ends with the status and the    *)
(* refund the table has: a Confirmed or Cancelled booking's last row says  *)
(* so, however many rows the races of its handlers have produced.          *)
Announces(row, log) ==
  LET last == log[Len(log)]
  IN  /\ row.status = "Confirmed" => log # <<>> /\ last = BookingConfirmed
      /\ row.status = "Cancelled" =>
           log # <<>> /\ last = BookingCancelled(row.refund)

OutboxTellsStatus == \A r \in Reservation : Announces(booking[r], outbox[r])

(* Money is promised back only for a booking whose payment was taken: a    *)
(* positive refund has a BookingConfirmed row before it.                   *)
Paid(r) == \E i \in DOMAIN outbox[r] : outbox[r][i] = BookingConfirmed

RefundOnlyAfterConfirm ==
  \A r \in Reservation : booking[r].refund > 0 => Paid(r)

(* The same of the refund a running handler is about to write.             *)
RefundsBacked ==
  /\ RefundOnlyAfterConfirm
  /\ \A w \in Worker : job[w].booking.refund > 0 => Paid(job[w].res)

(* The nights r has secured: its hold is live, or the transaction that     *)
(* writes it live is past the constraint's check and can only commit or    *)
(* roll back.                                                              *)
Secured(r) ==
  \/ Live(hold[r])
  \/ \E w \in Worker : /\ Wrote(w, "hold", r)
                       /\ Live(job[w].hold)
                       /\ job[w].pc # "checkHold"

(* Two reservations never have a night secured at the same time: what the  *)
(* check of one saw still holds when it commits. With it NoOverbooking is  *)
(* inductive.                                                              *)
SecuredOnce ==
  \A q, r \in Reservation :
    q # r /\ Clash(stay[q], stay[r]) => ~(Secured(q) /\ Secured(r))

(* What a handler has in memory at each of its steps. A create is alone    *)
(* with its pair; the others work on a booking that exists, the saga with  *)
(* the pair of statuses it is about to write; a cancel that left the hold  *)
(* alone did so because the hold had been settled.                         *)
ShapeOf(w) ==
  LET j == job[w]
      r == j.res
  IN  /\ j.kind = "idle" => j = Idle
      /\ j.pc \in {"readBooking", "readHold"} => j.wrote = {}
      /\ j.kind = "create" =>
           /\ ~Created(r)
           /\ \A v \in Worker \ {w} : job[v].res # r
           /\ j.booking = NewBooking
           /\ j.hold = "active"
           /\ j.pc \in {"writeHold", "checkHold", "writeBooking", "commit"}
           /\ j.pc \in {"checkHold", "writeBooking", "commit"} =>
                "hold" \in j.wrote
      /\ j.kind \in SagaKind =>
           /\ Created(r)
           /\ j.pc \in {"writeBooking", "writeHold", "checkHold", "commit"} =>
                /\ j.booking.status = SettledBooking(j.kind, j.booking).status
                /\ j.hold = SettledHold(j.kind)
           /\ j.pc \in {"checkHold", "commit"} => "hold" \in j.wrote
      /\ j.kind = "cancel" =>
           /\ Created(r)
           /\ j.booking.status = "Cancelled"
           /\ j.pc \in {"readHold", "writeHold", "writeBooking", "commit"}
           /\ j.pc = "writeHold" \/ "hold" \in j.wrote => j.hold = "released"
           /\ j.pc \in {"writeBooking", "commit"} /\ "hold" \notin j.wrote =>
                hold[r] \notin {Absent, "active"}

HandlersInShape ==
  /\ \A w \in Worker : ShapeOf(w)
  /\ \A r \in due : Created(r)

(* Cancelling or expiring a booking puts its nights back on sale.          *)
NightsReturned ==
  \A r \in Reservation :
    booking[r].status \in {"Cancelled", "Expired"} => ~Live(hold[r])

(* The bookings' state graph: no status is skipped, none is left again     *)
(* once the booking is cancelled or expired.                               *)
GraphStep(from, to) ==
  \/ from = Absent /\ to = "PendingPayment"
  \/ from = "PendingPayment" /\ to \in {"Confirmed", "Expired", "Cancelled"}
  \/ from = "Confirmed" /\ to \in {"Completed", "NoShow", "Cancelled"}

StateGraph ==
  [][\A r \in Reservation :
       booking'[r].status # booking[r].status
         => GraphStep(booking[r].status, booking'[r].status)]_booking

(* A booking that is Confirmed when its cancellation commits is refunded   *)
(* by one of the two tiers for confirmed bookings, never as an unpaid one. *)
PaidCancelRefunds ==
  [][\A r \in Reservation :
       /\ booking[r].status = "Confirmed"
       /\ booking'[r].status = "Cancelled"
       => booking'[r].refund \in {Price, Price \div 2}]_booking

(* A booking that outlives its TTL does not stay unpaid: the sweep, or a   *)
(* handler that overtakes it, settles it, through lost transactions,       *)
(* deadlocks and sweeps that overlap.                                      *)
Settles(r) ==
  r \in lapsed /\ booking[r].status = "PendingPayment"
    ~> booking[r].status # "PendingPayment"

LapsedIsSettled == \A r \in Reservation : Settles(r)

(* Every handler ends: none waits forever for a row or for the constraint. *)
HandlersEnd == \A w \in Worker : job[w] # Idle ~> job[w] = Idle
-----------------------------------------------------------------------------
(* The calendar the core implements: a night belongs to the reservation    *)
(* whose live hold covers it.                                              *)
CONSTANTS Night, Nobody

ASSUME NobodyAssumption == Nobody \notin Reservation
ASSUME NightAssumption == \A n \in Night : n[2] \in Int

Covers(r, n) ==
  /\ Live(hold[r])
  /\ n[1] = stay[r].listing
  /\ n[2] \in stay[r].checkIn .. stay[r].checkOut - 1

OwnerOf ==
  [n \in Night |->
     IF \E r \in Reservation : Covers(r, n)
       THEN CHOOSE r \in Reservation : Covers(r, n)
       ELSE Nobody]

Cal == INSTANCE NightCalendar WITH owner <- OwnerOf

(* Every commit takes all the nights of one stay while they are free, or   *)
(* gives all of them back, or leaves the calendar alone.                   *)
ImplementsCalendar == Cal!Calendar
=============================================================================
