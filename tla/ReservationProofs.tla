------------------------- MODULE ReservationProofs -------------------------
(***************************************************************************)
(* What holds of the reservation core for every set of reservations, stays *)
(* and concurrently running handlers.                                      *)
(***************************************************************************)
EXTENDS ReservationCore, TLAPS

(* The policy never promises more than the price, nor less than nothing,   *)
(* and never money for a booking that is not confirmed.                    *)
LEMMA RefundBounds ==
  ASSUME NEW status, NEW notice
  PROVE  /\ Evaluate(status, notice, Price).refund \in 0 .. Price
         /\ Evaluate(status, notice, Price).refund > 0 => status = "Confirmed"
<1>1. Price \div 2 \in 0 .. Price
  BY PriceAssumption
<1>2. QED
  BY <1>1, PriceAssumption DEF Evaluate, Refused, AllowedWith

(* A row or a job changed in some of its fields keeps its type.            *)
LEMMA Constants == Idle \in Job /\ NoBooking \in BookingRow /\ NewBooking \in BookingRow
  BY DEF Idle, Job, Kind, SagaKind, Step, NoBooking, NewBooking, BookingRow,
     BookingStatus, HoldStatus, Absent, Refund, NoRefund

LEMMA BeginType ==
  ASSUME NEW kind \in Kind, NEW r \in Reservation, NEW pc \in Step,
         NEW row \in BookingRow, NEW status \in HoldStatus \cup {Absent}
  PROVE  Begin(kind, r, pc, row, status) \in Job
  BY DEF Begin, Job

LEMMA GoType ==
  ASSUME TypeOK, NEW w \in Worker, NEW j \in Job, Go(w, j),
         j = Idle \/ j.res # NoReservation
  PROVE  /\ job' \in [Worker -> Job]
         /\ \A v \in Worker : job'[v].res = NoReservation => job'[v] = Idle
  BY DEF TypeOK, Go

(* A step that moves one worker and leaves the rest typed is typed.        *)
LEMMA MoveType ==
  ASSUME TypeOK, NEW w \in Worker, NEW j \in Job, Go(w, j),
         j = Idle \/ j.res # NoReservation,
         UNCHANGED <<stay, tables>>,
         lapsed' \subseteq Reservation, due' \subseteq Reservation,
         outcomes' \in [Reservation -> 0 .. MaxOutcomes],
         faults' \in 0 .. MaxFaults
  PROVE  TypeOK'
  BY GoType DEF TypeOK, tables

(* The same for a step that touches only the worker.                       *)
LEMMA StepType ==
  ASSUME TypeOK, NEW w \in Worker, NEW j \in Job, Go(w, j),
         j = Idle \/ j.res # NoReservation,
         UNCHANGED <<stay, tables, clock, faults>>
  PROVE  TypeOK'
  BY MoveType DEF TypeOK, clock

LEMMA BusyWorker ==
  ASSUME TypeOK, NEW w \in Worker, job[w].pc # "idle"
  PROVE  job[w] \in Job /\ job[w].res \in Reservation
  BY DEF TypeOK, Job, Idle

(* Every handler starts, proceeds and ends with values of the tables' types. *)
THEOREM TypeCorrect == Spec => []TypeOK
<1>1. Init => TypeOK
  <2> SUFFICES ASSUME Init PROVE TypeOK
    OBVIOUS
  <2> USE DEF Init
  <2>1. outbox \in [Reservation -> Seq(Event)]
    OBVIOUS
  <2>2. outcomes \in [Reservation -> 0 .. MaxOutcomes] /\ faults \in 0 .. MaxFaults
    BY BoundsAssumption
  <2>3. QED
    BY <2>1, <2>2, Constants DEF TypeOK
<1>2. TypeOK /\ [Next]_vars => TypeOK'
  <2> SUFFICES ASSUME TypeOK, [Next]_vars
               PROVE  TypeOK'
    OBVIOUS
  <2>2. ASSUME NEW w \in Worker, NEW r \in Reservation, StartCreate(w, r)
        PROVE  TypeOK'
    <3>1. Begin("create", r, "writeHold", NewBooking, "active") \in Job
      BY Constants, BeginType DEF Kind, Step, HoldStatus
    <3>2. Begin("create", r, "writeHold", NewBooking, "active").res # NoReservation
      BY ReservationAssumption DEF Begin
    <3>3. QED
      BY <2>2, <3>1, <3>2, StepType DEF StartCreate
  <2>3. ASSUME NEW w \in Worker, NEW r \in Reservation, NEW n \in Notice,
               StartCancel(w, r, n)
        PROVE  TypeOK'
    <3> DEFINE outcome == Evaluate(booking[r].status, n, Price)
               j == Begin("cancel", r, "readHold", CancelledWith(outcome.refund), Absent)
    <3>1. CancelledWith(outcome.refund) \in BookingRow
      BY RefundBounds DEF CancelledWith, BookingRow, BookingStatus, Refund
    <3>2. j \in Job
      BY <3>1, BeginType DEF Kind, Step
    <3>3. j.res # NoReservation
      BY ReservationAssumption DEF Begin
    <3>4. QED
      BY <2>3, <3>2, <3>3, StepType DEF StartCancel
  <2>4. ASSUME NEW w \in Worker, NEW r \in Reservation,
               NEW kind \in {"confirm", "fail"}, StartOutcome(w, r, kind)
        PROVE  TypeOK'
    <3> DEFINE j == Begin(kind, r, "readBooking", NoBooking, Absent)
    <3>1. j \in Job
      BY Constants, BeginType DEF Kind, SagaKind, Step
    <3>2. j.res # NoReservation
      BY ReservationAssumption DEF Begin
    <3>3. outcomes' \in [Reservation -> 0 .. MaxOutcomes]
      BY <2>4, BoundsAssumption DEF StartOutcome, TypeOK
    <3>4. QED
      BY <2>4, <3>1, <3>2, <3>3, MoveType DEF StartOutcome, TypeOK
  <2>5. ASSUME NEW w \in Worker, NEW r \in Reservation, StartExpire(w, r)
        PROVE  TypeOK'
    <3> DEFINE j == Begin("expire", r, "readBooking", NoBooking, Absent)
    <3>1. j \in Job
      BY Constants, BeginType DEF Kind, SagaKind, Step
    <3>2. j.res # NoReservation
      BY ReservationAssumption DEF Begin
    <3>3. QED
      BY <2>5, <3>1, <3>2, MoveType DEF StartExpire, TypeOK
  <2>6. ASSUME NEW w \in Worker, Proceed(w)
        PROVE  TypeOK'
    <3>1. job[w] \in Job /\ job[w].res \in Reservation
      BY <2>6, BusyWorker
      DEF Proceed, ReadBooking, ReadHoldInSaga, ReadHoldInCancel, WriteBooking,
          WriteHold, PassExclusion, FailExclusion, Commit
    <3>2. job[w].res # NoReservation
      BY <3>1, ReservationAssumption
    <3>3. CASE ReadBooking(w)
      <4> DEFINE j == [job[w] EXCEPT !.pc = "readHold", !.booking = booking[job[w].res]]
      <4>1. j \in Job /\ j.res = job[w].res
        BY <3>1 DEF TypeOK, Job, Step
      <4>2. QED
        BY <3>2, <3>3, <4>1, StepType DEF ReadBooking
    <3>4. CASE ReadHoldInSaga(w)
      <4> DEFINE j == [job[w] EXCEPT
                         !.pc = "writeBooking",
                         !.booking = SettledBooking(job[w].kind, job[w].booking),
                         !.hold = SettledHold(job[w].kind)]
      <4>1. SettledBooking(job[w].kind, job[w].booking) \in BookingRow
        BY <3>1 DEF Job, SettledBooking, Moved, BookingRow, BookingStatus
      <4>2. SettledHold(job[w].kind) \in HoldStatus
        BY DEF SettledHold, HoldStatus
      <4>3. j \in Job /\ j.res = job[w].res
        BY <3>1, <4>1, <4>2 DEF Job, Step
      <4>4. QED
        BY <3>2, <3>4, <4>3, Constants, StepType DEF ReadHoldInSaga
    <3>5. CASE ReadHoldInCancel(w)
      <4> DEFINE j == [job[w] EXCEPT !.pc = "writeHold", !.hold = "released"]
                 k == [job[w] EXCEPT !.pc = "writeBooking"]
      <4>1. j \in Job /\ j.res = job[w].res /\ k \in Job /\ k.res = job[w].res
        BY <3>1 DEF Job, Step, HoldStatus
      <4>2. QED
        BY <3>2, <3>5, <4>1, StepType DEF ReadHoldInCancel
    <3>6. CASE WriteBooking(w)
      <4> DEFINE j == [job[w] EXCEPT !.pc = AfterBooking(job[w].kind),
                                     !.wrote = @ \cup {"booking"}]
      <4>1. j \in Job /\ j.res = job[w].res
        BY <3>1 DEF Job, Step, AfterBooking
      <4>2. QED
        BY <3>2, <3>6, <4>1, StepType DEF WriteBooking
    <3>7. CASE WriteHold(w)
      <4> DEFINE pc == IF Live(job[w].hold) THEN "checkHold" ELSE AfterHold(job[w].kind)
                 j == [job[w] EXCEPT !.pc = pc, !.wrote = @ \cup {"hold"}]
      <4>1. pc \in Step
        BY DEF Step, AfterHold
      <4>2. j \in Job /\ j.res = job[w].res
        BY <3>1, <4>1 DEF Job
      <4>3. QED
        BY <3>2, <3>7, <4>2, StepType DEF WriteHold
    <3>8. CASE PassExclusion(w)
      <4> DEFINE j == [job[w] EXCEPT !.pc = AfterHold(job[w].kind)]
      <4>1. j \in Job /\ j.res = job[w].res
        BY <3>1 DEF Job, Step, AfterHold
      <4>2. QED
        BY <3>2, <3>8, <4>1, StepType DEF PassExclusion
    <3>9. CASE FailExclusion(w)
      BY <3>9, Constants, StepType DEF FailExclusion, Roll
    <3>10. CASE Commit(w)
      <4>1. /\ booking' \in [Reservation -> BookingRow]
            /\ hold' \in [Reservation -> HoldStatus \cup {Absent}]
        BY <3>1, <3>10 DEF Commit, TypeOK, Job
      <4>2. Enqueued(job[w]) \in Seq(Event)
        <5>1. job[w].booking.refund \in Refund
          BY <3>1 DEF Job, BookingRow
        <5>2. BookingConfirmed \in Event /\ BookingCancelled(job[w].booking.refund) \in Event
          BY <5>1 DEF Event, BookingConfirmed, BookingCancelled, Refund, NoRefund
        <5>3. QED
          BY <5>2 DEF Enqueued
      <4>3. outbox' \in [Reservation -> Seq(Event)]
        BY <3>1, <3>10, <4>2 DEF Commit, TypeOK, AppendEvents
      <4>4. QED
        BY <3>10, <4>1, <4>3, GoType, Constants DEF Commit, TypeOK, clock
    <3>11. QED
      BY <2>6, <3>3, <3>4, <3>5, <3>6, <3>7, <3>8, <3>9, <3>10 DEF Proceed
  <2>7. ASSUME NEW w \in Worker, DeadlockVictim(w)
        PROVE  TypeOK'
    BY <2>7, Constants, StepType DEF DeadlockVictim, Roll
  <2>8. ASSUME NEW w \in Worker, Fault(w)
        PROVE  TypeOK'
    <3>1. faults' \in 0 .. MaxFaults
      BY <2>8, BoundsAssumption DEF Fault, TypeOK
    <3>2. QED
      BY <2>8, <3>1, Constants, MoveType DEF Fault, Roll, TypeOK, clock
  <2>9. ASSUME NEW r \in Reservation, Lapse(r)
        PROVE  TypeOK'
    BY <2>9 DEF Lapse, TypeOK, tables
  <2>10. CASE Sweep
    BY <2>10 DEF Sweep, TypeOK, tables
  <2>11. CASE UNCHANGED vars
    BY <2>11 DEF vars, TypeOK
  <2>12. QED
    BY <2>2, <2>3, <2>4, <2>5, <2>6, <2>7, <2>8, <2>9, <2>10, <2>11
    DEF Next, Start, Quiet
<1>3. QED
  BY <1>1, <1>2, PTL DEF Spec
-----------------------------------------------------------------------------
(* A step that moves one worker secures nothing new when the nights the    *)
(* worker has secured after it are among those it had secured before.      *)
LEMMA NothingSecured ==
  ASSUME TypeOK, SecuredOnce, NEW w \in Worker, NEW j, Go(w, j),
         UNCHANGED <<stay, hold>>,
         "hold" \in j.wrote /\ Live(j.hold) /\ j.pc # "checkHold"
           => /\ "hold" \in job[w].wrote
              /\ Live(job[w].hold)
              /\ job[w].pc # "checkHold"
              /\ job[w].res = j.res
  PROVE  SecuredOnce'
<1>1. \A v \in Worker : job'[v] = IF v = w THEN j ELSE job[v]
  BY DEF TypeOK, Go
<1>2. \A r \in Reservation : Secured(r)' => Secured(r)
  BY <1>1 DEF Secured, Wrote
<1>3. QED
  BY <1>2 DEF SecuredOnce

LEMMA ClashIsSymmetric ==
  ASSUME NEW s, NEW t, Clash(s, t)
  PROVE  Clash(t, s)
  BY DEF Clash, Overlaps

LEMMA IdleSecuresNothing == "hold" \notin Idle.wrote
  BY DEF Idle

(* The constraint's check is what keeps a night to one reservation: it is  *)
(* passed only when no rival has secured the night, and whoever passed it  *)
(* makes later checks of its rivals wait or fail.                          *)
LEMMA SecuredOnceStep ==
  ASSUME TypeOK, HandlersInShape, SecuredOnce, [Next]_vars
  PROVE  SecuredOnce'
<1> USE DEF tables, clock
<1>1. ASSUME NEW w \in Worker, Start(w)
      PROVE  SecuredOnce'
  <2>1. PICK r \in Reservation :
          \/ StartCreate(w, r)
          \/ \E n \in Notice : StartCancel(w, r, n)
          \/ \E kind \in {"confirm", "fail"} : StartOutcome(w, r, kind)
          \/ StartExpire(w, r)
    BY <1>1 DEF Start
  <2>2. \E j : Go(w, j) /\ j.wrote = {}
    <3>1. \E kind, pc, row, status : Go(w, Begin(kind, r, pc, row, status))
      BY <2>1 DEF StartCreate, StartCancel, StartOutcome, StartExpire
    <3>2. \A kind, pc, row, status : Begin(kind, r, pc, row, status).wrote = {}
      BY DEF Begin
    <3>3. QED
      BY <3>1, <3>2
  <2>3. UNCHANGED <<stay, hold>>
    BY <2>1 DEF StartCreate, StartCancel, StartOutcome, StartExpire
  <2>4. QED
    BY <2>2, <2>3, NothingSecured
<1>2. ASSUME NEW w \in Worker, Proceed(w)
      PROVE  SecuredOnce'
  <2>1. job[w] \in Job /\ job[w].res \in Reservation
    BY <1>2, BusyWorker
    DEF Proceed, ReadBooking, ReadHoldInSaga, ReadHoldInCancel, WriteBooking,
        WriteHold, PassExclusion, FailExclusion, Commit
  <2>2. job[w].pc \in {"readBooking", "readHold"} => job[w].wrote = {}
    BY DEF HandlersInShape, ShapeOf
  <2>3. CASE ReadBooking(w)
    <3> DEFINE j == [job[w] EXCEPT !.pc = "readHold", !.booking = booking[job[w].res]]
    <3>1. j.wrote = {}
      BY <2>1, <2>2, <2>3 DEF ReadBooking, Job
    <3>2. QED
      BY <2>3, <3>1, NothingSecured DEF ReadBooking
  <2>4. CASE ReadHoldInSaga(w)
    <3> DEFINE j == [job[w] EXCEPT
                       !.pc = "writeBooking",
                       !.booking = SettledBooking(job[w].kind, job[w].booking),
                       !.hold = SettledHold(job[w].kind)]
    <3>1. j.wrote = {}
      BY <2>1, <2>2, <2>4 DEF ReadHoldInSaga, Job
    <3>2. QED
      BY <2>4, <3>1, IdleSecuresNothing, NothingSecured DEF ReadHoldInSaga
  <2>5. CASE ReadHoldInCancel(w)
    <3> DEFINE j == [job[w] EXCEPT !.pc = "writeHold", !.hold = "released"]
               k == [job[w] EXCEPT !.pc = "writeBooking"]
    <3>1. j.wrote = {} /\ k.wrote = {}
      BY <2>1, <2>2, <2>5 DEF ReadHoldInCancel, Job
    <3>2. QED
      BY <2>5, <3>1, NothingSecured DEF ReadHoldInCancel
  <2>6. CASE WriteBooking(w)
    <3> DEFINE j == [job[w] EXCEPT !.pc = AfterBooking(job[w].kind),
                                   !.wrote = @ \cup {"booking"}]
    <3>1. /\ j.res = job[w].res
          /\ j.hold = job[w].hold
          /\ "hold" \in j.wrote => "hold" \in job[w].wrote
      BY <2>1 DEF Job
    <3>2. QED
      BY <2>6, <3>1, NothingSecured DEF WriteBooking
  <2>7. CASE WriteHold(w)
    <3> DEFINE pc == IF Live(job[w].hold) THEN "checkHold" ELSE AfterHold(job[w].kind)
               j == [job[w] EXCEPT !.pc = pc, !.wrote = @ \cup {"hold"}]
    <3>1. j.hold = job[w].hold /\ j.pc = pc
      BY <2>1 DEF Job
    <3>2. QED
      BY <2>7, <3>1, NothingSecured DEF WriteHold
  <2>8. CASE PassExclusion(w)
    <3> DEFINE mine == job[w].res
    <3>1. \A v \in Worker : /\ job'[v].res = job[v].res
                            /\ job'[v].wrote = job[v].wrote
                            /\ job'[v].hold = job[v].hold
                            /\ v # w => job'[v] = job[v]
      BY <2>1, <2>8 DEF PassExclusion, Go, TypeOK, Job
    <3>2. \A r \in Reservation : Secured(r)' => Secured(r) \/ r = mine
      BY <2>8, <3>1 DEF PassExclusion, Secured, Wrote
    <3>3. \A q \in Rivals(mine) : ~Secured(q)
      BY <2>8 DEF PassExclusion, ExclusionHolds, InDoubt, Secured
    <3>4. \A q \in Reservation \ {mine} :
            Clash(stay[q], stay[mine]) => ~Secured(q)'
      BY <3>2, <3>3 DEF Rivals
    <3>5. stay' = stay
      BY <2>8 DEF PassExclusion
    <3>6. QED
      BY <3>2, <3>4, <3>5, ClashIsSymmetric DEF SecuredOnce
  <2>9. CASE FailExclusion(w)
    BY <2>9, IdleSecuresNothing, NothingSecured DEF FailExclusion, Roll
  <2>10. CASE Commit(w)
    <3>1. \A v \in Worker : job'[v] = IF v = w THEN Idle ELSE job[v]
      BY <2>10 DEF Commit, Go, TypeOK
    <3>2. hold' = IF "hold" \in job[w].wrote
                    THEN [hold EXCEPT ![job[w].res] = job[w].hold]
                    ELSE hold
      BY <2>10 DEF Commit
    <3>3. \A r \in Reservation : Live(hold'[r]) => Secured(r)
      BY <2>1, <2>10, <3>2 DEF Commit, Secured, Wrote, TypeOK
    <3>4. \A r \in Reservation : Secured(r)' => Secured(r)
      BY <3>1, <3>3, IdleSecuresNothing DEF Secured, Wrote
    <3>5. QED
      BY <2>10, <3>4 DEF Commit, SecuredOnce
  <2>11. QED
    BY <1>2, <2>3, <2>4, <2>5, <2>6, <2>7, <2>8, <2>9, <2>10 DEF Proceed
<1>3. ASSUME NEW w \in Worker, DeadlockVictim(w) \/ Fault(w)
      PROVE  SecuredOnce'
  BY <1>3, IdleSecuresNothing, NothingSecured DEF DeadlockVictim, Fault, Roll
<1>4. CASE \/ \E r \in Reservation : Lapse(r)
           \/ Sweep
           \/ UNCHANGED vars
  <2>1. UNCHANGED <<stay, hold, job>>
    BY <1>4 DEF Lapse, Sweep, vars
  <2>2. QED
    BY <2>1 DEF SecuredOnce, Secured, Wrote
<1>5. QED
  BY <1>1, <1>2, <1>3, <1>4 DEF Next, Quiet

(* A create is alone with its pair, and every other handler's booking      *)
(* exists, so no worker shares a reservation with a create.                *)
LEMMA CreateIsAlone ==
  ASSUME TypeOK, HandlersInShape, NEW w \in Worker, NEW v \in Worker, v # w,
         job[v].kind = "create"
  PROVE  job[w].res # job[v].res
  BY DEF HandlersInShape, ShapeOf

(* A step that moves one worker and leaves the tables alone keeps every    *)
(* handler in shape when the moved worker is in shape and does not come    *)
(* between a create and its pair.                                          *)
LEMMA MovedInShape ==
  ASSUME TypeOK, HandlersInShape, NEW w \in Worker, NEW j, Go(w, j),
         UNCHANGED tables, \A r \in due' : Created(r), ShapeOf(w)',
         \A v \in Worker \ {w} : job[v].kind = "create" => job[v].res # j.res
  PROVE  HandlersInShape'
<1>1. \A v \in Worker : job'[v] = IF v = w THEN j ELSE job[v]
  BY DEF TypeOK, Go
<1>2. ASSUME NEW v \in Worker, v # w
      PROVE  ShapeOf(v)'
  <2>1. ShapeOf(v) /\ job'[v] = job[v]
    BY <1>1, <1>2 DEF HandlersInShape
  <2>2. job[v].kind = "create" => \A u \in Worker \ {v} : job'[u].res # job[v].res
    BY <1>1, <1>2, <2>1 DEF ShapeOf
  <2>3. QED
    BY <2>1, <2>2 DEF ShapeOf, Created, tables
<1>3. QED
  BY <1>2 DEF HandlersInShape, Created, tables

(* The same for a step after which the worker is idle.                     *)
LEMMA RolledBackInShape ==
  ASSUME TypeOK, HandlersInShape, NEW w \in Worker, Go(w, Idle),
         UNCHANGED <<tables, clock>>
  PROVE  HandlersInShape'
<1>1. job'[w] = Idle
  BY DEF TypeOK, Go
<1>2. ShapeOf(w)'
  BY <1>1 DEF ShapeOf, Idle, SagaKind
<1>3. \A v \in Worker : job[v].kind = "create" => job[v].res # NoReservation
  BY DEF TypeOK, Idle
<1>4. \A r \in due' : Created(r)
  BY DEF HandlersInShape, clock
<1>5. QED
  BY <1>2, <1>3, <1>4, MovedInShape DEF Idle

(* The start of a handler.                                                 *)
LEMMA StartInShape ==
  ASSUME TypeOK, HandlersInShape, NEW w \in Worker, Start(w)
  PROVE  HandlersInShape'
<1> USE DEF clock
<1>1. PICK r \in Reservation :
        \/ StartCreate(w, r)
        \/ \E n \in Notice : StartCancel(w, r, n)
        \/ \E kind \in {"confirm", "fail"} : StartOutcome(w, r, kind)
        \/ StartExpire(w, r)
  BY DEF Start
<1>2. \A d \in due : Created(d)
  BY DEF HandlersInShape
<1>3. Created(r) => \A v \in Worker : job[v].kind = "create" => job[v].res # r
  BY DEF HandlersInShape, ShapeOf
<1>4. CASE StartCreate(w, r)
  <2> DEFINE j == Begin("create", r, "writeHold", NewBooking, "active")
  <2>1. job'[w] = j /\ \A v \in Worker \ {w} : job'[v] = job[v]
    BY <1>4 DEF StartCreate, Go, TypeOK
  <2>2. ShapeOf(w)'
    BY <1>4, <2>1 DEF StartCreate, ShapeOf, Begin, SagaKind, Created, tables
  <2>3. j.res = r
    BY DEF Begin
  <2>4. QED
    BY <1>2, <1>4, <2>2, <2>3, MovedInShape DEF StartCreate
<1>5. ASSUME NEW n \in Notice, StartCancel(w, r, n)
      PROVE  HandlersInShape'
  <2> DEFINE outcome == Evaluate(booking[r].status, n, Price)
             j == Begin("cancel", r, "readHold", CancelledWith(outcome.refund), Absent)
  <2>1. job'[w] = j
    BY <1>5 DEF StartCancel, Go, TypeOK
  <2>2. ShapeOf(w)'
    BY <1>5, <2>1 DEF StartCancel, ShapeOf, Begin, SagaKind, Created, CancelledWith, tables
  <2>3. j.res = r
    BY DEF Begin
  <2>4. QED
    BY <1>2, <1>3, <1>5, <2>2, <2>3, MovedInShape DEF StartCancel
<1>6. ASSUME NEW kind \in SagaKind, Created(r), UNCHANGED tables, due' \subseteq due,
             Go(w, Begin(kind, r, "readBooking", NoBooking, Absent))
      PROVE  HandlersInShape'
  <2> DEFINE j == Begin(kind, r, "readBooking", NoBooking, Absent)
  <2>1. job'[w] = j
    BY <1>6 DEF Go, TypeOK
  <2>2. ShapeOf(w)'
    BY <1>6, <2>1 DEF ShapeOf, Begin, SagaKind, Created, tables
  <2>3. j.res = r
    BY DEF Begin
  <2>4. QED
    BY <1>2, <1>3, <1>6, <2>2, <2>3, MovedInShape
<1>7. ASSUME NEW kind \in {"confirm", "fail"}, StartOutcome(w, r, kind)
      PROVE  HandlersInShape'
  BY <1>6, <1>7 DEF StartOutcome, SagaKind
<1>8. CASE StartExpire(w, r)
  BY <1>2, <1>6, <1>8 DEF StartExpire, SagaKind
<1>9. QED
  BY <1>1, <1>4, <1>5, <1>7, <1>8

(* A database call that only moves its own handler on.                     *)
LEMMA ProceedInShape ==
  ASSUME TypeOK, HandlersInShape, PairsAgree, NEW w \in Worker,
         Proceed(w), ~Commit(w)
  PROVE  HandlersInShape'
<1> DEFINE r == job[w].res
<1>1. job[w] \in Job /\ r \in Reservation
  BY BusyWorker
  DEF Proceed, ReadBooking, ReadHoldInSaga, ReadHoldInCancel, WriteBooking,
      WriteHold, PassExclusion, FailExclusion, Commit
<1>2. ShapeOf(w)
  BY DEF HandlersInShape
<1>3. ASSUME NEW j, Go(w, j), j.res = r, UNCHANGED <<stay, tables, clock, faults>>,
             ShapeOf(w)'
      PROVE  HandlersInShape'
  <2>1. \A v \in Worker \ {w} : job[v].kind = "create" => job[v].res # j.res
    BY <1>3, CreateIsAlone
  <2>2. \A d \in due' : Created(d)
    BY <1>3 DEF HandlersInShape, clock
  <2>3. QED
    BY <1>3, <2>1, <2>2, MovedInShape
<1>4. ASSUME NEW j \in Job, Go(w, j), j.res = r, j.kind = job[w].kind,
             UNCHANGED <<stay, tables, clock, faults>>
      PROVE  /\ job'[w] = j
             /\ Created(r)' = Created(r)
             /\ hold' = hold
             /\ j.kind = "create" => \A v \in Worker \ {w} : job'[v].res # r
  BY <1>2, <1>4 DEF Go, TypeOK, Created, tables, ShapeOf
<1>5. CASE ReadBooking(w)
  <2> DEFINE j == [job[w] EXCEPT !.pc = "readHold", !.booking = booking[r]]
  <2>1. /\ j \in Job /\ j.res = r /\ j.kind = job[w].kind
        /\ j.pc = "readHold" /\ j.wrote = job[w].wrote
    BY <1>1 DEF TypeOK, Job, Step
  <2>2. job[w].kind \in SagaKind
    BY <1>1, <1>2, <1>5 DEF ReadBooking, ShapeOf, Job, Kind, Idle
  <2>3. Go(w, j) /\ UNCHANGED <<stay, tables, clock, faults>>
    BY <1>5 DEF ReadBooking
  <2>4. ShapeOf(w)'
    BY <1>2, <1>4, <1>5, <2>1, <2>2, <2>3 DEF ReadBooking, ShapeOf, SagaKind
  <2>5. QED
    BY <1>3, <2>1, <2>3, <2>4
<1>6. CASE ReadHoldInSaga(w)
  <2> DEFINE row == SettledBooking(job[w].kind, job[w].booking)
             j == [job[w] EXCEPT !.pc = "writeBooking", !.booking = row,
                                 !.hold = SettledHold(job[w].kind)]
  <2>1. CASE Accepts(job[w].kind, job[w].booking, hold[r])
    <3>1. row \in BookingRow /\ row.status = SettledBooking(job[w].kind, row).status
      BY <1>1 DEF Job, SettledBooking, Moved, BookingRow, BookingStatus
    <3>2. SettledHold(job[w].kind) \in HoldStatus
      BY DEF SettledHold, HoldStatus
    <3>3. /\ j \in Job /\ j.res = r /\ j.kind = job[w].kind /\ j.pc = "writeBooking"
          /\ j.booking = row /\ j.hold = SettledHold(job[w].kind)
      BY <1>1, <3>1, <3>2 DEF Job, Step
    <3>4. Go(w, j) /\ UNCHANGED <<stay, tables, clock, faults>>
      BY <1>6, <2>1 DEF ReadHoldInSaga
    <3> HIDE DEF row, j
    <3>5. job'[w] = j /\ Created(r)' = Created(r)
      BY <1>4, <3>3, <3>4
    <3>6. job[w].kind \in SagaKind /\ Created(r)
      BY <1>2, <1>6 DEF ReadHoldInSaga, ShapeOf
    <3>7. ShapeOf(w)'
      BY <3>1, <3>3, <3>5, <3>6 DEF ShapeOf, SagaKind
    <3>8. QED
      BY <1>3, <3>3, <3>4, <3>7
  <2>2. CASE ~Accepts(job[w].kind, job[w].booking, hold[r])
    BY <1>6, <2>2, RolledBackInShape DEF ReadHoldInSaga, clock, tables
  <2>3. QED
    BY <2>1, <2>2
<1>7. CASE ReadHoldInCancel(w)
  <2> DEFINE j == [job[w] EXCEPT !.pc = "writeHold", !.hold = "released"]
             k == [job[w] EXCEPT !.pc = "writeBooking"]
  <2>1. /\ j \in Job /\ j.res = r /\ j.kind = "cancel" /\ j.pc = "writeHold"
        /\ j.hold = "released" /\ j.booking = job[w].booking
    BY <1>1, <1>7 DEF ReadHoldInCancel, Job, Step, HoldStatus
  <2>2. /\ k \in Job /\ k.res = r /\ k.kind = "cancel" /\ k.pc = "writeBooking"
        /\ k.booking = job[w].booking /\ k.wrote = {}
    BY <1>1, <1>2, <1>7 DEF ReadHoldInCancel, Job, Step, ShapeOf
  <2>3. hold[r] # Absent
    BY <1>1, <1>2, <1>7 DEF ReadHoldInCancel, ShapeOf, PairsAgree, Agree, Created
  <2>4. CASE Live(hold[r])
    <3>1. Go(w, j) /\ UNCHANGED <<stay, tables, clock, faults>>
      BY <1>7, <2>4 DEF ReadHoldInCancel
    <3>2. ShapeOf(w)'
      BY <1>2, <1>4, <1>7, <2>1, <3>1 DEF ReadHoldInCancel, ShapeOf, SagaKind
    <3>3. QED
      BY <1>3, <2>1, <3>1, <3>2
  <2>5. CASE ~Live(hold[r])
    <3>1. Go(w, k) /\ UNCHANGED <<stay, tables, clock, faults>>
      BY <1>7, <2>5 DEF ReadHoldInCancel
    <3>2. hold[r] \notin {Absent, "active"}
      BY <2>3, <2>5 DEF Live
    <3>3. ShapeOf(w)'
      BY <1>2, <1>4, <1>7, <2>2, <3>1, <3>2 DEF ReadHoldInCancel, ShapeOf, SagaKind
    <3>4. QED
      BY <1>3, <2>2, <3>1, <3>3
  <2>6. QED
    BY <2>4, <2>5
<1>8. CASE WriteBooking(w)
  <2> DEFINE j == [job[w] EXCEPT !.pc = AfterBooking(job[w].kind),
                                 !.wrote = @ \cup {"booking"}]
  <2>1. /\ j \in Job /\ j.res = r /\ j.kind = job[w].kind
        /\ j.pc = AfterBooking(job[w].kind) /\ j.hold = job[w].hold
        /\ j.booking = job[w].booking /\ j.wrote = job[w].wrote \cup {"booking"}
    BY <1>1 DEF Job, Step, AfterBooking
  <2>2. Go(w, j) /\ UNCHANGED <<stay, tables, clock, faults>>
    BY <1>8 DEF WriteBooking
  <2>3. ShapeOf(w)'
    <3> HIDE DEF j
    <3>1. /\ job'[w] = j /\ Created(r)' = Created(r) /\ hold' = hold
          /\ j.kind = "create" => \A v \in Worker \ {w} : job'[v].res # r
      BY <1>4, <2>1, <2>2
    <3>2. job[w].pc = "writeBooking" /\ job[w].kind # "idle"
      BY <1>2, <1>8 DEF WriteBooking, ShapeOf, Idle
    <3>3. QED
      BY <1>2, <2>1, <3>1, <3>2 DEF ShapeOf, SagaKind, AfterBooking
  <2>4. QED
    BY <1>3, <2>1, <2>2, <2>3
<1>9. CASE WriteHold(w)
  <2> DEFINE pc == IF Live(job[w].hold) THEN "checkHold" ELSE AfterHold(job[w].kind)
             j == [job[w] EXCEPT !.pc = pc, !.wrote = @ \cup {"hold"}]
  <2>1. pc \in Step
    BY DEF Step, AfterHold
  <2>2. /\ j \in Job /\ j.res = r /\ j.kind = job[w].kind
        /\ j.pc = pc /\ j.hold = job[w].hold
        /\ j.booking = job[w].booking /\ j.wrote = job[w].wrote \cup {"hold"}
    BY <1>1, <2>1 DEF Job
  <2>3. Go(w, j) /\ UNCHANGED <<stay, tables, clock, faults>>
    BY <1>9 DEF WriteHold
  <2>4. ShapeOf(w)'
    <3> HIDE DEF j
    <3>1. /\ job'[w] = j /\ Created(r)' = Created(r) /\ hold' = hold
          /\ j.kind = "create" => \A v \in Worker \ {w} : job'[v].res # r
      BY <1>4, <2>2, <2>3
    <3>2. job[w].pc = "writeHold" /\ job[w].kind # "idle"
      BY <1>2, <1>9 DEF WriteHold, ShapeOf, Idle
    <3>3. QED
      BY <1>2, <2>2, <3>1, <3>2 DEF ShapeOf, SagaKind, AfterHold, Live
  <2>5. QED
    BY <1>3, <2>2, <2>3, <2>4
<1>10. CASE PassExclusion(w)
  <2> DEFINE j == [job[w] EXCEPT !.pc = AfterHold(job[w].kind)]
  <2>1. /\ j \in Job /\ j.res = r /\ j.kind = job[w].kind
        /\ j.pc = AfterHold(job[w].kind) /\ j.hold = job[w].hold
        /\ j.booking = job[w].booking /\ j.wrote = job[w].wrote
    BY <1>1 DEF Job, Step, AfterHold
  <2>2. Go(w, j) /\ UNCHANGED <<stay, tables, clock, faults>>
    BY <1>10 DEF PassExclusion
  <2>3. ShapeOf(w)'
    <3> HIDE DEF j
    <3>1. /\ job'[w] = j /\ Created(r)' = Created(r) /\ hold' = hold
          /\ j.kind = "create" => \A v \in Worker \ {w} : job'[v].res # r
      BY <1>4, <2>1, <2>2
    <3>2. job[w].pc = "checkHold" /\ job[w].kind # "idle"
      BY <1>2, <1>10 DEF PassExclusion, ShapeOf, Idle
    <3>3. QED
      BY <1>2, <2>1, <3>1, <3>2 DEF ShapeOf, SagaKind, AfterHold
  <2>4. QED
    BY <1>3, <2>1, <2>2, <2>3
<1>11. CASE FailExclusion(w)
  BY <1>11, RolledBackInShape DEF FailExclusion, Roll
<1>12. QED
  BY <1>5, <1>6, <1>7, <1>8, <1>9, <1>10, <1>11 DEF Proceed

(* What a commit makes of the two rows of its reservation.                 *)
LEMMA CommittedPair ==
  ASSUME TypeOK, HandlersInShape, PairsAgree, NEW w \in Worker, Commit(w)
  PROVE  LET r == job[w].res
         IN  /\ r \in Reservation
             /\ booking'[r].status # Absent
             /\ hold'[r] # Absent
             /\ job[w].kind # "create" => hold'[r] # "active"
             /\ Agree(booking'[r].status, hold'[r])
             /\ \A q \in Reservation \ {r} : booking'[q] = booking[q] /\ hold'[q] = hold[q]
<1> DEFINE r == job[w].res
<1>1. job[w] \in Job /\ r \in Reservation /\ job[w].pc = "commit"
  BY BusyWorker DEF Commit
<1>2. ShapeOf(w)
  BY DEF HandlersInShape
<1>3. /\ booking'[r] = job[w].booking
      /\ hold'[r] = IF "hold" \in job[w].wrote THEN job[w].hold ELSE hold[r]
      /\ \A q \in Reservation \ {r} : booking'[q] = booking[q] /\ hold'[q] = hold[q]
  BY <1>1 DEF Commit, TypeOK
<1>4. job[w].kind \in SagaKind \cup {"create", "cancel"}
  BY <1>1, <1>2 DEF Job, Kind, ShapeOf, Idle
<1>5. CASE job[w].kind = "create"
  <2>1. booking'[r].status = "PendingPayment" /\ hold'[r] = "active"
    BY <1>1, <1>2, <1>3, <1>5 DEF ShapeOf, NewBooking
  <2>2. QED
    BY <1>1, <1>3, <1>5, <2>1 DEF Agree, Absent
<1>6. CASE job[w].kind = "cancel"
  <2>1. booking'[r].status = "Cancelled" /\ hold'[r] \notin {Absent, "active"}
    BY <1>1, <1>2, <1>3, <1>6 DEF ShapeOf, Absent
  <2>2. QED
    BY <1>1, <1>3, <1>6, <2>1 DEF Agree, Absent
<1>7. CASE job[w].kind \in SagaKind
  <2>1. /\ job[w].booking.status = IF job[w].kind = "confirm" THEN "Confirmed" ELSE "Expired"
        /\ hold'[r] = IF job[w].kind = "confirm" THEN "committed" ELSE "released"
    <3>1. job[w].booking \in BookingRow
      BY <1>1 DEF Job
    <3>2. QED
      BY <1>1, <1>2, <1>3, <1>7, <3>1
      DEF ShapeOf, SettledBooking, SettledHold, Moved, BookingRow
  <2>2. QED
    BY <1>1, <1>3, <1>7, <2>1 DEF Agree, Absent, SagaKind
<1>8. QED
  BY <1>4, <1>5, <1>6, <1>7

LEMMA CommitInShape ==
  ASSUME TypeOK, HandlersInShape, PairsAgree, NEW w \in Worker, Commit(w)
  PROVE  HandlersInShape' /\ PairsAgree'
<1> DEFINE r == job[w].res
<1>1. /\ r \in Reservation
      /\ booking'[r].status # Absent
      /\ hold'[r] # Absent
      /\ job[w].kind # "create" => hold'[r] # "active"
      /\ Agree(booking'[r].status, hold'[r])
      /\ \A q \in Reservation \ {r} : booking'[q] = booking[q] /\ hold'[q] = hold[q]
  BY CommittedPair
<1>2. PairsAgree'
  BY <1>1 DEF PairsAgree
<1>3. \A v \in Worker : job'[v] = IF v = w THEN Idle ELSE job[v]
  BY DEF Commit, Go, TypeOK
<1>4. \A q \in Reservation : Created(q) => Created(q)'
  BY <1>1 DEF Created
<1>5. ShapeOf(w)'
  BY <1>3 DEF ShapeOf, Idle, SagaKind
<1>6. ASSUME NEW v \in Worker, v # w
      PROVE  ShapeOf(v)'
  <2> DEFINE q == job[v].res
  <2>1. ShapeOf(v) /\ job'[v] = job[v]
    BY <1>3, <1>6 DEF HandlersInShape
  <2>2. job[v] \in Job /\ (job[v] = Idle \/ q \in Reservation)
    BY DEF TypeOK, Job
  <2>3. CASE job[v] = Idle
    BY <2>1, <2>3 DEF ShapeOf, Idle, SagaKind
  <2>4. CASE job[v].kind = "create"
    <3>1. q # r
      BY <1>6, <2>4, CreateIsAlone
    <3>2. q \in Reservation
      BY <2>2, <2>4 DEF Idle
    <3>3. booking'[q].status = Absent
      BY <1>1, <2>1, <2>4, <3>1, <3>2 DEF ShapeOf, Created
    <3>4. \A u \in Worker \ {v} : job'[u].res # q
      <4>1. \A u \in Worker \ {v} : job[u].res # q
        BY <2>1, <2>4 DEF ShapeOf
      <4>2. Idle.res # q
        BY <3>2, ReservationAssumption DEF Idle
      <4>3. QED
        BY <1>3, <4>1, <4>2
    <3>5. QED
      BY <2>1, <2>4, <3>3, <3>4 DEF ShapeOf, SagaKind, Created
  <2>5. CASE job[v].kind # "create" /\ q \in Reservation
    <3>1. Created(q) => booking'[q].status # Absent
      BY <1>4, <2>5 DEF Created
    <3>2. q = r => job[w].kind # "create"
      BY <1>6, CreateIsAlone
    <3>3. hold[q] \notin {Absent, "active"} => hold'[q] \notin {Absent, "active"}
      BY <1>1, <2>5, <3>2
    <3>4. QED
      BY <2>1, <2>5, <3>1, <3>3 DEF ShapeOf, SagaKind, Created
  <2>6. QED
    BY <2>2, <2>3, <2>4, <2>5
<1>7. \A d \in due' : Created(d)'
  BY <1>4 DEF Commit, clock, HandlersInShape, TypeOK
<1>8. QED
  BY <1>2, <1>5, <1>6, <1>7 DEF HandlersInShape

(* Every step keeps the handlers in shape and the rows in agreement.       *)
LEMMA ShapeStep ==
  ASSUME TypeOK, HandlersInShape, PairsAgree, [Next]_vars
  PROVE  HandlersInShape' /\ PairsAgree'
<1>1. ASSUME UNCHANGED tables
      PROVE  PairsAgree'
  BY <1>1 DEF PairsAgree, tables
<1>2. ASSUME NEW w \in Worker, Start(w)
      PROVE  HandlersInShape' /\ PairsAgree'
  <2>1. UNCHANGED tables
    BY <1>2 DEF Start, StartCreate, StartCancel, StartOutcome, StartExpire
  <2>2. QED
    BY <1>1, <1>2, <2>1, StartInShape
<1>3. ASSUME NEW w \in Worker, Proceed(w), ~Commit(w)
      PROVE  HandlersInShape' /\ PairsAgree'
  <2>1. UNCHANGED tables
    BY <1>3
    DEF Proceed, ReadBooking, ReadHoldInSaga, ReadHoldInCancel, WriteBooking,
        WriteHold, PassExclusion, FailExclusion, Roll
  <2>2. QED
    BY <1>1, <1>3, <2>1, ProceedInShape
<1>4. ASSUME NEW w \in Worker, Commit(w)
      PROVE  HandlersInShape' /\ PairsAgree'
  BY <1>4, CommitInShape
<1>5. ASSUME NEW w \in Worker, DeadlockVictim(w) \/ Fault(w)
      PROVE  HandlersInShape' /\ PairsAgree'
  <2>1. Go(w, Idle) /\ UNCHANGED <<tables, clock>>
    BY <1>5 DEF DeadlockVictim, Fault, Roll
  <2>2. QED
    BY <1>1, <2>1, RolledBackInShape
<1>6. CASE \E r \in Reservation : Lapse(r)
  BY <1>1, <1>6 DEF Lapse, HandlersInShape, ShapeOf, Created, tables
<1>7. CASE Sweep
  <2>1. UNCHANGED <<tables, job>>
    BY <1>7 DEF Sweep
  <2>2. \A r \in due' : Created(r)
    BY <1>7 DEF Sweep, HandlersInShape, Created, Absent
  <2>3. QED
    BY <1>1, <2>1, <2>2 DEF HandlersInShape, ShapeOf, Created, tables
<1>8. CASE UNCHANGED vars
  BY <1>1, <1>8 DEF vars, HandlersInShape, ShapeOf, Created, tables
<1>9. QED
  BY <1>2, <1>3, <1>4, <1>5, <1>6, <1>7, <1>8 DEF Next, Proceed, Quiet
-----------------------------------------------------------------------------
(* The outbox only grows, at its end and only at commits.                  *)
LEMMA AppendedLog ==
  ASSUME NEW S, NEW log \in Seq(S), NEW e \in S
  PROVE  LET longer == AppendEvents(log, <<e>>)
         IN  /\ longer # <<>>
             /\ longer[Len(longer)] = e
             /\ \E i \in DOMAIN longer : longer[i] = e
             /\ \A i \in DOMAIN log : i \in DOMAIN longer /\ longer[i] = log[i]
  BY DEF AppendEvents

LEMMA CommittedLog ==
  ASSUME TypeOK, HandlersInShape, NEW w \in Worker, Commit(w)
  PROVE  LET r == job[w].res
         IN  /\ r \in Reservation
             /\ booking'[r] = job[w].booking
             /\ outbox'[r] = AppendEvents(outbox[r], Enqueued(job[w]))
             /\ Enqueued(job[w]) = <<>> \/ \E e \in Event : Enqueued(job[w]) = <<e>>
             /\ \A q \in Reservation \ {r} :
                  booking'[q] = booking[q] /\ outbox'[q] = outbox[q]
<1>1. job[w] \in Job /\ job[w].res \in Reservation
  BY BusyWorker DEF Commit
<1>2. job[w].booking.refund \in Refund
  BY <1>1 DEF Job, BookingRow
<1>3. BookingConfirmed \in Event /\ BookingCancelled(job[w].booking.refund) \in Event
  BY <1>2 DEF Event, BookingConfirmed, BookingCancelled, Refund, NoRefund
<1>4. QED
  BY <1>1, <1>3 DEF Commit, TypeOK, Enqueued

(* A booking's last row tells its status: the row is appended by the very  *)
(* commit that writes the status.                                          *)
LEMMA OutboxStep ==
  ASSUME TypeOK, HandlersInShape, OutboxTellsStatus, [Next]_vars
  PROVE  OutboxTellsStatus'
<1>1. ASSUME NEW w \in Worker, Commit(w)
      PROVE  OutboxTellsStatus'
  <2> DEFINE r == job[w].res
  <2>1. /\ r \in Reservation
        /\ booking'[r] = job[w].booking
        /\ outbox'[r] = AppendEvents(outbox[r], Enqueued(job[w]))
        /\ \A q \in Reservation \ {r} : booking'[q] = booking[q] /\ outbox'[q] = outbox[q]
    BY <1>1, CommittedLog
  <2>2. job[w] \in Job /\ job[w].pc = "commit" /\ ShapeOf(w) /\ outbox[r] \in Seq(Event)
    BY <1>1, <2>1 DEF Commit, HandlersInShape, TypeOK
  <2>3. job[w].kind \in SagaKind \cup {"create", "cancel"}
    BY <2>2 DEF Job, Kind, ShapeOf, Idle
  <2>4. job[w].booking \in BookingRow
    BY <2>2 DEF Job
  <2>5. CASE job[w].kind = "cancel"
    <3> DEFINE e == BookingCancelled(job[w].booking.refund)
    <3>1. e \in Event
      BY <2>4 DEF Event, BookingCancelled, BookingRow
    <3>2. outbox'[r] = AppendEvents(outbox[r], <<e>>)
      BY <2>1, <2>5 DEF Enqueued
    <3>3. outbox'[r] # <<>> /\ outbox'[r][Len(outbox'[r])] = e
      BY <2>2, <3>1, <3>2, AppendedLog
    <3>4. booking'[r].status = "Cancelled"
      BY <2>1, <2>2, <2>5 DEF ShapeOf
    <3>5. Announces(booking'[r], outbox'[r])
      BY <2>1, <3>3, <3>4 DEF Announces
    <3>6. QED
      BY <2>1, <3>5 DEF OutboxTellsStatus
  <2>6. CASE job[w].kind = "confirm"
    <3>1. BookingConfirmed \in Event
      BY DEF Event, BookingConfirmed, Refund
    <3>2. outbox'[r] = AppendEvents(outbox[r], <<BookingConfirmed>>)
      BY <2>1, <2>6 DEF Enqueued
    <3>3. outbox'[r] # <<>> /\ outbox'[r][Len(outbox'[r])] = BookingConfirmed
      BY <2>2, <3>1, <3>2, AppendedLog
    <3>4. booking'[r].status = "Confirmed"
      BY <2>1, <2>2, <2>4, <2>6 DEF ShapeOf, SagaKind, SettledBooking, Moved, BookingRow
    <3>5. Announces(booking'[r], outbox'[r])
      BY <3>3, <3>4 DEF Announces
    <3>6. QED
      BY <2>1, <3>5 DEF OutboxTellsStatus
  <2>7. CASE job[w].kind \in {"create", "fail", "expire"}
    <3>1. booking'[r].status \in {"PendingPayment", "Expired"}
      BY <2>1, <2>2, <2>4, <2>7
      DEF ShapeOf, SagaKind, SettledBooking, Moved, BookingRow, NewBooking
    <3>2. Announces(booking'[r], outbox'[r])
      BY <3>1 DEF Announces
    <3>3. QED
      BY <2>1, <3>2 DEF OutboxTellsStatus
  <2>8. QED
    BY <2>3, <2>5, <2>6, <2>7 DEF SagaKind
<1>2. CASE UNCHANGED tables
  BY <1>2 DEF tables, OutboxTellsStatus
<1>3. QED
  BY <1>1, <1>2
  DEF Next, Start, StartCreate, StartCancel, StartOutcome, StartExpire, Proceed,
      ReadBooking, ReadHoldInSaga, ReadHoldInCancel, WriteBooking, WriteHold,
      PassExclusion, FailExclusion, DeadlockVictim, Fault, Roll, Lapse, Sweep,
      Quiet, vars, tables
-----------------------------------------------------------------------------
(* What a handler has just started has no refund, unless it is a cancel of *)
(* a Confirmed booking, and such a booking's last row says it was paid.    *)
LEMMA StartBacked ==
  ASSUME TypeOK, OutboxTellsStatus, RefundsBacked, NEW w \in Worker, Start(w)
  PROVE  RefundsBacked'
<1>1. PICK r \in Reservation :
        \/ StartCreate(w, r)
        \/ \E n \in Notice : StartCancel(w, r, n)
        \/ \E kind \in {"confirm", "fail"} : StartOutcome(w, r, kind)
        \/ StartExpire(w, r)
  BY DEF Start
<1>2. UNCHANGED tables /\ \A v \in Worker \ {w} : job'[v] = job[v]
  BY <1>1 DEF StartCreate, StartCancel, StartOutcome, StartExpire, Go, TypeOK
<1>3. job'[w].res = r
  BY <1>1 DEF StartCreate, StartCancel, StartOutcome, StartExpire, Go, TypeOK, Begin
<1>4. job'[w].booking.refund > 0 => Paid(r)
  <2>1. CASE \E n \in Notice : StartCancel(w, r, n)
    <3>1. PICK n \in Notice : StartCancel(w, r, n)
      BY <2>1
    <3>2. job'[w].booking.refund = Evaluate(booking[r].status, n, Price).refund
      BY <3>1 DEF StartCancel, Go, TypeOK, Begin, CancelledWith
    <3>3. SUFFICES ASSUME booking[r].status = "Confirmed"
                   PROVE  Paid(r)
      BY <3>2, RefundBounds
    <3>4. outbox[r] # <<>> /\ outbox[r][Len(outbox[r])] = BookingConfirmed
      BY <3>3 DEF OutboxTellsStatus, Announces
    <3>5. outbox[r] \in Seq(Event)
      BY DEF TypeOK
    <3>6. Len(outbox[r]) \in DOMAIN outbox[r]
      BY <3>4, <3>5
    <3>7. QED
      BY <3>4, <3>6 DEF Paid
  <2>2. CASE ~\E n \in Notice : StartCancel(w, r, n)
    <3>1. job'[w].booking.refund = NoRefund
      BY <1>1, <2>2
      DEF StartCreate, StartOutcome, StartExpire, Go, TypeOK, Begin, NewBooking,
          NoBooking
    <3>2. QED
      BY <3>1 DEF NoRefund
  <2>3. QED
    BY <2>1, <2>2
<1>5. QED
  BY <1>2, <1>3, <1>4 DEF RefundsBacked, RefundOnlyAfterConfirm, Paid, tables

(* A handler that goes on keeps its refund, takes over the one of the row  *)
(* it reads, or ends.                                                      *)
LEMMA ProceedBacked ==
  ASSUME TypeOK, RefundsBacked, NEW w \in Worker, Proceed(w), ~Commit(w)
  PROVE  RefundsBacked'
<1>1. job[w] \in Job /\ job[w].res \in Reservation
  BY BusyWorker
  DEF Proceed, ReadBooking, ReadHoldInSaga, ReadHoldInCancel, WriteBooking,
      WriteHold, PassExclusion, FailExclusion, Commit
<1>2. UNCHANGED tables /\ \A v \in Worker \ {w} : job'[v] = job[v]
  BY DEF Proceed, ReadBooking, ReadHoldInSaga, ReadHoldInCancel, WriteBooking,
         WriteHold, PassExclusion, FailExclusion, Roll, Go, TypeOK
<1>3. job'[w].booking.refund > 0 => job'[w].res = job[w].res /\ Paid(job[w].res)
  <2>1. CASE job'[w] = Idle
    BY <2>1 DEF Idle, NoBooking, NoRefund
  <2>2. CASE ReadBooking(w)
    <3>1. job'[w].booking = booking[job[w].res] /\ job'[w].res = job[w].res
      BY <1>1, <2>2 DEF ReadBooking, Go, TypeOK, Job
    <3>2. QED
      BY <1>1, <3>1 DEF RefundsBacked, RefundOnlyAfterConfirm
  <2>3. CASE ~ReadBooking(w) /\ job'[w] # Idle
    <3>1. job'[w].res = job[w].res /\ job'[w].booking.refund = job[w].booking.refund
      <4>1. job[w].booking \in BookingRow
        BY <1>1 DEF Job
      <4>2. SettledBooking(job[w].kind, job[w].booking).refund = job[w].booking.refund
        BY <4>1 DEF SettledBooking, Moved, BookingRow
      <4>3. CASE ReadHoldInSaga(w)
        <5> DEFINE row == SettledBooking(job[w].kind, job[w].booking)
                   status == SettledHold(job[w].kind)
                   j == [job[w] EXCEPT !.pc = "writeBooking", !.booking = row,
                                       !.hold = status]
        <5>1. j.res = job[w].res /\ j.booking = row
          BY <1>1 DEF Job
        <5>2. job' = [job EXCEPT ![w] = j]
          BY <2>3, <4>3 DEF ReadHoldInSaga, Go, TypeOK
        <5> HIDE DEF j
        <5>3. job'[w] = j
          BY <5>2 DEF TypeOK
        <5>4. QED
          BY <4>2, <5>1, <5>3
      <4>4. CASE ReadHoldInCancel(w)
        BY <1>1, <4>4 DEF ReadHoldInCancel, Go, TypeOK, Job
      <4>5. CASE WriteBooking(w)
        BY <1>1, <4>5 DEF WriteBooking, Go, TypeOK, Job
      <4>6. CASE WriteHold(w)
        BY <1>1, <4>6 DEF WriteHold, Go, TypeOK, Job
      <4>7. CASE PassExclusion(w)
        BY <1>1, <4>7 DEF PassExclusion, Go, TypeOK, Job
      <4>8. CASE FailExclusion(w)
        BY <2>3, <4>8 DEF FailExclusion, Roll, Go, TypeOK
      <4>9. QED
        BY <2>3, <4>3, <4>4, <4>5, <4>6, <4>7, <4>8 DEF Proceed
    <3>2. QED
      BY <3>1 DEF RefundsBacked
  <2>4. QED
    BY <2>1, <2>2, <2>3
<1>4. QED
  BY <1>2, <1>3 DEF RefundsBacked, RefundOnlyAfterConfirm, Paid, tables

(* A commit writes a refund its handler had, and never removes a row.      *)
LEMMA CommitBacked ==
  ASSUME TypeOK, HandlersInShape, RefundsBacked, NEW w \in Worker, Commit(w)
  PROVE  RefundsBacked'
<1> DEFINE r == job[w].res
<1>1. /\ r \in Reservation
      /\ booking'[r] = job[w].booking
      /\ outbox'[r] = AppendEvents(outbox[r], Enqueued(job[w]))
      /\ Enqueued(job[w]) = <<>> \/ \E e \in Event : Enqueued(job[w]) = <<e>>
      /\ \A q \in Reservation \ {r} : booking'[q] = booking[q] /\ outbox'[q] = outbox[q]
  BY CommittedLog
<1>2. outbox[r] \in Seq(Event)
  BY <1>1 DEF TypeOK
<1>3. \A i \in DOMAIN outbox[r] : i \in DOMAIN outbox'[r] /\ outbox'[r][i] = outbox[r][i]
  <2>1. CASE Enqueued(job[w]) = <<>>
    BY <1>1, <1>2, <2>1 DEF AppendEvents
  <2>2. CASE \E e \in Event : Enqueued(job[w]) = <<e>>
    BY <1>1, <1>2, <2>2, AppendedLog
  <2>3. QED
    BY <1>1, <2>1, <2>2
<1>4. \A q \in Reservation : Paid(q) => Paid(q)'
  BY <1>1, <1>3 DEF Paid
<1>5. \A v \in Worker : job'[v] = IF v = w THEN Idle ELSE job[v]
  BY DEF Commit, Go, TypeOK
<1>6. RefundOnlyAfterConfirm'
  BY <1>1, <1>4 DEF RefundsBacked, RefundOnlyAfterConfirm
<1>7. ASSUME NEW v \in Worker, (job[v].booking.refund > 0)'
      PROVE  Paid(job[v].res)'
  <2>1. job'[v] = job[v] /\ job[v] # Idle
    BY <1>5, <1>7 DEF Idle, NoBooking, NoRefund
  <2>2. job[v].res \in Reservation
    BY <2>1 DEF TypeOK, Job
  <2>3. Paid(job[v].res)
    BY <1>7, <2>1 DEF RefundsBacked
  <2>4. \A q \in Reservation : q = job'[v].res /\ Paid(q)' => Paid(job[v].res)'
    BY DEF Paid
  <2>5. QED
    BY <1>4, <2>1, <2>2, <2>3, <2>4
<1>8. QED
  BY <1>6, <1>7 DEF RefundsBacked

(* Every step leaves the refunds, written or about to be, backed.          *)
LEMMA BackedStep ==
  ASSUME TypeOK, HandlersInShape, OutboxTellsStatus, RefundsBacked, [Next]_vars
  PROVE  RefundsBacked'
<1>1. ASSUME NEW w \in Worker, DeadlockVictim(w) \/ Fault(w)
      PROVE  RefundsBacked'
  <2>1. \A v \in Worker : job'[v] = IF v = w THEN Idle ELSE job[v]
    BY <1>1 DEF DeadlockVictim, Fault, Roll, Go, TypeOK
  <2>2. UNCHANGED tables
    BY <1>1 DEF DeadlockVictim, Fault, Roll
  <2>3. QED
    BY <2>1, <2>2
    DEF RefundsBacked, RefundOnlyAfterConfirm, Paid, tables, Idle, NoBooking, NoRefund
<1>2. ASSUME UNCHANGED <<tables, job>>
      PROVE  RefundsBacked'
  BY <1>2 DEF RefundsBacked, RefundOnlyAfterConfirm, Paid, tables
<1>3. CASE (\E r \in Reservation : Lapse(r)) \/ Sweep \/ UNCHANGED vars
  BY <1>2, <1>3 DEF Lapse, Sweep, vars, tables
<1>4. QED
  BY <1>1, <1>3, StartBacked, ProceedBacked, CommitBacked DEF Next, Quiet, Proceed
-----------------------------------------------------------------------------
(* Together the parts above are an inductive invariant.                    *)
Inductive ==
  /\ HandlersInShape
  /\ PairsAgree
  /\ SecuredOnce
  /\ OutboxTellsStatus
  /\ RefundsBacked

LEMMA InitInductive == Init => Inductive
<1> SUFFICES ASSUME Init PROVE Inductive
  OBVIOUS
<1>1. \A w \in Worker : job[w] = Idle
  BY DEF Init
<1>2. HandlersInShape
  BY <1>1 DEF Init, HandlersInShape, ShapeOf, Idle, SagaKind
<1>3. PairsAgree
  BY DEF Init, PairsAgree, Agree, NoBooking, Absent
<1>4. SecuredOnce
  BY <1>1 DEF Init, SecuredOnce, Secured, Wrote, Live, Idle, Absent
<1>5. OutboxTellsStatus
  BY DEF Init, OutboxTellsStatus, Announces, NoBooking, Absent
<1>6. RefundsBacked
  BY <1>1 DEF Init, RefundsBacked, RefundOnlyAfterConfirm, NoBooking, NoRefund, Idle
<1>7. QED
  BY <1>2, <1>3, <1>4, <1>5, <1>6 DEF Inductive

(* The invariant of the core: nothing the handlers can interleave breaks   *)
(* any of its parts.                                                       *)
THEOREM InductiveCorrect == Spec => []Inductive
<1>1. TypeOK /\ Inductive /\ [Next]_vars => Inductive'
  BY ShapeStep, SecuredOnceStep, OutboxStep, BackedStep DEF Inductive
<1>2. QED
  BY <1>1, InitInductive, TypeCorrect, PTL DEF Spec

(* No two live holds ever share a night of a listing: what the EXCLUDE     *)
(* constraint is there for, whatever handlers run at the same time.        *)
THEOREM NeverOverbooked == Spec => []NoOverbooking
<1>1. SecuredOnce => NoOverbooking
  BY DEF SecuredOnce, NoOverbooking, Secured
<1>2. QED
  BY <1>1, InductiveCorrect, PTL DEF Inductive

(* After every commit a booking and its hold tell the same story, although *)
(* the cancel handler writes a copy it read before its transaction.        *)
THEOREM PairsAlwaysAgree == Spec => []PairsAgree
  BY InductiveCorrect, PTL DEF Inductive

(* The last outbox row of a booking is the truth about it.                 *)
THEOREM OutboxIsTruthful == Spec => []OutboxTellsStatus
  BY InductiveCorrect, PTL DEF Inductive

(* No refund without a payment: whichever stale copy a cancel judged, it   *)
(* promises money only for a booking that had been confirmed.              *)
THEOREM RefundsArePaidFor == Spec => []RefundOnlyAfterConfirm
<1>1. RefundsBacked => RefundOnlyAfterConfirm
  BY DEF RefundsBacked
<1>2. QED
  BY <1>1, InductiveCorrect, PTL DEF Inductive
-----------------------------------------------------------------------------
(* Two stays that cover a night in common clash.                           *)
LEMMA CoveredTwice ==
  ASSUME TypeOK, NEW q \in Reservation, NEW r \in Reservation, NEW n \in Night,
         Covers(q, n), Covers(r, n)
  PROVE  Clash(stay[q], stay[r])
<1>1. /\ stay[q].checkIn \in Int /\ stay[q].checkOut \in Int
      /\ stay[r].checkIn \in Int /\ stay[r].checkOut \in Int
      /\ n[2] \in Int
  BY StayAssumption, NightAssumption DEF TypeOK
<1>2. QED
  BY <1>1 DEF Covers, Clash, Overlaps

(* The nights a reservation covers are, while its hold is live, those of   *)
(* its stay.                                                               *)
LEMMA StayNights ==
  ASSUME TypeOK, NEW r \in Reservation, NEW n \in Night
  PROVE  Covers(r, n) <=> Live(hold[r]) /\ n \in Cal!NightsOf(stay[r])
<1>1. stay[r].checkIn \in Int /\ stay[r].checkOut \in Int /\ n[2] \in Int
  BY StayAssumption, NightAssumption DEF TypeOK
<1>2. QED
  BY <1>1 DEF Covers, Cal!NightsOf

(* The owner of a night is the reservation whose live hold has it among    *)
(* its nights, if there is one.                                            *)
OwnedByHold ==
  \A n \in Night :
    /\ \A r \in Reservation :
         OwnerOf[n] = r <=> Live(hold[r]) /\ n \in Cal!NightsOf(stay[r])
    /\ OwnerOf[n] = Nobody <=>
         \A r \in Reservation : ~(Live(hold[r]) /\ n \in Cal!NightsOf(stay[r]))

(* While no night is sold twice, every night has the owner its holds say.  *)
LEMMA OwnerIsUnique == TypeOK /\ NoOverbooking => OwnedByHold
<1> SUFFICES ASSUME TypeOK, NoOverbooking, NEW n \in Night
             PROVE  /\ \A r \in Reservation : OwnerOf[n] = r <=> Covers(r, n)
                    /\ OwnerOf[n] = Nobody <=> \A r \in Reservation : ~Covers(r, n)
  BY StayNights DEF OwnedByHold
<1>1. CASE \A r \in Reservation : ~Covers(r, n)
  <2>1. OwnerOf[n] = Nobody
    BY <1>1 DEF OwnerOf
  <2>2. QED
    BY <1>1, <2>1, NobodyAssumption
<1>2. CASE \E r \in Reservation : Covers(r, n)
  <2>1. OwnerOf[n] \in Reservation /\ Covers(OwnerOf[n], n)
    <3> DEFINE c == CHOOSE r \in Reservation : Covers(r, n)
    <3>1. c \in Reservation /\ Covers(c, n)
      BY <1>2
    <3>2. OwnerOf[n] = c
      BY <1>2 DEF OwnerOf
    <3>3. QED
      BY <3>1, <3>2
  <2>2. \A q, r \in Reservation : Covers(q, n) /\ Covers(r, n) => q = r
    <3> SUFFICES ASSUME NEW q \in Reservation, NEW r \in Reservation,
                        Covers(q, n), Covers(r, n), q # r
                 PROVE  FALSE
      OBVIOUS
    <3>1. Clash(stay[q], stay[r])
      BY CoveredTwice
    <3>2. QED
      BY <3>1 DEF NoOverbooking, Covers
  <2>3. QED
    BY <1>2, <2>1, <2>2, NobodyAssumption
<1>3. QED
  BY <1>1, <1>2

(* Every step of the core is a step of the calendar or leaves it alone: a  *)
(* commit that makes a hold live takes nights that were free, because      *)
(* before and after it every night has the one owner its holds say.        *)
LEMMA CalendarStep ==
  ASSUME TypeOK, [Next]_vars, OwnedByHold, OwnedByHold'
  PROVE  [Cal!CalendarNext]_(Cal!calendarVars)
<1>1. ASSUME UNCHANGED <<stay, hold>>
      PROVE  [Cal!CalendarNext]_(Cal!calendarVars)
  <2>1. OwnerOf' = OwnerOf
    BY <1>1 DEF OwnerOf, Covers
  <2>2. QED
    BY <1>1, <2>1 DEF Cal!calendarVars
<1>2. ASSUME NEW w \in Worker, Commit(w)
      PROVE  [Cal!CalendarNext]_(Cal!calendarVars)
  <2> DEFINE r == job[w].res
             mine == Cal!NightsOf(stay[r])
  <2>1. r \in Reservation
    BY <1>2, BusyWorker DEF Commit
  <2>2. stay' = stay /\ \A q \in Reservation \ {r} : hold'[q] = hold[q]
    BY <1>2 DEF Commit, TypeOK
  <2>3. \A n \in Night :
          /\ \A q \in Reservation :
               OwnerOf[n] = q <=> Live(hold[q]) /\ n \in Cal!NightsOf(stay[q])
          /\ OwnerOf[n] = Nobody <=>
               \A q \in Reservation : ~(Live(hold[q]) /\ n \in Cal!NightsOf(stay[q]))
    BY DEF OwnedByHold
  <2>4. \A n \in Night :
          /\ \A q \in Reservation :
               OwnerOf'[n] = q <=> Live(hold'[q]) /\ n \in Cal!NightsOf(stay[q])
          /\ OwnerOf'[n] = Nobody <=>
               \A q \in Reservation : ~(Live(hold'[q]) /\ n \in Cal!NightsOf(stay[q]))
    BY <2>2 DEF OwnedByHold
  <2>5. OwnerOf = [n \in Night |-> OwnerOf[n]] /\ OwnerOf' = [n \in Night |-> OwnerOf'[n]]
    BY DEF OwnerOf
  <2>6. mine \subseteq Night
    BY DEF Cal!NightsOf
  <2>7. ASSUME NEW n \in Night, n \notin mine \/ (Live(hold[r]) <=> Live(hold'[r]))
        PROVE  OwnerOf'[n] = OwnerOf[n]
    <3>1. CASE \E q \in Reservation : Live(hold[q]) /\ n \in Cal!NightsOf(stay[q])
      BY <2>1, <2>2, <2>3, <2>4, <2>7, <3>1
    <3>2. CASE \A q \in Reservation : ~(Live(hold[q]) /\ n \in Cal!NightsOf(stay[q]))
      BY <2>1, <2>2, <2>3, <2>4, <2>7, <3>2
    <3>3. QED
      BY <3>1, <3>2
  <2>8. CASE Live(hold[r]) <=> Live(hold'[r])
    BY <2>2, <2>5, <2>7, <2>8 DEF Cal!calendarVars
  <2>9. CASE ~Live(hold[r]) /\ Live(hold'[r])
    <3>1. ASSUME NEW n \in mine
          PROVE  OwnerOf'[n] = r /\ OwnerOf[n] = Nobody
      <4>1. OwnerOf'[n] = r
        BY <2>1, <2>4, <2>6, <2>9, <3>1
      <4>2. \A q \in Reservation \ {r} : ~(Live(hold[q]) /\ n \in Cal!NightsOf(stay[q]))
        BY <2>2, <2>4, <2>6, <4>1
      <4>3. QED
        BY <2>3, <2>6, <2>9, <4>1, <4>2
    <3>2. Cal!Take(r)
      BY <2>2, <2>5, <2>6, <2>7, <3>1 DEF Cal!Take, Cal!Paint
    <3>3. QED
      BY <2>1, <3>2 DEF Cal!CalendarNext
  <2>10. CASE Live(hold[r]) /\ ~Live(hold'[r])
    <3>1. ASSUME NEW n \in mine
          PROVE  OwnerOf[n] = r /\ OwnerOf'[n] = Nobody
      <4>1. OwnerOf[n] = r
        BY <2>1, <2>3, <2>6, <2>10, <3>1
      <4>2. \A q \in Reservation \ {r} : ~(Live(hold'[q]) /\ n \in Cal!NightsOf(stay[q]))
        BY <2>2, <2>3, <2>6, <4>1
      <4>3. QED
        BY <2>4, <2>6, <2>10, <4>1, <4>2
    <3>2. Cal!GiveBack(r)
      BY <2>2, <2>5, <2>6, <2>7, <3>1 DEF Cal!GiveBack, Cal!Paint
    <3>3. QED
      BY <2>1, <3>2 DEF Cal!CalendarNext
  <2>11. QED
    BY <2>8, <2>9, <2>10
<1>3. QED
  BY <1>1, <1>2
  DEF Next, Start, StartCreate, StartCancel, StartOutcome, StartExpire, Proceed,
      ReadBooking, ReadHoldInSaga, ReadHoldInCancel, WriteBooking, WriteHold,
      PassExclusion, FailExclusion, DeadlockVictim, Fault, Roll, Lapse, Sweep,
      Quiet, vars, tables

(* The core implements the calendar: a reservation takes all the nights of *)
(* its stay while they are free, or gives all of them back, and no step    *)
(* does anything else to the calendar.                                     *)
THEOREM CoreImplementsCalendar == Spec => ImplementsCalendar
<1>1. Init => Cal!CalendarInit
  BY DEF Init, Cal!CalendarInit, OwnerOf, Covers, Live, Absent
<1>2. TypeOK /\ [Next]_vars /\ OwnedByHold /\ OwnedByHold'
        => [Cal!CalendarNext]_(Cal!calendarVars)
  BY CalendarStep
<1>3. QED
  BY <1>1, <1>2, OwnerIsUnique, TypeCorrect, NeverOverbooked, PTL
  DEF Spec, ImplementsCalendar, Cal!Calendar
-----------------------------------------------------------------------------
(* The nights of a booking that ended. A cancel that finds the hold settled *)
(* leaves it alone and writes the booking later: nobody may make the hold  *)
(* live in between. Only a confirm that had read it while it was active    *)
(* can, and when the cancel reads it settled, a third handler must have    *)
(* released it since. So no two handlers leak nights, and three do.        *)
AtMostTwo ==
  \A r \in Reservation : \A u, v, w \in Worker :
    job[u].res = r /\ job[v].res = r /\ job[w].res = r
      => u = v \/ v = w \/ u = w

(* v is past the saga's read of r's hold and will write it committed.      *)
Confirming(v, r) ==
  /\ job[v].res = r /\ job[v].kind = "confirm"
  /\ job[v].pc \in {"writeBooking", "writeHold", "checkHold", "commit"}

(* w is a cancel that found the hold settled.                              *)
LeavesHold(w) ==
  /\ job[w].kind = "cancel" /\ job[w].pc \in {"writeBooking", "commit"}
  /\ "hold" \notin job[w].wrote

ReadsHold(w) == job[w].kind = "cancel" /\ job[w].pc = "readHold"

NightsKept ==
  /\ NightsReturned
  /\ \A w \in Worker : LeavesHold(w) => ~Live(hold[job[w].res])
  /\ \A v, w \in Worker :
       Confirming(v, job[w].res) =>
         ~LeavesHold(w) /\ (ReadsHold(w) => Live(hold[job[w].res]))

(* What a step of w that does not commit makes of w's job.                 *)
LeadsTo(j, k) ==
  /\ k.kind = "cancel" /\ k.pc = "readHold" => Live(hold[k.res])
  /\ k.kind = "cancel" /\ k.pc \in {"writeBooking", "commit"} /\ "hold" \notin k.wrote =>
       /\ j.kind = "cancel" /\ j.res = k.res
       /\ \/ j.pc = "readHold" /\ ~Live(hold[j.res])
          \/ j.pc = "writeBooking" /\ "hold" \notin j.wrote
  /\ k.kind = "confirm" /\ k.pc \in {"writeBooking", "writeHold", "checkHold", "commit"} =>
       \/ hold[k.res] = "active"
       \/ /\ j.kind = "confirm" /\ j.res = k.res
          /\ j.pc \in {"writeBooking", "writeHold", "checkHold", "commit"}

LEMMA MovedKeepsNights ==
  ASSUME TypeOK, NightsKept, NEW w \in Worker, NEW k, Go(w, k), UNCHANGED tables,
         LeadsTo(job[w], k)
  PROVE  NightsKept'
<1>1. \A v \in Worker : job'[v] = IF v = w THEN k ELSE job[v]
  BY DEF TypeOK, Go
<1>2. hold' = hold /\ booking' = booking
  BY DEF tables
<1>3. NightsReturned'
  BY <1>2 DEF NightsKept, NightsReturned
<1>4. ASSUME NEW u \in Worker, LeavesHold(u)'
      PROVE  ~Live(hold[job[u].res])'
  BY <1>1, <1>2, <1>4 DEF NightsKept, LeavesHold, LeadsTo
<1>5. ASSUME NEW v \in Worker, NEW u \in Worker, Confirming(v, job[u].res)'
      PROVE  /\ ~LeavesHold(u)'
             /\ ReadsHold(u)' => Live(hold[job[u].res])'
  <2>1. CASE u = w /\ v = w
    BY <1>1, <1>5, <2>1 DEF Confirming, LeavesHold, ReadsHold
  <2>2. CASE u # w /\ v # w
    BY <1>1, <1>2, <1>5, <2>2 DEF NightsKept, Confirming, LeavesHold, ReadsHold
  <2>3. CASE u = w /\ v # w
    BY <1>1, <1>2, <1>5, <2>3 DEF NightsKept, Confirming, LeavesHold, ReadsHold, LeadsTo
  <2>4. CASE u # w /\ v = w
    BY <1>1, <1>2, <1>5, <2>4
    DEF NightsKept, Confirming, LeavesHold, ReadsHold, LeadsTo, Live
  <2> QED
    BY <2>1, <2>2, <2>3, <2>4
<1> QED
  BY <1>3, <1>4, <1>5 DEF NightsKept

LEMMA IdleKeepsNights ==
  ASSUME TypeOK, NightsKept, NEW w \in Worker, Go(w, Idle), UNCHANGED tables
  PROVE  NightsKept'
<1>1. LeadsTo(job[w], Idle)
  BY DEF LeadsTo, Idle
<1> QED
  BY <1>1, MovedKeepsNights

(* A guest can cancel a booking whose hold is live.                        *)
LEMMA StartKeepsNights ==
  ASSUME TypeOK, PairsAgree, NightsKept, NEW w \in Worker, Start(w)
  PROVE  NightsKept'
<1>1. ASSUME NEW r \in Reservation, StartCreate(w, r)
      PROVE  NightsKept'
  <2>1. LeadsTo(job[w], Begin("create", r, "writeHold", NewBooking, "active"))
    BY DEF LeadsTo, Begin
  <2> QED
    BY <1>1, <2>1, MovedKeepsNights DEF StartCreate
<1>2. ASSUME NEW r \in Reservation, NEW n \in Notice, StartCancel(w, r, n)
      PROVE  NightsKept'
  <2> DEFINE k == Begin("cancel", r, "readHold",
                        CancelledWith(Evaluate(booking[r].status, n, Price).refund), Absent)
  <2>1. booking[r].status \in {"PendingPayment", "Confirmed"}
    BY <1>2 DEF StartCancel, Evaluate, Refused
  <2>2. Live(hold[r])
    BY <2>1 DEF PairsAgree, Agree, Live
  <2>3. k.kind = "cancel" /\ k.pc = "readHold" /\ k.res = r
    BY DEF Begin
  <2>4. Go(w, k) /\ UNCHANGED tables
    BY <1>2 DEF StartCancel
  <2> HIDE DEF k
  <2>5. LeadsTo(job[w], k)
    BY <2>2, <2>3 DEF LeadsTo
  <2> QED
    BY <2>4, <2>5, MovedKeepsNights
<1>3. ASSUME NEW r \in Reservation, NEW kind \in SagaKind, UNCHANGED tables,
             Go(w, Begin(kind, r, "readBooking", NoBooking, Absent))
      PROVE  NightsKept'
  <2>1. LeadsTo(job[w], Begin(kind, r, "readBooking", NoBooking, Absent))
    BY DEF LeadsTo, Begin
  <2> QED
    BY <1>3, <2>1, MovedKeepsNights
<1> QED
  BY <1>1, <1>2, <1>3 DEF Start, StartOutcome, StartExpire, SagaKind

LEMMA ProceedKeepsNights ==
  ASSUME TypeOK, HandlersInShape, NightsKept, NEW w \in Worker, Proceed(w), ~Commit(w)
  PROVE  NightsKept'
<1> DEFINE r == job[w].res
<1>1. job[w] \in Job /\ r \in Reservation
  BY BusyWorker
  DEF Proceed, ReadBooking, ReadHoldInSaga, ReadHoldInCancel, WriteBooking,
      WriteHold, PassExclusion, FailExclusion, Commit
<1>2. ShapeOf(w)
  BY DEF HandlersInShape
<1>3. ASSUME NEW k, Go(w, k), UNCHANGED tables, LeadsTo(job[w], k)
      PROVE  NightsKept'
  BY <1>3, MovedKeepsNights
<1>4. CASE ReadBooking(w)
  <2> DEFINE k == [job[w] EXCEPT !.pc = "readHold", !.booking = booking[r]]
  <2>1. k.kind = job[w].kind /\ k.pc = "readHold" /\ job[w].pc = "readBooking"
    BY <1>1, <1>4 DEF ReadBooking, Job
  <2>2. Go(w, k) /\ UNCHANGED tables
    BY <1>4 DEF ReadBooking
  <2>3. job[w].kind # "cancel"
    BY <1>2, <2>1 DEF ShapeOf
  <2> HIDE DEF k
  <2>4. LeadsTo(job[w], k)
    BY <2>1, <2>3 DEF LeadsTo
  <2> QED
    BY <1>3, <2>2, <2>4
<1>5. CASE ReadHoldInSaga(w)
  <2> DEFINE k == [job[w] EXCEPT !.pc = "writeBooking",
                                 !.booking = SettledBooking(job[w].kind, job[w].booking),
                                 !.hold = SettledHold(job[w].kind)]
  <2>1. CASE Accepts(job[w].kind, job[w].booking, hold[r])
    <3>1. /\ k.kind = job[w].kind /\ k.res = r /\ job[w].kind # "cancel"
          /\ job[w].kind = "confirm" => hold[r] = "active"
      BY <1>1, <1>5, <2>1 DEF ReadHoldInSaga, Job, SagaKind, Accepts
    <3>2. Go(w, k) /\ UNCHANGED tables
      BY <1>5, <2>1 DEF ReadHoldInSaga
    <3> HIDE DEF k
    <3>3. LeadsTo(job[w], k)
      BY <3>1 DEF LeadsTo
    <3> QED
      BY <1>3, <3>2, <3>3
  <2>2. CASE ~Accepts(job[w].kind, job[w].booking, hold[r])
    BY <1>5, <2>2, IdleKeepsNights DEF ReadHoldInSaga
  <2> QED
    BY <2>1, <2>2
<1>6. CASE ReadHoldInCancel(w)
  <2> DEFINE j == [job[w] EXCEPT !.pc = "writeHold", !.hold = "released"]
             k == [job[w] EXCEPT !.pc = "writeBooking"]
  <2>1. j.kind = "cancel" /\ j.pc = "writeHold"
    BY <1>1, <1>6 DEF ReadHoldInCancel, Job
  <2>2. /\ k.kind = "cancel" /\ k.pc = "writeBooking" /\ k.res = r
        /\ job[w].kind = "cancel" /\ job[w].pc = "readHold"
    BY <1>1, <1>6 DEF ReadHoldInCancel, Job
  <2>3. UNCHANGED tables /\ Go(w, IF Live(hold[r]) THEN j ELSE k)
    BY <1>6 DEF ReadHoldInCancel
  <2> HIDE DEF j, k
  <2>4. CASE Live(hold[r])
    <3>1. LeadsTo(job[w], j)
      BY <2>1 DEF LeadsTo
    <3> QED
      BY <1>3, <2>3, <2>4, <3>1
  <2>5. CASE ~Live(hold[r])
    <3>1. LeadsTo(job[w], k)
      BY <2>2, <2>5 DEF LeadsTo
    <3> QED
      BY <1>3, <2>3, <2>5, <3>1
  <2> QED
    BY <2>4, <2>5
<1>7. CASE WriteBooking(w)
  <2> DEFINE k == [job[w] EXCEPT !.pc = AfterBooking(job[w].kind),
                                 !.wrote = @ \cup {"booking"}]
  <2>1. /\ k.res = r /\ k.kind = job[w].kind /\ job[w].pc = "writeBooking"
        /\ k.pc \in {"commit", "writeHold"} /\ k.wrote = job[w].wrote \cup {"booking"}
    BY <1>1, <1>7 DEF Job, AfterBooking, WriteBooking
  <2>2. Go(w, k) /\ UNCHANGED tables
    BY <1>7 DEF WriteBooking
  <2> HIDE DEF k
  <2>3. LeadsTo(job[w], k)
    BY <2>1 DEF LeadsTo
  <2> QED
    BY <1>3, <2>2, <2>3
<1>8. CASE WriteHold(w)
  <2> DEFINE pc == IF Live(job[w].hold) THEN "checkHold" ELSE AfterHold(job[w].kind)
             k == [job[w] EXCEPT !.pc = pc, !.wrote = @ \cup {"hold"}]
  <2>1. /\ k.res = r /\ k.kind = job[w].kind /\ job[w].pc = "writeHold"
        /\ k.pc # "readHold" /\ "hold" \in k.wrote
    BY <1>1, <1>8 DEF Job, AfterHold, WriteHold
  <2>2. Go(w, k) /\ UNCHANGED tables
    BY <1>8 DEF WriteHold
  <2> HIDE DEF k
  <2>3. LeadsTo(job[w], k)
    BY <2>1 DEF LeadsTo
  <2> QED
    BY <1>3, <2>2, <2>3
<1>9. CASE PassExclusion(w)
  <2> DEFINE k == [job[w] EXCEPT !.pc = AfterHold(job[w].kind)]
  <2>1. /\ k.res = r /\ k.kind = job[w].kind /\ job[w].pc = "checkHold"
        /\ k.pc # "readHold" /\ k.wrote = job[w].wrote
    BY <1>1, <1>9 DEF Job, AfterHold, PassExclusion
  <2>2. Go(w, k) /\ UNCHANGED tables
    BY <1>9 DEF PassExclusion
  <2>3. job[w].kind # "cancel"
    BY <1>2, <2>1 DEF ShapeOf
  <2> HIDE DEF k
  <2>4. LeadsTo(job[w], k)
    BY <2>1, <2>3 DEF LeadsTo
  <2> QED
    BY <1>3, <2>2, <2>4
<1>10. CASE FailExclusion(w)
  BY <1>10, IdleKeepsNights DEF FailExclusion, Roll
<1> QED
  BY <1>4, <1>5, <1>6, <1>7, <1>8, <1>9, <1>10 DEF Proceed

(* The commit of one of two handlers: the other one is then alone.         *)
LEMMA CommitKeepsNights ==
  ASSUME TypeOK, HandlersInShape, PairsAgree, AtMostTwo, NightsKept,
         NEW w \in Worker, Commit(w)
  PROVE  NightsKept'
<1> DEFINE r == job[w].res
<1>1. /\ r \in Reservation
      /\ job[w].kind # "create" => hold'[r] # "active"
      /\ Agree(booking'[r].status, hold'[r])
      /\ \A q \in Reservation \ {r} : booking'[q] = booking[q] /\ hold'[q] = hold[q]
  BY CommittedPair
<1>2. /\ job[w] \in Job /\ job[w].pc = "commit" /\ ShapeOf(w)
      /\ booking'[r] = job[w].booking
      /\ hold'[r] = IF "hold" \in job[w].wrote THEN job[w].hold ELSE hold[r]
  BY <1>1, BusyWorker DEF Commit, TypeOK, HandlersInShape
<1>3. \A v \in Worker : job'[v] = IF v = w THEN Idle ELSE job[v]
  BY DEF Commit, Go, TypeOK
<1>4. \A v \in Worker : job[v].res = NoReservation => job[v] = Idle
  BY DEF TypeOK
<1>5. \A v \in Worker : job[v].res \in Reservation \cup {NoReservation}
  BY DEF TypeOK, Job
<1>6. job[w].kind \in SagaKind \cup {"create", "cancel"}
  BY <1>2 DEF Job, Kind, ShapeOf, Idle
(* Only a create and a confirm make a hold live.                           *)
<1>7. Live(hold'[r]) => \/ Live(hold[r]) \/ job[w].kind = "create"
                        \/ Confirming(w, r) /\ job[w].kind = "confirm"
  <2>1. CASE job[w].kind \in SagaKind
    BY <1>2, <2>1 DEF ShapeOf, SettledHold, Live, Confirming, SagaKind
  <2>2. CASE job[w].kind = "cancel"
    BY <1>2, <2>2 DEF ShapeOf, Live
  <2> QED
    BY <1>6, <2>1, <2>2
<1>8. NightsReturned'
  <2>1. booking'[r].status \in {"Cancelled", "Expired"} => ~Live(hold'[r])
    <3>1. CASE job[w].kind = "cancel"
      BY <1>1, <1>2, <3>1 DEF ShapeOf, NightsKept, LeavesHold, Live
    <3>2. CASE job[w].kind = "create"
      BY <1>2, <3>2 DEF ShapeOf, NewBooking
    <3>3. CASE job[w].kind \in SagaKind
      <4>1. job[w].booking \in BookingRow
        BY <1>2 DEF Job
      <4>2. booking'[r].status \in {"Confirmed", "Expired"}
        BY <1>2, <3>3, <4>1 DEF ShapeOf, SettledBooking, Moved, BookingRow
      <4> QED
        BY <1>1, <4>2 DEF Agree, Live
    <3> QED
      BY <1>6, <3>1, <3>2, <3>3
  <2> QED
    BY <1>1, <2>1 DEF NightsKept, NightsReturned
<1>9. ASSUME NEW u \in Worker, LeavesHold(u)'
      PROVE  ~Live(hold[job[u].res])'
  <2>1. u # w /\ job'[u] = job[u] /\ LeavesHold(u)
    BY <1>3, <1>9 DEF LeavesHold, Idle
  <2>2. job[u].res \in Reservation
    BY <1>4, <1>5, <2>1 DEF LeavesHold, Idle
  <2>3. ~Live(hold[job[u].res])
    BY <2>1 DEF NightsKept
  <2>4. CASE job[u].res = r
    <3>1. job[w].kind # "create"
      BY <2>1, <2>4, CreateIsAlone
    <3>2. ~Confirming(w, r)
      BY <2>1, <2>4 DEF NightsKept
    <3> QED
      BY <1>7, <2>1, <2>3, <2>4, <3>1, <3>2
  <2> QED
    BY <1>1, <2>1, <2>2, <2>3, <2>4
<1>10. ASSUME NEW v \in Worker, NEW u \in Worker, Confirming(v, job[u].res)'
       PROVE  /\ ~LeavesHold(u)'
              /\ ReadsHold(u)' => Live(hold[job[u].res])'
  <2> SUFFICES ASSUME LeavesHold(u)' \/ ReadsHold(u)'
               PROVE  ~LeavesHold(u)' /\ Live(hold[job[u].res])'
    OBVIOUS
  <2>0. job'[u].kind = "cancel"
    BY DEF LeavesHold, ReadsHold
  <2>1. v # w /\ u # w /\ v # u /\ job'[v] = job[v] /\ job'[u] = job[u]
    BY <1>3, <1>10, <2>0 DEF Confirming, Idle
  <2>2. Confirming(v, job[u].res) /\ job[v].res = job[u].res
    BY <1>10, <2>1 DEF Confirming
  <2>3. job[u].res \in Reservation
    BY <1>4, <1>5, <2>0, <2>1 DEF Idle
  <2>4. job[u].res # r
    BY <1>1, <2>1, <2>2 DEF AtMostTwo
  <2>5. hold'[job[u].res] = hold[job[u].res]
    BY <1>1, <2>3, <2>4
  <2> QED
    BY <2>1, <2>2, <2>5 DEF NightsKept, LeavesHold, ReadsHold
<1> QED
  BY <1>8, <1>9, <1>10 DEF NightsKept

(* As long as no three handlers of one booking overlap, cancelling or      *)
(* expiring a booking puts its nights back on sale, whatever two handlers  *)
(* do to each other, with any number of them at work on other bookings.    *)
THEOREM NightsComeBack == Spec /\ []AtMostTwo => []NightsReturned
<1>1. Init => NightsKept
  <2> SUFFICES ASSUME Init PROVE NightsKept
    OBVIOUS
  <2>1. \A w \in Worker : job[w].kind = "idle"
    BY DEF Init, Idle
  <2>2. NightsReturned
    BY DEF Init, NightsReturned, NoBooking, Absent
  <2> QED
    BY <2>1, <2>2 DEF NightsKept, LeavesHold, ReadsHold, Confirming
<1>2. TypeOK /\ Inductive /\ AtMostTwo /\ NightsKept /\ [Next]_vars => NightsKept'
  <2> SUFFICES ASSUME TypeOK, Inductive, AtMostTwo, NightsKept, [Next]_vars
               PROVE  NightsKept'
    OBVIOUS
  <2>1. ASSUME NEW w \in Worker, Start(w) \/ Proceed(w)
        PROVE  NightsKept'
    BY <2>1, StartKeepsNights, ProceedKeepsNights, CommitKeepsNights DEF Inductive
  <2>2. ASSUME NEW w \in Worker, DeadlockVictim(w) \/ Fault(w)
        PROVE  NightsKept'
    BY <2>2, IdleKeepsNights DEF DeadlockVictim, Fault, Roll
  <2>3. CASE (\E r \in Reservation : Lapse(r)) \/ Sweep \/ Quiet \/ UNCHANGED vars
    <3>1. UNCHANGED <<tables, job>>
      BY <2>3 DEF Lapse, Sweep, Quiet, vars, tables
    <3> QED
      BY <3>1 DEF tables, NightsKept, NightsReturned, LeavesHold, ReadsHold, Confirming
  <2> QED
    BY <2>1, <2>2, <2>3 DEF Next
<1>3. NightsKept => NightsReturned
  BY DEF NightsKept
<1> QED
  BY <1>1, <1>2, <1>3, TypeCorrect, InductiveCorrect, PTL DEF Spec
=============================================================================
