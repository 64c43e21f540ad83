------------------------------- MODULE Outbox -------------------------------
(***************************************************************************)
(* The transactional outbox from the committed row to the mail: the relay  *)
(* whose ticks read a batch, publish each row on the in-process event bus  *)
(* and stamp it, and the notification handlers the bus starts, which look  *)
(* into their log, send, and write the log.                                *)
(*                                                                         *)
(* The bus does not wait for a handler and swallows what it throws, so a   *)
(* row may be stamped while its mail is not sent. The interval does not    *)
(* wait for the previous tick either: several ticks can be at work. A      *)
(* crash takes ticks and handlers with it and leaves the tables.           *)
(***************************************************************************)
EXTENDS Naturals, FiniteSets

CONSTANTS
  Row,          \* rows of outbox_event, numbered by their occurredAt
  Tick,         \* relay ticks that may run at the same time
  BatchSize,    \* rows a tick takes at most
  MaxFailures   \* bound: crashes, and failed database calls of relay and handlers

ASSUME RowAssumption == Row \subseteq Nat /\ IsFiniteSet(Row)
ASSUME TickAssumption == IsFiniteSet(Tick)
ASSUME BatchAssumption == BatchSize \in Nat \ {0}
ASSUME LimitAssumption == MaxFailures \in Nat

VARIABLES
  committed,    \* rows in the table
  ahead,        \* for a row, the earlier rows that were there when it came
  stamped,      \* rows with a publishedAt
  published,    \* rows that were ever published on the bus
  tick,         \* what each tick has left of its batch
  inflight,     \* running notification handlers per stage and row
  log,          \* rows in notification_log
  mails,        \* mails sent for each row
  overlaps,     \* ticks that began while another one was at work
  failures      \* crashes and failed calls so far

history == <<ahead, published>>
table == <<committed, stamped>>
budget == <<overlaps, failures>>
vars == <<committed, ahead, stamped, published, tick, inflight, log, mails,
          overlaps, failures>>
-----------------------------------------------------------------------------
(* The call a notification handler is about to make.                       *)
Stage == {"look", "send", "mark"}

Resting == [left |-> {}, at |-> "publish"]
NoHandlers == [s \in Stage |-> [r \in Row |-> 0]]

Init ==
  /\ committed = {}
  /\ ahead = [r \in Row |-> {}]
  /\ stamped = {}
  /\ published = {}
  /\ tick = [t \in Tick |-> Resting]
  /\ inflight = NoHandlers
  /\ log = {}
  /\ mails = [r \in Row |-> 0]
  /\ overlaps = 0
  /\ failures = 0

(* PrismaOutbox.enqueue, at the commit of the transaction it runs in.      *)
(* Transactions overlap: rows need not commit in the order of occurredAt.  *)
Enqueue(r) ==
  /\ r \notin committed
  /\ committed' = committed \cup {r}
  /\ ahead' = [ahead EXCEPT ![r] = {q \in committed : q < r}]
  /\ UNCHANGED <<stamped, published, tick, inflight, log, mails, budget>>
-----------------------------------------------------------------------------
(* OutboxRelay.publishPending.                                             *)

(* Mutants of Pending: the filter on publishedAt is dropped, or replaced   *)
(* by a cursor on the newest published row.                                *)
AllRows == committed
BehindCursor == {r \in committed : \A q \in stamped : q < r}

(* findMany: unpublished rows, the oldest BatchSize of them.               *)
Pending == committed \ stamped

Oldest == {r \in Pending : Cardinality({q \in Pending : q < r}) < BatchSize}

First(S) == CHOOSE r \in S : \A q \in S : r <= q

Fails == failures < MaxFailures /\ failures' = failures + 1

CountOverlap(t) ==
  overlaps' = IF \E u \in Tick \ {t} : tick[u].left # {} THEN overlaps + 1 ELSE overlaps

(* Mutant of StartTick: the batch is stamped before it is published.       *)
ClaimBatch(t) ==
  /\ tick[t].left = {}
  /\ Oldest # {}
  /\ CountOverlap(t)
  /\ tick' = [tick EXCEPT ![t] = [left |-> Oldest, at |-> "publish"]]
  /\ stamped' = stamped \cup Oldest
  /\ UNCHANGED <<committed, history, inflight, log, mails, failures>>

StartTick(t) ==
  /\ tick[t].left = {}
  /\ Oldest # {}
  /\ CountOverlap(t)
  /\ tick' = [tick EXCEPT ![t] = [left |-> Oldest, at |-> "publish"]]
  /\ UNCHANGED <<table, history, inflight, log, mails, failures>>

(* The bus hands the event to the handlers of both types; the one whose    *)
(* type it is goes on, with its first database call.                       *)
Publish(t) ==
  LET r == First(tick[t].left)
  IN  /\ tick[t].left # {}
      /\ tick[t].at = "publish"
      /\ published' = published \cup {r}
      /\ inflight' = [inflight EXCEPT !["look"][r] = @ + 1]
      /\ tick' = [tick EXCEPT ![t].at = "stamp"]
      /\ UNCHANGED <<table, ahead, log, mails, budget>>

Stamp(t) ==
  LET r == First(tick[t].left)
  IN  /\ tick[t].left # {}
      /\ tick[t].at = "stamp"
      /\ stamped' = stamped \cup {r}
      /\ tick' = [tick EXCEPT ![t] = [left |-> @.left \ {r}, at |-> "publish"]]
      /\ UNCHANGED <<committed, history, inflight, log, mails, budget>>

(* The update fails: the loop ends, what is left waits for a later tick.   *)
StampFails(t) ==
  /\ tick[t].at = "stamp"
  /\ Fails
  /\ tick' = [tick EXCEPT ![t] = Resting]
  /\ UNCHANGED <<table, history, inflight, log, mails, overlaps>>
-----------------------------------------------------------------------------
(* The notification handler of the event's type.                           *)

Leave(s, r) == [inflight EXCEPT ![s][r] = @ - 1]
Advance(s, next, r) == [inflight EXCEPT ![s][r] = @ - 1, ![next][r] = @ + 1]

(* Mutant of Look: the log is written first and the mail is sent by it.    *)
LogFirst(r) ==
  /\ inflight["look"][r] > 0
  /\ inflight' = IF r \in log THEN Leave("look", r) ELSE Advance("look", "mark", r)
  /\ UNCHANGED <<table, history, tick, log, mails, budget>>

(* alreadyProcessed: a row in the log ends the handler.                    *)
Look(r) ==
  /\ inflight["look"][r] > 0
  /\ inflight' = IF r \in log THEN Leave("look", r) ELSE Advance("look", "send", r)
  /\ UNCHANGED <<table, history, tick, log, mails, budget>>

Send(r) ==
  /\ inflight["send"][r] > 0
  /\ mails' = [mails EXCEPT ![r] = @ + 1]
  /\ inflight' = Advance("send", "mark", r)
  /\ UNCHANGED <<table, history, tick, log, budget>>

(* markProcessed: a duplicate key is swallowed.                            *)
Mark(r) ==
  /\ inflight["mark"][r] > 0
  /\ log' = log \cup {r}
  /\ inflight' = Leave("mark", r)
  /\ UNCHANGED <<table, history, tick, mails, budget>>

(* A database call of the handler fails: the bus logs it and forgets it.   *)
HandlerFails(s, r) ==
  /\ s \in {"look", "mark"}
  /\ inflight[s][r] > 0
  /\ Fails
  /\ inflight' = Leave(s, r)
  /\ UNCHANGED <<table, history, tick, log, mails, overlaps>>

Crash ==
  /\ Fails
  /\ tick' = [t \in Tick |-> Resting]
  /\ inflight' = NoHandlers
  /\ UNCHANGED <<table, history, log, mails, overlaps>>
-----------------------------------------------------------------------------
Relay(t) == StartTick(t) \/ Publish(t) \/ Stamp(t)
Handle(r) == Look(r) \/ Send(r) \/ Mark(r)

(* Every row is in the table and stamped and nothing runs.                 *)
Drained ==
  /\ committed = Row
  /\ Pending = {}
  /\ \A t \in Tick : tick[t].left = {}
  /\ inflight = NoHandlers
  /\ UNCHANGED vars

Next ==
  \/ \E r \in Row : Enqueue(r) \/ Handle(r) \/ \E s \in Stage : HandlerFails(s, r)
  \/ \E t \in Tick : Relay(t) \/ StampFails(t)
  \/ Crash
  \/ Drained

Spec == Init /\ [][Next]_vars

(* The interval fires and the event loop resumes whatever waits.           *)
Fairness ==
  /\ \A t \in Tick : WF_vars(Relay(t))
  /\ \A r \in Row : WF_vars(Look(r)) /\ WF_vars(Send(r)) /\ WF_vars(Mark(r))

FairSpec == Spec /\ Fairness
-----------------------------------------------------------------------------
(* Rows, ticks and handlers have their types; what is stamped or published *)
(* is in the table.                                                        *)
TypeOK ==
  /\ committed \subseteq Row
  /\ ahead \in [Row -> SUBSET Row]
  /\ stamped \subseteq committed
  /\ published \subseteq committed
  /\ tick \in [Tick -> [left : SUBSET Row, at : {"publish", "stamp"}]]
  /\ inflight \in [Stage -> [Row -> Nat]]
  /\ log \subseteq Row
  /\ mails \in [Row -> Nat]
  /\ overlaps \in Nat
  /\ failures \in 0 .. MaxFailures

(* Nothing is fabricated, whatever ticks overlap, fail or die: no row is   *)
(* stamped that nobody has published, the log claims no mail that was not  *)
(* sent, and no mail is sent that no transaction has committed.            *)
NothingFabricated ==
  /\ stamped \subseteq published
  /\ \A r \in log : mails[r] > 0
  /\ \A r \in Row : mails[r] > 0 => r \in published

(* Events reach the bus in the order of occurredAt: before a row is        *)
(* published for the first time, every earlier row that was already in the *)
(* table when it came has been, through batches, overlapping ticks, failed *)
(* stamps and crashes.                                                     *)
PublishedInOrder == \A r \in published : ahead[r] \subseteq published

(* Every committed row is stamped in the end, though a tick takes only the *)
(* oldest BatchSize rows, ends at the first failure and may die.           *)
EveryRowStamped == \A r \in Row : r \in committed ~> r \in stamped

(* A redelivered event does not send a second mail.                        *)
MailedOnce == \A r \in Row : mails[r] <= 1

(* An event committed with its booking is never lost: a mail follows.      *)
NeverLost == \A r \in Row : r \in committed ~> mails[r] > 0

(* The outbox keeps the promise of Delivery: a mail for every event while  *)
(* nothing fails, and no second mail that no crash, failed call or         *)
(* overlapping tick explains.                                              *)
D == INSTANCE Delivery WITH owed <- committed

ImplementsDelivery == D!DeliverySpec
=============================================================================
