--------------------------- MODULE ConnectionPool ---------------------------
(***************************************************************************)
(* The connections of one API process.  Every transaction takes one for    *)
(* its whole life.  The two checks of the Create-Booking flow run inside   *)
(* its transaction but on the Prisma client itself (ListingInventoryQuery  *)
(* does not ask TransactionHost), so each takes a second one for the time  *)
(* of a query.  A request waits for a connection at two places, and every  *)
(* wait has a limit of the library's: maxWait for a transaction's, the     *)
(* pool's for a query's.  A transaction that lives too long is rolled back *)
(* under its handler, which notices at its next write.                     *)
(***************************************************************************)
EXTENDS Naturals, FiniteSets

CONSTANTS Creates,   \* requests that create a booking
          Others,    \* requests whose transaction asks for nothing more
          Conns      \* the pool's connection_limit

PoolAssumption == Conns \in Nat \ {0} /\ IsFiniteSet(Creates) /\ IsFiniteSet(Others)

VARIABLES at, left, open, held
vars == <<at, left, open, held>>

Requests == Creates \cup Others
Stages == {"idle", "begin", "check", "checking", "write", "done", "failed"}

(* The checks still to be made: the listing's snapshot, the host's blocks. *)
Checks(r) == IF r \in Creates THEN 2 ELSE 0

TypeOK ==
  /\ at \in [Requests -> Stages]
  /\ left \in [Requests -> 0..2]
  /\ open \in [Requests -> BOOLEAN]
  /\ held \in [Requests -> 0..2]

Init ==
  /\ at = [r \in Requests |-> "idle"]
  /\ left = [r \in Requests |-> 0]
  /\ open = [r \in Requests |-> FALSE]
  /\ held = [r \in Requests |-> 0]

InUse == {c \in Requests \X {1, 2} : c[2] <= held[c[1]]}
Taken == Cardinality(InUse)
Free == Taken < Conns

Goes(r, place) == at' = [at EXCEPT ![r] = place]
Releases(r) == held' = [held EXCEPT ![r] = @ - 1]

Ask(r) ==
  /\ at[r] \in {"idle", "done", "failed"}
  /\ Goes(r, "begin")
  /\ UNCHANGED <<left, open, held>>

Begin(r) ==
  /\ at[r] = "begin" /\ Free
  /\ Goes(r, IF r \in Creates THEN "check" ELSE "write")
  /\ left' = [left EXCEPT ![r] = Checks(r)]
  /\ open' = [open EXCEPT ![r] = TRUE]
  /\ held' = [held EXCEPT ![r] = 1]

MaxWait(r) ==
  /\ at[r] = "begin"
  /\ Goes(r, "failed")
  /\ UNCHANGED <<left, open, held>>

StartCheck(r) ==
  /\ at[r] = "check" /\ Free
  /\ Goes(r, "checking")
  /\ held' = [held EXCEPT ![r] = @ + 1]
  /\ UNCHANGED <<left, open>>

EndCheck(r) ==
  /\ at[r] = "checking"
  /\ left' = [left EXCEPT ![r] = @ - 1]
  /\ Goes(r, IF left[r] = 1 THEN "write" ELSE "check")
  /\ Releases(r)
  /\ UNCHANGED open

(* Mutant of Refused: a query waits for its connection without a limit. *)
RefusedByCheck(r) ==
  /\ at[r] = "checking"
  /\ Goes(r, "failed")
  /\ left' = [left EXCEPT ![r] = 0]
  /\ open' = [open EXCEPT ![r] = FALSE]
  /\ held' = [held EXCEPT ![r] = 0]

(* A check refuses the request, or its wait for a connection is over: the
   error leaves the callback, and the transaction is rolled back. *)
Refused(r) ==
  /\ at[r] \in {"check", "checking"}
  /\ Goes(r, "failed")
  /\ left' = [left EXCEPT ![r] = 0]
  /\ open' = [open EXCEPT ![r] = FALSE]
  /\ held' = [held EXCEPT ![r] = 0]

(* The transaction's own limit: rolled back, its connection given back, while
   the handler goes on with what it is waiting for. *)
TxTimeout(r) ==
  /\ open[r] /\ at[r] \in {"check", "checking", "write"}
  /\ open' = [open EXCEPT ![r] = FALSE]
  /\ Releases(r)
  /\ UNCHANGED <<at, left>>

(* The writes and the commit, or the error of a transaction that is gone. *)
Write(r) ==
  /\ at[r] = "write"
  /\ \/ open[r] /\ Goes(r, "done") /\ Releases(r)
     \/ ~open[r] /\ Goes(r, "failed") /\ UNCHANGED held
  /\ open' = [open EXCEPT ![r] = FALSE]
  /\ UNCHANGED left

Step(r) == Begin(r) \/ StartCheck(r) \/ EndCheck(r) \/ Write(r)

Next ==
  \E r \in Requests :
    \/ Ask(r) \/ Step(r)
    \/ MaxWait(r) \/ Refused(r) \/ TxTimeout(r)

Spec == Init /\ [][Next]_vars

(* A query ends and a handler goes on, once nothing is in its way; every wait
   for a connection is ended by its limit. *)
Fairness ==
  \A r \in Requests :
    /\ WF_vars(Begin(r) \/ MaxWait(r))
    /\ WF_vars(StartCheck(r) \/ EndCheck(r) \/ Refused(r))
    /\ WF_vars(Write(r))

FairSpec == Spec /\ Fairness

----------------------------------------------------------------------------
(* Properties *)

(* Whatever a timeout cuts short, the pool is never overdrawn, and a request
   that has ended holds nothing. *)
Accounted ==
  /\ Taken <= Conns
  /\ \A r \in Requests : at[r] \in {"idle", "begin", "done", "failed"} => held[r] = 0

(* As many creates as connections may all wait for one another, and only the
   limits get them out: every request ends. *)
EveryRequestEnds == \A r \in Requests : at[r] = "begin" ~> at[r] \in {"done", "failed"}
=============================================================================
