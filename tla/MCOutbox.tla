------------------------------ MODULE MCOutbox ------------------------------
(***************************************************************************)
(* Instances of Outbox for TLC: rows are numbers, in order of occurredAt.  *)
(* A behaviour is one of a relay whose batch holds every row there is, or  *)
(* of one whose batch is narrow and leaves the later row to another tick.  *)
(***************************************************************************)
EXTENDS Outbox, TLC

VARIABLE narrow

TwoRows == 1 .. 2

Narrow == INSTANCE Outbox WITH BatchSize <- 1

AnyInit == Init /\ narrow \in BOOLEAN

AnyNext ==
  /\ \/ ~narrow /\ Next
     \/ narrow /\ Narrow!Next
  /\ UNCHANGED narrow

AnyRelay(t) == (~narrow /\ Relay(t)) \/ (narrow /\ Narrow!Relay(t))

(* Fairness of Outbox; only the relay depends on the size of the batch.    *)
AnySpec ==
  /\ AnyInit /\ [][AnyNext]_<<vars, narrow>>
  /\ \A t \in Tick : WF_vars(AnyRelay(t))
  /\ \A r \in Row : WF_vars(Look(r)) /\ WF_vars(Send(r)) /\ WF_vars(Mark(r))

=============================================================================
