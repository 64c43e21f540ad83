------------------------------ MODULE Delivery ------------------------------
(***************************************************************************)
(* What the outbox promises the guest, without saying how: every event     *)
(* that was committed with a booking's change is mailed, and mailed once,  *)
(* but for what failed or ran twice. No row of the table, no relay, no     *)
(* log: which events are owed, how many mails went out for each, and what  *)
(* has gone wrong so far.                                                  *)
(***************************************************************************)
EXTENDS Naturals

CONSTANT Row    \* the outbox events

VARIABLES
  owed,         \* events committed so far
  mails,        \* mails sent for each event
  failures,     \* crashes and failed calls
  overlaps      \* relays that ran into one another

dvars == <<owed, mails, failures, overlaps>>

DeliveryInit ==
  /\ owed = {} /\ mails = [r \in Row |-> 0]
  /\ failures = 0 /\ overlaps = 0

Owe(r) ==
  /\ r \notin owed
  /\ owed' = owed \cup {r}
  /\ UNCHANGED <<mails, failures, overlaps>>

(* The first mail needs an event, any further one needs an excuse.         *)
Mail(r) ==
  /\ r \in owed
  /\ mails[r] <= failures + overlaps
  /\ mails' = [mails EXCEPT ![r] = @ + 1]
  /\ UNCHANGED <<owed, failures, overlaps>>

Mishap ==
  /\ \/ failures' = failures + 1 /\ UNCHANGED overlaps
     \/ overlaps' = overlaps + 1 /\ UNCHANGED failures
  /\ UNCHANGED <<owed, mails>>

DeliveryNext == Mishap \/ \E r \in Row : Owe(r) \/ Mail(r)

(* A mail may get lost only when something has failed.                     *)
EveryOneMailed ==
  \A r \in Row : WF_dvars(failures = 0 /\ mails[r] = 0 /\ Mail(r))

DeliverySpec == DeliveryInit /\ [][DeliveryNext]_dvars /\ EveryOneMailed
=============================================================================
