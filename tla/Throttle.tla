------------------------------ MODULE Throttle ------------------------------
(***************************************************************************)
(* The rate limit of the auth routes as the visitors of the web            *)
(* application meet it.  Every page of a signed-in visitor asks            *)
(* GET /auth/me, the web server asks on the visitor's behalf, and the      *)
(* guard counts by route and by the address it sees: the web server's.     *)
(* A 429 is not ok, and getCurrentUser takes it for signed out.            *)
(*                                                                         *)
(* The counter is the library's in-memory storage, one for each API task:  *)
(* a hit counts for a window, and the hit beyond the limit blocks the key  *)
(* for a window.  Time is in steps, Window of them to the minute.          *)
(***************************************************************************)
EXTENDS Naturals, FiniteSets

CONSTANTS Visitors, Address,   \* the address the API sees for a visitor
          Tasks, Limit, Window

ThrottleAssumption ==
  /\ Limit \in Nat \ {0} /\ Window \in Nat \ {0}
  /\ IsFiniteSet(Tasks)

VARIABLES
  hits,      \* <<task, address>> -> the counted hits, by the steps they have left
  blocked,   \* <<task, address>> -> steps until the block ends
  served,    \* <<visitor, task>> -> the pages served as signed in, by the steps left
  shown      \* visitor -> what the last page showed
vars == <<hits, blocked, served, shown>>

Clients == {Address[v] : v \in Visitors}

Ages == [1..Window -> 0..(Limit + 1)]
None == [n \in 1..Window |-> 0]
Timers(f) == UNION {{<<n, i>> : i \in 1 .. f[n]} : n \in 1 .. Window}
Total(f) == Cardinality(Timers(f))

TypeOK ==
  /\ hits \in [Tasks \X Clients -> Ages]
  /\ blocked \in [Tasks \X Clients -> 0..Window]
  /\ served \in [Visitors \X Tasks -> [1..Window -> 0..Limit]]
  /\ shown \in [Visitors -> {"in", "out"}]

Init ==
  /\ hits = [k \in Tasks \X Clients |-> None]
  /\ blocked = [k \in Tasks \X Clients |-> 0]
  /\ served = [p \in Visitors \X Tasks |-> None]
  /\ shown = [v \in Visitors |-> "in"]

Hit(f) == [f EXCEPT ![Window] = @ + 1]

(* Mutant of OverLimit: the route keeps the default tier's larger limit.   *)
OverLimitDefault(f) == Total(f) > 2 * Limit

OverLimit(f) == Total(f) > Limit

(* A visitor with a good session opens a page; the balancer picks a task. *)
OpenPage(v, task) ==
  LET k == <<task, Address[v]>> IN
  \/ /\ blocked[k] = 0 /\ ~OverLimit(Hit(hits[k]))
     /\ hits' = [hits EXCEPT ![k] = Hit(@)]
     /\ served' = [served EXCEPT ![<<v, task>>] = Hit(@)]
     /\ shown' = [shown EXCEPT ![v] = "in"]
     /\ UNCHANGED blocked
  \/ /\ blocked[k] = 0 /\ OverLimit(Hit(hits[k]))
     /\ hits' = [hits EXCEPT ![k] = Hit(@)]
     /\ blocked' = [blocked EXCEPT ![k] = Window]
     /\ shown' = [shown EXCEPT ![v] = "out"]
     /\ UNCHANGED served
  \/ /\ blocked[k] # 0
     /\ shown' = [shown EXCEPT ![v] = "out"]
     /\ UNCHANGED <<hits, blocked, served>>

Older(f) == [n \in 1..Window |-> IF n < Window THEN f[n + 1] ELSE 0]

(* The end of a block forgets the hits that led to it. *)
Unblocked(k) == blocked[k] = 1

Tick ==
  /\ hits' = [k \in DOMAIN hits |->
                IF Unblocked(k) THEN None ELSE Older(hits[k])]
  /\ blocked' = [k \in DOMAIN blocked |-> IF blocked[k] = 0 \/ Unblocked(k) THEN 0 ELSE blocked[k] - 1]
  /\ served' = [p \in DOMAIN served |-> Older(served[p])]
  /\ UNCHANGED shown

Next == (\E v \in Visitors, task \in Tasks : OpenPage(v, task)) \/ Tick

Spec == Init /\ [][Next]_vars

----------------------------------------------------------------------------
(* Properties *)

(* The pages of the last window that these visitors were served.           *)
PagesOf(who) ==
  UNION {{<<k, i>> : i \in 1 .. served[<<k[1], k[2]>>][k[3]]} :
           k \in who \X Tasks \X (1 .. Window)}

(* "effective limit = limit x task-count": however the balancer spreads the
   pages over the tasks, one window serves an address no more than that. *)
WithinLimits ==
  \A a \in Clients :
    Cardinality(PagesOf({v \in Visitors : Address[v] = a})) <= Limit * Cardinality(Tasks)

(* "per client IP": a visitor is turned away only when the visitor's own
   requests have used the limit up. *)
PerClient ==
  [][\A v \in Visitors :
       (shown[v] = "in" /\ shown'[v] = "out") => Cardinality(PagesOf({v})) >= Limit]_vars
=============================================================================
