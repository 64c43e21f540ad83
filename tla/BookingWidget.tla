---------------------------- MODULE BookingWidget ----------------------------
(***************************************************************************)
(* The reserve widget of a listing: a calendar of one visible month backed *)
(* by cached two-month windows of taken ranges, a selection made by two    *)
(* clicks, and the reservation that the server may refuse because other    *)
(* guests and the host go on changing the table.                           *)
(***************************************************************************)
EXTENDS StayRules

CONSTANTS
  MonthLength,   \* bound: days of a month
  LastMonth,     \* bound: months the guest pages through
  Clicks,        \* bound: days the guest clicks on
  Rivals,        \* disjoint stays others may take or give back
  MaxRivalry,    \* bound: changes made by others
  MaxFaults,     \* bound: failed calls
  None

BoundsAssumption ==
  /\ MonthLength \in Nat \ {0} /\ LastMonth \in Nat
  /\ MaxRivalry \in Nat /\ MaxFaults \in Nat

VARIABLES
  taken,     \* live holds, bookings and blocks of others
  mine,      \* stays this guest holds
  view,      \* state of the component
  query,     \* the query cache, one entry per visible month
  reserve,   \* the mutation
  owed,      \* history: stays a month's calendar has been refused for
  rivalry, faults

vars == <<taken, mine, view, query, reserve, owed, rivalry, faults>>
-----------------------------------------------------------------------------
Month == 0 .. LastMonth
StartOf(month) == month * MonthLength
Day == 0 .. StartOf(LastMonth + 2) - 1
Stay == {s \in [checkIn : Day, checkOut : Day] : s.checkIn < s.checkOut}
RivalsAssumption == Rivals \subseteq Stay
ClicksAssumption == Clicks \subseteq Day

IsSameMonth(day, month) == StartOf(month) <= day /\ day < StartOf(month + 1)

NightsInStay(from, to) == {d \in Day : from <= d /\ d < to}
TakenNights(ranges) == UNION {NightsInStay(r.checkIn, r.checkOut) : r \in ranges}

(* The API's answer for a window: all ranges that reach into it, whole.    *)
Unavailable(month) ==
  {s \in taken \cup mine :
     s.checkIn < StartOf(month + 2) /\ StartOf(month) < s.checkOut}

View == [at : {"widget", "booking", "login"}, signedIn : BOOLEAN, month : Month,
         checkIn : Day \cup {None}, checkOut : Day \cup {None},
         notice : {"none", "justTaken", "invalid", "wrong"}]

(* data: what the entry holds; read: what the answer under way has read.   *)
Entry == [data : (SUBSET Stay) \cup {None}, pc : {"idle", "sent", "answered"},
          read : SUBSET Stay, failed : BOOLEAN]
Unfetched == [data |-> None, pc |-> "idle", read |-> {}, failed |-> FALSE]

(* A fetch begins; an error is forgotten if there is no data beside it.    *)
Sent(entry) == [entry EXCEPT !.pc = "sent", !.read = {},
                             !.failed = @ /\ entry.data # None]

(* A new page: its own cache, and a prop that says who has loaded it.      *)
Opened == {[at |-> "widget", signedIn |-> user, month |-> 0, checkIn |-> None,
            checkOut |-> None, notice |-> "none"] : user \in BOOLEAN}
Fresh == [[m \in Month |-> Unfetched] EXCEPT ![0] = Sent(Unfetched)]
NothingOwed == [m \in Month |-> {}]

NoReserve == [pc |-> "idle", stay |-> None, status |-> 0]

Init ==
  /\ taken = {} /\ mine = {}
  /\ view \in Opened /\ query = Fresh
  /\ reserve = NoReserve /\ owed = NothingOwed
  /\ rivalry = 0 /\ faults = 0
-----------------------------------------------------------------------------
(* Other guests and the host.                                              *)
Rival ==
  /\ rivalry < MaxRivalry
  /\ rivalry' = rivalry + 1
  /\ \E s \in Rivals :
       \/ /\ s \in taken /\ taken' = taken \ {s}
          /\ owed' = [m \in Month |-> owed[m] \ {s}]
       \/ /\ \A t \in taken \cup mine : ~Overlaps(s, t)
          /\ taken' = taken \cup {s} /\ UNCHANGED owed
  /\ UNCHANGED <<mine, view, query, reserve, faults>>
-----------------------------------------------------------------------------
(* Availability. A key that becomes visible is fetched unless it is being. *)
Fetched(entry) == IF entry.pc = "idle" THEN Sent(entry) ELSE entry

(* Mutant of Refetched: a fetch that is under way is good enough.          *)
NotCancelled(entry) == Fetched(entry)

(* refetch and invalidateQueries abandon a fetch that is under way for a   *)
(* new one, but only where there is data: a first fetch is left to finish. *)
Refetched(entry) == IF entry.data = None THEN Fetched(entry) ELSE Sent(entry)

ShowMonth(m) ==
  /\ view.at = "widget"
  /\ m \in {view.month - 1, view.month + 1} \cap Month
  /\ view' = [view EXCEPT !.month = m]
  /\ query' = [query EXCEPT ![m] = Fetched(@)]
  /\ UNCHANGED <<taken, mine, reserve, owed, rivalry, faults>>

Retry ==
  /\ view.at = "widget" /\ query[view.month].failed
  /\ query' = [query EXCEPT ![view.month] = Refetched(@)]
  /\ UNCHANGED <<taken, mine, view, reserve, owed, rivalry, faults>>

ServeAvailability(m) ==
  /\ query[m].pc = "sent"
  /\ query' = [query EXCEPT ![m].pc = "answered", ![m].read = Unavailable(m)]
  /\ UNCHANGED <<taken, mine, view, reserve, owed, rivalry, faults>>

AvailabilityArrives(m) ==
  /\ query[m].pc = "answered"
  /\ query' = [query EXCEPT ![m] =
                 [Unfetched EXCEPT !.data = query[m].read]]
  /\ UNCHANGED <<taken, mine, view, reserve, owed, rivalry, faults>>

AvailabilityFails(m) ==
  /\ query[m].pc # "idle" /\ faults < MaxFaults
  /\ faults' = faults + 1
  /\ query' = [query EXCEPT ![m].pc = "idle", ![m].read = {}, ![m].failed = TRUE]
  /\ UNCHANGED <<taken, mine, view, reserve, owed, rivalry>>

Nights == IF query[view.month].data = None THEN {}
                                           ELSE TakenNights(query[view.month].data)
Loading == query[view.month].data = None /\ query[view.month].pc # "idle"
-----------------------------------------------------------------------------
(* The calendar enables the days of the visible month that are free, and   *)
(* with a check-in chosen a taken one that may close the stay.             *)
Selectable(day) ==
  LET asCheckoutOnly == /\ view.checkIn # None /\ view.checkOut = None
                        /\ view.checkIn < day /\ day \in Nights
  IN  /\ IsSameMonth(day, view.month) /\ ~Loading
      /\ day \notin Nights \/ asCheckoutOnly

(* resetSelection clears the notice, too.                                  *)
Reset(v, day) == [v EXCEPT !.checkIn = day, !.checkOut = None, !.notice = "none"]

(* handleSelectDay.                                                        *)
Picked(v, day, nights) ==
  IF v.checkIn = None \/ v.checkOut # None \/ day <= v.checkIn
    THEN Reset(v, day)
  ELSE IF NightsInStay(v.checkIn, day) \cap nights # {}
    THEN Reset(v, IF day \in nights THEN None ELSE day)
  ELSE [v EXCEPT !.checkOut = day, !.notice = "none"]

SelectDay(day) ==
  /\ view.at = "widget" /\ ~query[view.month].failed
  /\ Selectable(day)
  /\ view' = Picked(view, day, Nights)
  /\ UNCHANGED <<taken, mine, query, reserve, owed, rivalry, faults>>
-----------------------------------------------------------------------------
(* handleReserve, for a guest who is signed in and for one who is not: the *)
(* button says "Log in to reserve" then and needs no selection.            *)
HandleReserve ==
  /\ view.at = "widget" /\ view.signedIn
  /\ view.checkIn # None /\ view.checkOut # None
  /\ reserve.pc = "idle"
  /\ reserve' = [pc |-> "sent", status |-> 0,
                 stay |-> [checkIn |-> view.checkIn, checkOut |-> view.checkOut]]
  /\ view' = [view EXCEPT !.notice = "none"]
  /\ UNCHANGED <<taken, mine, query, owed, rivalry, faults>>

LogInToReserve ==
  /\ view.at = "widget" /\ ~view.signedIn
  /\ view' = [view EXCEPT !.notice = "none", !.at = "login"]
  /\ UNCHANGED <<taken, mine, query, reserve, owed, rivalry, faults>>

(* The exclusion constraint on holds and the check against blocks.         *)
Clashes(stay) == \E s \in taken \cup mine : Overlaps(s, stay)

(* POST /bookings.                                                         *)
ServeReserve ==
  /\ reserve.pc = "sent"
  /\ IF Clashes(reserve.stay)
       THEN /\ reserve' = [reserve EXCEPT !.pc = "answered", !.status = 409]
            /\ UNCHANGED mine
       ELSE /\ reserve' = [reserve EXCEPT !.pc = "answered", !.status = 201]
            /\ mine' = mine \cup {reserve.stay}
  /\ UNCHANGED <<taken, view, query, owed, rivalry, faults>>

(* The cookie has run out, the API or the bridge fails, or the answer is   *)
(* lost, before the commit or after it.                                    *)
ReserveFails ==
  /\ reserve.pc # "idle" /\ faults < MaxFaults
  /\ faults' = faults + 1
  /\ \E status \in {0, 401, 422, 502} :
       reserve' = [reserve EXCEPT !.pc = "answered", !.status = status]
  /\ UNCHANGED <<taken, mine, view, query, owed, rivalry>>

(* invalidateQueries: the visible window is fetched again; the others are  *)
(* marked as stale, which they are anyhow, and fetched when they are shown.*)
Invalidated(entries) == [entries EXCEPT ![view.month] = Refetched(@)]

(* What the calendar of the visible month, if it has drawn one, has to     *)
(* take back: the stays the guest has been refused for.                    *)
RefusedFor ==
  IF query[view.month].data = None THEN {}
    ELSE {s \in Unavailable(view.month) : Overlaps(s, reserve.stay)}

(* Conflict: the notice is set, then the selection is reset.               *)
Conflicted(v) == Reset([v EXCEPT !.notice = "justTaken"], None)

Settled(v, status) ==
  CASE status = 201 -> [v EXCEPT !.at = "booking"]
    [] status = 401 -> [v EXCEPT !.at = "login"]
    [] status = 409 -> Conflicted(v)
    [] status = 0 -> [v EXCEPT !.notice = "wrong"]
    [] OTHER -> [v EXCEPT !.notice = "invalid"]

SettleReserve ==
  /\ reserve.pc = "answered"
  /\ view' = Settled(view, reserve.status)
  /\ IF reserve.status = 409
       THEN /\ query' = Invalidated(query)
            /\ owed' = [owed EXCEPT ![view.month] = @ \cup RefusedFor]
       ELSE UNCHANGED <<query, owed>>
  /\ reserve' = NoReserve
  /\ UNCHANGED <<taken, mine, rivalry, faults>>

(* The guest comes back to the listing: a new page with a new cache.       *)
ComeBack ==
  /\ view.at # "widget" /\ mine = {}
  /\ view' \in Opened /\ query' = Fresh /\ owed' = NothingOwed
  /\ UNCHANGED <<taken, mine, reserve, rivalry, faults>>

(* The guest has a stay, whether the widget knows or not, and is gone.     *)
Done ==
  /\ mine # {} /\ reserve.pc = "idle"
  /\ \A m \in Month : query[m].pc = "idle"
  /\ UNCHANGED vars

Next ==
  \/ Rival \/ Retry
  \/ \E m \in Month : ShowMonth(m) \/ ServeAvailability(m)
                        \/ AvailabilityArrives(m) \/ AvailabilityFails(m)
  \/ \E day \in Clicks : SelectDay(day)
  \/ HandleReserve \/ LogInToReserve \/ ServeReserve \/ ReserveFails \/ SettleReserve
  \/ ComeBack \/ Done

Spec == Init /\ [][Next]_vars

(* Fetches are answered, and conflicts do not go on for ever to restart a  *)
(* fetch before its answer is there; nobody has to click.                  *)
FairSpec == Spec /\ \A m \in Month : WF_vars(ServeAvailability(m))
                                       /\ SF_vars(AvailabilityArrives(m))
-----------------------------------------------------------------------------
(* Types, and a guest's own stays never overlap each other or a rival's.   *)
TypeOK ==
  /\ taken \subseteq Stay /\ mine \subseteq Stay
  /\ \A s, t \in taken \cup mine : s # t => ~Overlaps(s, t)
  /\ view \in View
  /\ query \in [Month -> Entry] /\ owed \in [Month -> SUBSET Stay]
  /\ reserve.pc \in {"idle", "sent", "answered"}
  /\ rivalry \in 0 .. MaxRivalry /\ faults \in 0 .. MaxFaults

(* Whatever is clicked in whatever order, a request is for at least one    *)
(* night, and its check-in has been picked.                                *)
RequestIsStay == reserve.pc # "idle" => reserve.stay \in Stay

(* The whole stay contains no night that was known to be taken in any      *)
(* window the widget holds when the check-out is picked.                   *)
Known == UNION {TakenNights(query[m].data) :
                  m \in {n \in Month : query[n].data # None}}

PickedIsFree ==
  [][view.checkOut = None /\ view'.checkOut # None =>
       NightsInStay(view'.checkIn, view'.checkOut) \cap Known = {}]_vars

(* A guest whose dates were just taken is told so.                         *)
ConflictIsTold ==
  [][reserve.pc = "answered" /\ reserve.status = 409 /\ reserve'.pc = "idle"
       => view'.notice = "justTaken"]_vars

(* After a conflict the calendar that led into it takes the nights of the  *)
(* other stay back, unless they become free or the fetch fails: an answer  *)
(* that was read before the conflict is not taken for the new one, and the *)
(* new one gets there although the guest pages on and has more conflicts.  *)
Owing(m) ==
  owed[m] # {} /\ (query[m].data = None \/ ~(owed[m] \subseteq query[m].data))

CalendarRefreshes ==
  \A m \in Month : Owing(m) ~> ~Owing(m) \/ query[m].failed

(* "We refreshed the calendar": what the guest sees next has been read     *)
(* after the conflict.                                                     *)
ConflictRefetches ==
  [][reserve.pc = "answered" /\ reserve.status = 409 /\ reserve'.pc = "idle"
       => query'[view.month].pc = "sent"]_vars
=============================================================================
