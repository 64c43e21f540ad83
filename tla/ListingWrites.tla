---------------------------- MODULE ListingWrites ----------------------------
(***************************************************************************)
(* The write side of a listing and the seam where a booking reads it. A    *)
(* host's command loads the whole aggregate, changes its copy and writes   *)
(* every column and the difference of its blocks back; a booking looks at  *)
(* the published row and at the blocks on another connection than the one  *)
(* that places its hold. Nobody locks anything before writing.             *)
(*                                                                         *)
(* A transaction's writes are one step: the upsert takes the lock of the   *)
(* listing row, every writer of the listing's blocks holds it until its    *)
(* commit, and READ COMMITTED shows the rest nothing before that.          *)
(***************************************************************************)
EXTENDS StayRules

CONSTANTS
  Host, Listing,
  BlockId,        \* ids that block() may mint
  Stays,          \* ranges a host may block or a guest may ask for
  MaxCapacity,    \* bound: capacities; stands for all editable details
  Worker,         \* handlers that may be running at the same time
  None,
  MaxFaults       \* bound: transactions lost

ASSUME CapacityAssumption == MaxCapacity \in Nat \ {0} /\ MaxFaults \in Nat
ASSUME HostAssumption == None \notin Host
ASSUME StaysAssumption ==
  \A s \in Stays : s.checkIn \in Int /\ s.checkOut \in Int
                     /\ s.checkIn < s.checkOut

VARIABLES
  row,            \* table listing: owner, details and status
  blocks,         \* table availability_block, rows with isBlocked
  minted,         \* block ids already used
  booked,         \* live holds
  faults,
  job             \* what each worker is doing

tables == <<row, blocks, booked>>
vars == <<row, blocks, minted, booked, faults, job>>
-----------------------------------------------------------------------------
Capacity == 1 .. MaxCapacity
ListingStatus == {"Absent", "Unpublished", "Published"}
Row == [host : Host \cup {None}, capacity : Capacity, status : ListingStatus]
NoRow == [host |-> None, capacity |-> 1, status |-> "Absent"]

BlockRow == [id : BlockId, listing : Listing, stay : Stays]
BlocksOf(l) == {b \in blocks : b.listing = l}

HostOp == {"update", "publish", "unpublish", "block", "unblock"}

(* row, blocks: the aggregate in memory. seen: for the properties, the     *)
(* blocks that have stood since a booking request came in.                 *)
Job == [op : HostOp \cup {"book", "none"},
        pc : {"idle", "loadListing", "loadBlocks", "save",
              "snapshot", "checkBlocks", "placeHold"},
        host : Host \cup {None}, listing : Listing \cup {None},
        stay : Stays \cup {None}, id : BlockId \cup {None},
        number : Capacity, row : Row, blocks : SUBSET BlockRow,
        seen : SUBSET BlockRow]

Idle == [op |-> "none", pc |-> "idle", host |-> None, listing |-> None,
         stay |-> None, id |-> None, number |-> 1, row |-> NoRow,
         blocks |-> {}, seen |-> {}]

Init ==
  /\ row = [l \in Listing |-> NoRow]
  /\ blocks = {}
  /\ minted = {}
  /\ booked = {}
  /\ faults = 0
  /\ job = [w \in Worker |-> Idle]

Go(w, j) == job' = [job EXCEPT ![w] = j]

(* CreateListingHandler: one insert, a draft owned by the caller.          *)
CreateListing(h, l, capacity) ==
  /\ row[l] = NoRow
  /\ row' = [row EXCEPT ![l] = [host |-> h, capacity |-> capacity,
                                status |-> "Unpublished"]]
  /\ UNCHANGED <<blocks, minted, booked, faults, job>>
-----------------------------------------------------------------------------
(* The five commands on a listing that exists.                             *)

StartEdit(w, h, l, op, s, id, capacity) ==
  /\ job[w] = Idle
  /\ Go(w, [Idle EXCEPT !.op = op, !.pc = "loadListing", !.host = h,
                        !.listing = l, !.stay = s, !.id = id,
                        !.number = capacity])
  /\ UNCHANGED <<tables, minted, faults>>

StartUpdate(w, h, l) ==
  \E c \in Capacity : StartEdit(w, h, l, "update", None, None, c)

StartPublish(w, h, l) == StartEdit(w, h, l, "publish", None, None, 1)

StartUnpublish(w, h, l) == StartEdit(w, h, l, "unpublish", None, None, 1)

StartBlock(w, h, l) ==
  \E s \in Stays : StartEdit(w, h, l, "block", s, None, 1)

(* The id is one the host has seen: of this block list or an older one.    *)
StartUnblock(w, h, l) ==
  \E id \in minted : StartEdit(w, h, l, "unblock", None, id, 1)

(* Mutant of Owned: the ownership gate is left out.                        *)
AnyHost(r, h) == r # NoRow

(* Mutant of Owned: the upsert brings in a listing that does not exist.    *)
OwnedOrMissing(r, h) == r = NoRow \/ r.host = h

(* Missing or another host's: 404, no leak.                                *)
Owned(r, h) == r # NoRow /\ r.host = h

(* findById, first query.                                                  *)
LoadListing(w) ==
  /\ job[w].pc = "loadListing"
  /\ LET r == row[job[w].listing]
     IN  Go(w, IF Owned(r, job[w].host)
                 THEN [job[w] EXCEPT !.pc = "loadBlocks", !.row = r]
                 ELSE Idle)
  /\ UNCHANGED <<tables, minted, faults>>

(* publish(), unpublish(), updateDetails().                                *)
Rejected(j, r) == \/ j.op = "publish" /\ r.status # "Unpublished"
                  \/ j.op = "unpublish" /\ r.status # "Published"

Edited(j, r) ==
  CASE j.op = "publish" -> [r EXCEPT !.status = "Published"]
    [] j.op = "unpublish" -> [r EXCEPT !.status = "Unpublished"]
    [] j.op = "update" -> [r EXCEPT !.capacity = j.number]
    [] OTHER -> r

Save(j, r, set) == [j EXCEPT !.pc = "save", !.row = r, !.blocks = set]

(* The blocks that join the aggregate.                                     *)
Included(l) == BlocksOf(l)

(* findById's second query, and the domain method on what was loaded. An   *)
(* exception rolls the transaction back: 409 or 404.                       *)
LoadBlocks(w) ==
  LET j == job[w]
      loaded == Included(j.listing)
  IN  /\ j.pc = "loadBlocks"
      /\ \/ /\ j.op \in {"update", "publish", "unpublish"}
            /\ Go(w, IF Rejected(j, j.row) THEN Idle
                                           ELSE Save(j, Edited(j, j.row), loaded))
            /\ UNCHANGED minted
         \/ /\ j.op = "block"
            /\ IF \E b \in loaded : Overlaps(b.stay, j.stay)
                 THEN Go(w, Idle) /\ UNCHANGED minted
                 ELSE \E id \in BlockId \ minted :
                        /\ minted' = minted \cup {id}
                        /\ Go(w, Save([j EXCEPT !.id = id], j.row,
                                loaded \cup {[id |-> id, listing |-> j.listing,
                                              stay |-> j.stay]}))
         \/ /\ j.op = "block"
            /\ BlockId = minted            \* bound: no id left to mint
            /\ Go(w, Idle) /\ UNCHANGED minted
         \/ /\ j.op = "unblock"
            /\ Go(w, IF \E b \in loaded : b.id = j.id
                       THEN Save(j, j.row, {b \in loaded : b.id # j.id})
                       ELSE Idle)
            /\ UNCHANGED minted
      /\ UNCHANGED <<tables, faults>>

(* Mutant of Synced: blocks are only inserted.                             *)
OnlyInserted(l, desired) == blocks \cup desired

(* syncBlocks: rows the aggregate has and the table not are inserted, rows *)
(* the table has and the aggregate not are deleted, compared by their id.  *)
Synced(l, desired) ==
  LET existing == BlocksOf(l)
      toInsert == {b \in desired : \A e \in existing : e.id # b.id}
      toDelete == {e \in existing : \A b \in desired : b.id # e.id}
  IN  (blocks \cup toInsert) \ toDelete

(* ListingRepository.save and the commit.                                  *)
SaveListing(w) ==
  LET j == job[w]
  IN  /\ j.pc = "save"
      /\ row' = [row EXCEPT ![j.listing] =
                   [@ EXCEPT !.capacity = j.row.capacity,
                             !.status = j.row.status]]
      /\ blocks' = Synced(j.listing, j.blocks)
      /\ job' = [v \in Worker |->
                   IF v = w THEN Idle
                            ELSE [job[v] EXCEPT !.seen = @ \cap blocks']]
      /\ UNCHANGED <<minted, booked, faults>>
-----------------------------------------------------------------------------
(* CreateBookingHandler at the seam.                                       *)

StartBook(w, l, s, party) ==
  /\ job[w] = Idle
  /\ Go(w, [Idle EXCEPT !.op = "book", !.pc = "snapshot", !.listing = l,
                        !.stay = s, !.number = party, !.seen = BlocksOf(l)])
  /\ UNCHANGED <<tables, minted, faults>>

(* getSnapshot finds published listings only; then the capacity check.     *)
Snapshot(w) ==
  LET j == job[w]
      r == row[j.listing]
  IN  /\ j.pc = "snapshot"
      /\ Go(w, IF r.status = "Published" /\ j.number <= r.capacity
                 THEN [j EXCEPT !.pc = "checkBlocks"]
                 ELSE Idle)
      /\ UNCHANGED <<tables, minted, faults>>

(* Mutant of Blocked: only the day of arrival is looked at.                *)
BlockedOnArrival(l, s) ==
  \E b \in BlocksOf(l) : b.stay.checkIn <= s.checkIn /\ s.checkIn < b.stay.checkOut

(* hasBlockingBlock.                                                       *)
Blocked(l, s) == \E b \in BlocksOf(l) : Overlaps(b.stay, s)

CheckBlocks(w) ==
  LET j == job[w]
  IN  /\ j.pc = "checkBlocks"
      /\ Go(w, IF Blocked(j.listing, j.stay) THEN Idle
                                             ELSE [j EXCEPT !.pc = "placeHold"])
      /\ UNCHANGED <<tables, minted, faults>>

(* The hold passes the constraint or the transaction rolls back.           *)
PlaceHold(w) ==
  LET j == job[w]
      hold == [listing |-> j.listing, checkIn |-> j.stay.checkIn,
               checkOut |-> j.stay.checkOut]
  IN  /\ j.pc = "placeHold"
      /\ booked' = IF \E x \in booked : Clash(x, hold) THEN booked
                                                     ELSE booked \cup {hold}
      /\ Go(w, Idle)
      /\ UNCHANGED <<row, blocks, minted, faults>>

(* A transaction times out, loses its connection or its process.           *)
Fault(w) ==
  /\ job[w] # Idle
  /\ faults < MaxFaults
  /\ faults' = faults + 1
  /\ Go(w, Idle)
  /\ UNCHANGED <<tables, minted>>

Next ==
  \/ \E h \in Host, l \in Listing, c \in Capacity : CreateListing(h, l, c)
  \/ \E w \in Worker :
       \/ \E h \in Host, l \in Listing :
            \/ StartUpdate(w, h, l) \/ StartPublish(w, h, l)
            \/ StartUnpublish(w, h, l) \/ StartBlock(w, h, l)
            \/ StartUnblock(w, h, l)
       \/ \E l \in Listing, s \in Stays, p \in Capacity : StartBook(w, l, s, p)
       \/ LoadListing(w) \/ LoadBlocks(w) \/ SaveListing(w)
       \/ Snapshot(w) \/ CheckBlocks(w) \/ PlaceHold(w)
       \/ Fault(w)

Spec == Init /\ [][Next]_vars
-----------------------------------------------------------------------------
(* Tables and running handlers have their types, block ids are unique, and *)
(* no command brings up a listing that nobody owns.                        *)
TypeOK ==
  /\ row \in [Listing -> Row]
  /\ \A l \in Listing : row[l].host = None => row[l] = NoRow
  /\ blocks \subseteq BlockRow
  /\ \A b, c \in blocks : b.id = c.id => b = c
  /\ minted \subseteq BlockId
  /\ \A x \in booked : x.listing \in Listing
  /\ faults \in 0 .. MaxFaults
  /\ job \in [Worker -> Job]

(* No two blocks of a listing overlap, although block() looks at a copy    *)
(* that other commands may have overtaken.                                 *)
BlocksDisjoint ==
  \A b, c \in blocks :
    b.listing = c.listing /\ Overlaps(b.stay, c.stay) => b = c

(* Only a command of a listing's own host changes its row or its blocks.   *)
Commits(w) == job[w].pc = "save" /\ job'[w] = Idle

OwnerOnly ==
  [][\A l \in Listing :
       row[l] # NoRow /\ (row'[l] # row[l] \/ BlocksOf(l)' # BlocksOf(l))
         => \E w \in Worker : Commits(w) /\ job[w].listing = l
                                /\ job[w].host = row[l].host]_vars

(* A block that stands from the moment a booking request comes in until    *)
(* its hold is placed is not booked over. (One that a stale save has       *)
(* brought back in between may be: its row was away when it was checked.)  *)
StandingBlockHolds ==
  [][\A w \in Worker :
       job[w].pc = "placeHold" /\ booked' # booked /\ job'[w] = Idle
         => \A b \in job[w].seen : ~Overlaps(b.stay, job[w].stay)]_vars

(* Guests cannot book nights a host has blocked: no hold is placed on      *)
(* nights that are blocked at that moment.                                 *)
BlockedIsNotBooked ==
  [][\A w \in Worker :
       job[w].pc = "placeHold" /\ booked' # booked /\ job'[w] = Idle
         => ~Blocked(job[w].listing, job[w].stay)]_vars

(* A save that changed no blocks writes none: editing the details,         *)
(* publishing and unpublishing leave every block row where it is.          *)
OtherEditsKeepBlocks ==
  [][\A w \in Worker :
       Commits(w) /\ job[w].op \in {"update", "publish", "unpublish"}
         => blocks' = blocks]_vars

(* An edit of the details does not touch the status: a listing its host    *)
(* has taken off the market does not come back by itself.                  *)
EditsKeepStatus ==
  [][\A w \in Worker :
       Commits(w) /\ job[w].op = "update"
         => row'[job[w].listing].status = row[job[w].listing].status]_vars

(* Every block row goes by its own unblock command.                        *)
BlockEndsByUnblock ==
  [][\A b \in blocks \ blocks' :
       \E w \in Worker : Commits(w) /\ job[w].op = "unblock"
                           /\ job[w].id = b.id]_vars
=============================================================================
