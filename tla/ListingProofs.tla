---------------------------- MODULE ListingProofs ----------------------------
(***************************************************************************)
(* Safety of a listing's rows and blocks for any number of hosts, handlers *)
(* and ranges, although every command writes a copy that others may have   *)
(* overtaken.                                                              *)
(*                                                                         *)
(* The argument: an id is minted once, so a block row that turns up in the *)
(* table and in several copies is the same row everywhere (OneRowPerId).   *)
(* A copy to be saved is free of overlaps in itself (CopyOk), and          *)
(* syncBlocks makes the table's blocks of the listing exactly that copy    *)
(* (SyncedIsCopy). An owner never changes once there is one, so the owner  *)
(* a command has checked is still the owner when it saves (EditOk).        *)
(***************************************************************************)
EXTENDS ListingWrites, TLAPS

Disjoint(S) ==
  \A b, c \in S : b.listing = c.listing /\ Overlaps(b.stay, c.stay) => b = c

(* What a command may write: blocks of its own listing that do not overlap. *)
CopyOk(l, S) == (\A b \in S : b.listing = l) /\ Disjoint(S)

(* A command that has passed the ownership gate works for the owner.       *)
EditOk(j) ==
  /\ j.op \in HostOp /\ j.listing \in Listing /\ j.host \in Host
  /\ j.op = "block" => j.stay \in Stays
  /\ j.seen = {}
  /\ \/ j.pc = "loadListing" /\ j.blocks = {}
     \/ /\ \/ j.pc = "loadBlocks" /\ j.blocks = {}
           \/ j.pc = "save" /\ CopyOk(j.listing, j.blocks)
        /\ row[j.listing].host = j.host /\ j.row.status # "Absent"

(* A booking whose blocks have been checked overlaps none that has stood.  *)
BookOk(j) ==
  /\ j.op = "book" /\ j.listing \in Listing /\ j.stay \in Stays
  /\ j.pc \in {"snapshot", "checkBlocks", "placeHold"}
  /\ j.blocks = {}
  /\ j.seen \subseteq BlocksOf(j.listing)
  /\ j.pc = "placeHold" => \A b \in j.seen : ~Overlaps(b.stay, j.stay)

JobOk(j) == j = Idle \/ EditOk(j) \/ BookOk(j)

(* The block rows that are in the table or in a copy about to be written.  *)
AllBlocks == blocks \cup UNION {job[w].blocks : w \in Worker}

OneRowPerId ==
  /\ \A b \in AllBlocks : b.id \in minted
  /\ \A b, c \in AllBlocks : b.id = c.id => b = c

LInv ==
  /\ TypeOK
  /\ \A l \in Listing : row[l].status = "Absent" => row[l] = NoRow
  /\ Disjoint(blocks)
  /\ OneRowPerId
  /\ \A w \in Worker : JobOk(job[w])

----------------------------------------------------------------------------
(* The aggregate's rules and the repository's difference *)

LEMMA IdleJob ==
  /\ Idle \in Job /\ Idle.pc = "idle" /\ Idle.blocks = {} /\ Idle.seen = {}
  /\ Idle.op = "none"
  BY CapacityAssumption DEF Idle, Job, Row, NoRow, Capacity, ListingStatus

(* An edit keeps the type, the owner and that the listing exists.          *)
LEMMA EditedRow ==
  ASSUME NEW j \in Job, NEW r \in Row, r.status # "Absent"
  PROVE  Edited(j, r) \in Row /\ Edited(j, r).status # "Absent"
  BY DEF Edited, Job, Row, ListingStatus

(* syncBlocks, which compares ids only, makes the table's blocks of the    *)
(* listing exactly the aggregate's, as long as an id names one row.        *)
LEMMA SyncedIsCopy ==
  ASSUME NEW l, NEW desired,
         \A b \in desired : b.listing = l,
         \A b, c \in blocks \cup desired : b.id = c.id => b = c
  PROVE  Synced(l, desired) = {b \in blocks : b.listing # l} \cup desired
  BY DEF Synced, BlocksOf

(* The same for one job: what it writes is known, and disjoint.            *)
LEMMA CopyMember ==
  ASSUME LInv, NEW w \in Worker, NEW b \in job[w].blocks
  PROVE  b \in BlockRow /\ b \in AllBlocks /\ b.id \in minted
<1>1. job[w] \in Job /\ job[w].blocks \subseteq BlockRow
  BY DEF LInv, TypeOK, Job
<1> QED
  BY <1>1 DEF LInv, AllBlocks, OneRowPerId

----------------------------------------------------------------------------
(* Initial states *)

LEMMA InitL == Init => LInv
<1> SUFFICES ASSUME Init PROVE LInv
  OBVIOUS
<1>1. TypeOK
  BY IdleJob, CapacityAssumption
  DEF Init, TypeOK, Row, NoRow, Capacity, ListingStatus
<1>2. \A w \in Worker : job[w] = Idle /\ job[w].blocks = {}
  BY IdleJob DEF Init
<1>3. AllBlocks = {}
  BY <1>2 DEF AllBlocks, Init
<1> QED
  BY <1>1, <1>2, <1>3 DEF LInv, Init, Disjoint, OneRowPerId, JobOk

----------------------------------------------------------------------------
(* A step of one handler that writes neither rows nor blocks and mints no
   id: it becomes j, whose copy holds only blocks that are known already. *)

LEMMA GoKeeps ==
  ASSUME LInv, NEW w \in Worker, NEW j \in Job, Go(w, j), JobOk(j),
         j.blocks \subseteq AllBlocks,
         UNCHANGED <<row, blocks, minted>>,
         \A x \in booked' : x.listing \in Listing,
         faults' \in 0 .. MaxFaults
  PROVE  LInv'
<1>1. \A v \in Worker : job'[v] = IF v = w THEN j ELSE job[v]
  BY DEF Go, LInv, TypeOK
<1>2. TypeOK'
  BY DEF Go, LInv, TypeOK, BlockRow, Row, NoRow
<1>3. AllBlocks' \subseteq AllBlocks
  BY <1>1 DEF AllBlocks
<1>4. OneRowPerId'
  BY <1>3 DEF LInv, OneRowPerId
<1>5. \A v \in Worker : JobOk(job[v])'
  BY <1>1 DEF LInv, JobOk, EditOk, BookOk, BlocksOf
<1> QED
  BY <1>2, <1>4, <1>5 DEF LInv, Disjoint, NoRow

LEMMA EndsIdle ==
  ASSUME LInv, NEW w \in Worker, Go(w, Idle), UNCHANGED <<row, blocks, minted>>,
         \A x \in booked' : x.listing \in Listing,
         faults' \in 0 .. MaxFaults
  PROVE  LInv'
<1>1. Idle \in Job /\ JobOk(Idle) /\ Idle.blocks \subseteq AllBlocks
  BY IdleJob DEF JobOk
<1> QED
  BY <1>1, GoKeeps

(* What a quiet step leaves of the other tables.                           *)
LEMMA QuietTables ==
  ASSUME LInv, UNCHANGED <<tables, minted, faults>>
  PROVE  /\ UNCHANGED <<row, blocks, minted>>
         /\ \A x \in booked' : x.listing \in Listing
         /\ faults' \in 0 .. MaxFaults
  BY DEF LInv, TypeOK, tables

----------------------------------------------------------------------------
(* A command comes in *)

LEMMA StartEditL ==
  ASSUME LInv, NEW w \in Worker, NEW h \in Host, NEW l \in Listing,
         NEW op \in HostOp, NEW s \in Stays \cup {None},
         NEW id \in BlockId \cup {None}, NEW c \in Capacity,
         op = "block" => s \in Stays, StartEdit(w, h, l, op, s, id, c)
  PROVE  LInv'
<1> DEFINE j == [Idle EXCEPT !.op = op, !.pc = "loadListing", !.host = h,
                             !.listing = l, !.stay = s, !.id = id, !.number = c]
<1>1. j \in Job /\ j.blocks = {}
  BY IdleJob DEF Job, HostOp, Idle
<1>2. JobOk(j)
  BY DEF JobOk, EditOk, Idle
<1>3. Go(w, j)
  BY DEF StartEdit
<1> HIDE DEF j
<1> QED
  BY <1>1, <1>2, <1>3, GoKeeps, QuietTables DEF StartEdit

LEMMA StartCommands ==
  ASSUME LInv, NEW w \in Worker, NEW h \in Host, NEW l \in Listing,
         \/ StartUpdate(w, h, l) \/ StartPublish(w, h, l)
         \/ StartUnpublish(w, h, l) \/ StartBlock(w, h, l)
         \/ StartUnblock(w, h, l)
  PROVE  LInv'
<1>0. 1 \in Capacity /\ minted \subseteq BlockId
  BY CapacityAssumption DEF Capacity, LInv, TypeOK
<1>1. CASE StartUpdate(w, h, l)
  BY <1>1, StartEditL DEF StartUpdate, HostOp
<1>2. CASE StartPublish(w, h, l)
  BY <1>0, <1>2, StartEditL DEF StartPublish, HostOp
<1>3. CASE StartUnpublish(w, h, l)
  BY <1>0, <1>3, StartEditL DEF StartUnpublish, HostOp
<1>4. CASE StartBlock(w, h, l)
  BY <1>0, <1>4, StartEditL DEF StartBlock, HostOp
<1>5. CASE StartUnblock(w, h, l)
  BY <1>0, <1>5, StartEditL DEF StartUnblock, HostOp
<1> QED
  BY <1>1, <1>2, <1>3, <1>4, <1>5

LEMMA StartBookL ==
  ASSUME LInv, NEW w \in Worker, NEW l \in Listing, NEW s \in Stays,
         NEW p \in Capacity, StartBook(w, l, s, p)
  PROVE  LInv'
<1> DEFINE j == [Idle EXCEPT !.op = "book", !.pc = "snapshot", !.listing = l,
                             !.stay = s, !.number = p, !.seen = BlocksOf(l)]
<1>1. j \in Job /\ j.blocks = {}
  BY IdleJob DEF Job, Idle, LInv, TypeOK, BlocksOf
<1>2. JobOk(j)
  BY DEF JobOk, BookOk, Idle
<1>3. Go(w, j)
  BY DEF StartBook
<1> HIDE DEF j
<1> QED
  BY <1>1, <1>2, <1>3, GoKeeps, QuietTables DEF StartBook

----------------------------------------------------------------------------
(* The aggregate is loaded and changed *)

LEMMA LoadListingL ==
  ASSUME LInv, NEW w \in Worker, LoadListing(w)
  PROVE  LInv'
<1> DEFINE r == row[job[w].listing]
           j == [job[w] EXCEPT !.pc = "loadBlocks", !.row = r]
<1>1. job[w] \in Job /\ job[w].pc = "loadListing"
  BY DEF LoadListing, LInv, TypeOK
<1>2. EditOk(job[w]) /\ job[w].blocks = {}
  BY <1>1, IdleJob DEF LInv, JobOk, BookOk, EditOk
<1>3. CASE Owned(r, job[w].host)
  <2>1. r \in Row /\ r.status # "Absent"
    BY <1>2, <1>3 DEF LInv, TypeOK, EditOk, Owned
  <2>2. j \in Job /\ j.blocks = {}
    BY <1>1, <1>2, <2>1 DEF Job
  <2>3. JobOk(j)
    BY <1>1, <1>2, <1>3, <2>1 DEF JobOk, EditOk, Owned, Job
  <2>4. Go(w, j)
    BY <1>3 DEF LoadListing
  <2> HIDE DEF j
  <2> QED
    BY <2>2, <2>3, <2>4, GoKeeps, QuietTables DEF LoadListing
<1>4. CASE ~Owned(r, job[w].host)
  BY <1>4, EndsIdle, QuietTables DEF LoadListing
<1> QED
  BY <1>3, <1>4

(* A handler that is loading the blocks of its listing.                    *)
LEMMA Loading ==
  ASSUME LInv, NEW w \in Worker, job[w].pc = "loadBlocks"
  PROVE  /\ job[w] \in Job /\ EditOk(job[w])
         /\ job[w].listing \in Listing
         /\ job[w].row \in Row /\ job[w].row.status # "Absent"
         /\ row[job[w].listing].host = job[w].host
         /\ Included(job[w].listing) \subseteq blocks
         /\ CopyOk(job[w].listing, Included(job[w].listing))
<1>1. job[w] \in Job /\ EditOk(job[w])
  BY IdleJob DEF LInv, TypeOK, JobOk, BookOk
<1>2. job[w].row \in Row
  BY <1>1 DEF Job
<1> QED
  BY <1>1, <1>2 DEF EditOk, Included, BlocksOf, CopyOk, LInv, Disjoint

(* What an aggregate with changed details or fewer blocks leaves to save.  *)
LEMMA SaveJob ==
  ASSUME LInv, NEW w \in Worker, job[w].pc = "loadBlocks",
         NEW r \in Row, r.status # "Absent",
         NEW S, S \subseteq Included(job[w].listing)
  PROVE  LET j == Save(job[w], r, S)
         IN  j \in Job /\ JobOk(j) /\ j.blocks \subseteq AllBlocks
<1> DEFINE j == Save(job[w], r, S)
<1>1. S \subseteq blocks /\ CopyOk(job[w].listing, S) /\ S \subseteq BlockRow
  BY Loading DEF CopyOk, Disjoint, LInv, TypeOK
<1>2. j \in Job /\ j.blocks = S
  BY <1>1, Loading DEF Save, Job
<1>3. EditOk(j)
  BY <1>1, Loading DEF EditOk, Save, Job
<1> QED
  BY <1>1, <1>2, <1>3 DEF JobOk, AllBlocks

(* block() adds the one row that nobody else has: the id is new.           *)
LEMMA MintsBlock ==
  ASSUME LInv, NEW w \in Worker, job[w].pc = "loadBlocks",
         NEW id \in BlockId \ minted, job[w].op = "block",
         ~\E b \in Included(job[w].listing) : Overlaps(b.stay, job[w].stay),
         minted' = minted \cup {id},
         Go(w, Save([job[w] EXCEPT !.id = id], job[w].row,
                    Included(job[w].listing)
                      \cup {[id |-> id, listing |-> job[w].listing,
                             stay |-> job[w].stay]})),
         UNCHANGED <<tables, faults>>
  PROVE  LInv'
<1> DEFINE new == [id |-> id, listing |-> job[w].listing, stay |-> job[w].stay]
           S == Included(job[w].listing) \cup {new}
           j == Save([job[w] EXCEPT !.id = id], job[w].row, S)
<1>1. /\ job[w] \in Job /\ job[w].stay \in Stays /\ job[w].listing \in Listing
      /\ Included(job[w].listing) \subseteq BlockRow
  BY Loading DEF EditOk, LInv, TypeOK
<1>2. new \in BlockRow /\ new.id = id /\ new.listing = job[w].listing
        /\ new.stay = job[w].stay
  BY <1>1 DEF BlockRow
<1>3. CopyOk(job[w].listing, S)
  <2>1. \A b \in Included(job[w].listing) : ~Overlaps(b.stay, new.stay)
                                              /\ ~Overlaps(new.stay, b.stay)
    BY <1>2 DEF Overlaps
  <2> HIDE DEF new
  <2> QED
    BY <1>2, <2>1, Loading DEF CopyOk, Disjoint
<1> HIDE DEF new
<1>4. j \in Job /\ j.blocks = S
  BY <1>1, <1>2, Loading DEF Save, Job
<1>5. EditOk(j)
  BY <1>3, <1>4, Loading DEF EditOk, Save, Job
<1>6. \A v \in Worker : job'[v] = IF v = w THEN j ELSE job[v]
  BY DEF Go, LInv, TypeOK, new
<1> HIDE DEF j
<1>7. AllBlocks' \subseteq AllBlocks \cup {new}
  BY <1>4, <1>6, Loading DEF AllBlocks, tables
<1>8. OneRowPerId'
  BY <1>2, <1>7 DEF LInv, OneRowPerId
<1>9. TypeOK'
  BY <1>4, <1>6 DEF LInv, TypeOK, tables, Go, new, j
<1>10. \A v \in Worker : JobOk(job[v])'
  BY <1>5, <1>6 DEF LInv, JobOk, EditOk, BookOk, BlocksOf, tables
<1> QED
  BY <1>8, <1>9, <1>10 DEF LInv, Disjoint, tables

LEMMA LoadBlocksL ==
  ASSUME LInv, NEW w \in Worker, LoadBlocks(w)
  PROVE  LInv'
<1> DEFINE j == job[w]
           loaded == Included(j.listing)
<1>1. j.pc = "loadBlocks" /\ UNCHANGED <<tables, faults>>
  BY DEF LoadBlocks
<1>2. CASE Go(w, Idle) /\ UNCHANGED minted
  BY <1>1, <1>2, EndsIdle, QuietTables
<1>3. CASE Go(w, Save(j, Edited(j, j.row), loaded)) /\ UNCHANGED minted
  <2>1. Edited(j, j.row) \in Row /\ Edited(j, j.row).status # "Absent"
    BY <1>1, Loading, EditedRow
  <2> QED
    BY <1>1, <1>3, <2>1, SaveJob, GoKeeps, QuietTables
<1>4. CASE Go(w, Save(j, j.row, {b \in loaded : b.id # j.id})) /\ UNCHANGED minted
  <2>1. {b \in loaded : b.id # j.id} \subseteq loaded
    OBVIOUS
  <2> QED
    BY <1>1, <1>4, <2>1, Loading, SaveJob, GoKeeps, QuietTables
<1>5. CASE /\ j.op = "block" /\ ~\E b \in loaded : Overlaps(b.stay, j.stay)
           /\ \E id \in BlockId \ minted :
                /\ minted' = minted \cup {id}
                /\ Go(w, Save([j EXCEPT !.id = id], j.row,
                        loaded \cup {[id |-> id, listing |-> j.listing,
                                      stay |-> j.stay]}))
  BY <1>1, <1>5, MintsBlock
<1> QED
  BY <1>2, <1>3, <1>4, <1>5, Zenon DEF LoadBlocks

----------------------------------------------------------------------------
(* Rows are inserted and saved *)

LEMMA CreateListingL ==
  ASSUME LInv, NEW h \in Host, NEW l \in Listing, NEW c \in Capacity,
         CreateListing(h, l, c)
  PROVE  LInv'
<1> DEFINE new == [host |-> h, capacity |-> c, status |-> "Unpublished"]
<1>1. new \in Row /\ new.host # None /\ new.status # "Absent"
  BY HostAssumption DEF Row, ListingStatus
<1>2. \A k \in Listing : row'[k] = IF k = l THEN new ELSE row[k]
  BY DEF CreateListing, LInv, TypeOK
<1>3. TypeOK'
  BY <1>1, <1>2 DEF CreateListing, LInv, TypeOK, NoRow
<1>4. \A k \in Listing : row'[k].status = "Absent" => row'[k] = NoRow
  BY <1>1, <1>2 DEF LInv
<1>5. \A w \in Worker : JobOk(job[w])'
  <2> SUFFICES ASSUME NEW w \in Worker PROVE JobOk(job[w])'
    OBVIOUS
  <2>1. JobOk(job[w]) /\ UNCHANGED <<job, blocks>>
    BY DEF LInv, CreateListing
  <2>2. CASE EditOk(job[w])
    <3>1. job[w].listing \in Listing /\ row[l].host = None
      BY <2>2 DEF EditOk, CreateListing, NoRow
    <3>2. row[job[w].listing].host = job[w].host =>
            row'[job[w].listing] = row[job[w].listing]
      BY <1>2, <2>2, <3>1, HostAssumption DEF EditOk
    <3> QED
      BY <2>1, <2>2, <3>2 DEF JobOk, EditOk
  <2> QED
    BY <2>1, <2>2 DEF JobOk, BookOk, BlocksOf
<1> QED
  BY <1>3, <1>4, <1>5
  DEF CreateListing, LInv, Disjoint, OneRowPerId, AllBlocks

(* What a save does: one row keeps its owner, the listing's blocks become
   the copy, and each booking forgets the blocks that have gone.           *)
LEMMA SaveEffect ==
  ASSUME LInv, NEW w \in Worker, SaveListing(w)
  PROVE  LET l == job[w].listing
         IN  /\ job[w] \in Job /\ EditOk(job[w])
             /\ CopyOk(l, job[w].blocks)
             /\ row[l].host = job[w].host /\ row'[l].host = job[w].host
             /\ row' \in [Listing -> Row]
             /\ row'[l].status # "Absent"
             /\ \A k \in Listing : k # l => row'[k] = row[k]
             /\ blocks' = {b \in blocks : b.listing # l} \cup job[w].blocks
<1> DEFINE j == job[w]
           l == j.listing
<1>1. /\ job[w] \in Job /\ job[w].pc = "save"
      /\ EditOk(job[w])
  BY IdleJob DEF SaveListing, LInv, TypeOK, JobOk, BookOk
<1>2. CopyOk(l, j.blocks) /\ l \in Listing /\ row[l].host = j.host
        /\ j.row \in Row /\ j.row.status # "Absent" /\ row[l] \in Row
  BY <1>1 DEF EditOk, Job, LInv, TypeOK
<1>3. row' = [row EXCEPT ![l] = [@ EXCEPT !.capacity = j.row.capacity,
                                          !.status = j.row.status]]
  BY DEF SaveListing
<1> DEFINE r == [row[l] EXCEPT !.capacity = j.row.capacity, !.status = j.row.status]
<1>4. r \in Row /\ r.host = j.host /\ r.status # "Absent"
  BY <1>2 DEF Row
<1>5. row' = [row EXCEPT ![l] = r]
  BY <1>3
<1> HIDE DEF r
<1>6. blocks' = {b \in blocks : b.listing # l} \cup j.blocks
  <2>1. \A b, c \in blocks \cup j.blocks : b.id = c.id => b = c
    BY DEF LInv, OneRowPerId, AllBlocks
  <2> QED
    BY <1>2, <2>1, SyncedIsCopy DEF SaveListing, CopyOk
<1>7. row' \in [Listing -> Row] /\ row'[l].host = j.host
        /\ row'[l].status # "Absent" /\ \A k \in Listing : k # l => row'[k] = row[k]
  BY <1>2, <1>4, <1>5 DEF LInv, TypeOK
<1> QED
  BY <1>1, <1>2, <1>6, <1>7

LEMMA SaveListingL ==
  ASSUME LInv, NEW w \in Worker, SaveListing(w)
  PROVE  LInv'
<1> DEFINE l == job[w].listing
           kept(v) == [job[v] EXCEPT !.seen = @ \cap blocks']
<1>1. \A v \in Worker : job'[v] = IF v = w THEN Idle ELSE kept(v)
  BY DEF SaveListing
<1>2. \A v \in Worker : /\ job[v] \in Job /\ kept(v) \in Job
                        /\ kept(v).op = job[v].op /\ kept(v).pc = job[v].pc
                        /\ kept(v).host = job[v].host
                        /\ kept(v).listing = job[v].listing
                        /\ kept(v).stay = job[v].stay /\ kept(v).row = job[v].row
                        /\ kept(v).blocks = job[v].blocks
                        /\ kept(v).seen = job[v].seen \cap blocks'
                        /\ (job[v].seen = {} => kept(v) = job[v])
  BY DEF LInv, TypeOK, Job
<1> HIDE DEF kept
<1>3. blocks' \subseteq AllBlocks /\ AllBlocks' \subseteq AllBlocks
  BY <1>1, <1>2, SaveEffect, IdleJob DEF AllBlocks
<1>4. OneRowPerId'
  BY <1>3 DEF LInv, OneRowPerId, SaveListing
<1>5. Disjoint(blocks)'
  BY SaveEffect DEF LInv, Disjoint, CopyOk
<1>6. \A k \in Listing : row'[k].status = "Absent" => row'[k] = NoRow
  BY SaveEffect DEF LInv
<1>7. TypeOK'
  <2>1. job' \in [Worker -> Job]
    BY <1>1, <1>2, IdleJob DEF SaveListing
  <2>2. blocks' \subseteq BlockRow
    BY SaveEffect DEF LInv, TypeOK, Job
  <2>3. \A k \in Listing : row'[k].host = None => row'[k] = NoRow
    BY SaveEffect, HostAssumption DEF LInv, TypeOK, EditOk
  <2>4. \A b, c \in blocks' : b.id = c.id => b = c
    BY <1>3 DEF LInv, OneRowPerId
  <2> QED
    BY <2>1, <2>2, <2>3, <2>4, SaveEffect DEF LInv, TypeOK, SaveListing
<1>8. \A v \in Worker : JobOk(job[v])'
  <2> SUFFICES ASSUME NEW v \in Worker PROVE JobOk(job[v])'
    OBVIOUS
  <2>1. CASE v = w \/ job[v] = Idle
    BY <1>1, <1>2, <2>1, IdleJob DEF JobOk
  <2>2. CASE v # w /\ EditOk(job[v])
    <3>1. job'[v] = job[v] /\ job[v].listing \in Listing
      BY <1>1, <1>2, <2>2 DEF EditOk
    <3>2. row'[job[v].listing].host = row[job[v].listing].host
      BY <3>1, SaveEffect
    <3> QED
      BY <2>2, <3>1, <3>2 DEF JobOk, EditOk
  <2>3. CASE v # w /\ BookOk(job[v])
    BY <1>1, <1>2, <2>3 DEF JobOk, BookOk, BlocksOf
  <2> QED
    BY <2>1, <2>2, <2>3 DEF LInv, JobOk
<1> QED
  BY <1>4, <1>5, <1>6, <1>7, <1>8 DEF LInv

----------------------------------------------------------------------------
(* A booking at the seam *)

LEMMA Booking ==
  ASSUME LInv, NEW w \in Worker,
         job[w].pc \in {"snapshot", "checkBlocks", "placeHold"}
  PROVE  job[w] \in Job /\ BookOk(job[w]) /\ job[w].blocks \subseteq AllBlocks
  BY IdleJob DEF LInv, TypeOK, JobOk, EditOk, BookOk, AllBlocks

LEMMA SnapshotL ==
  ASSUME LInv, NEW w \in Worker, Snapshot(w)
  PROVE  LInv'
<1> DEFINE j == [job[w] EXCEPT !.pc = "checkBlocks"]
<1>1. job[w].pc = "snapshot" /\ UNCHANGED <<tables, minted, faults>>
        /\ (Go(w, j) \/ Go(w, Idle))
  BY DEF Snapshot
<1>2. j \in Job /\ JobOk(j) /\ j.blocks \subseteq AllBlocks
  BY <1>1, Booking DEF Job, JobOk, BookOk
<1> HIDE DEF j
<1> QED
  BY <1>1, <1>2, GoKeeps, EndsIdle, QuietTables

LEMMA CheckBlocksL ==
  ASSUME LInv, NEW w \in Worker, CheckBlocks(w)
  PROVE  LInv'
<1> DEFINE j == [job[w] EXCEPT !.pc = "placeHold"]
<1>1. job[w].pc = "checkBlocks" /\ UNCHANGED <<tables, minted, faults>>
  BY DEF CheckBlocks
<1>2. CASE ~Blocked(job[w].listing, job[w].stay)
  <2>1. j \in Job /\ JobOk(j) /\ j.blocks \subseteq AllBlocks
    BY <1>1, <1>2, Booking DEF Job, JobOk, BookOk, Blocked
  <2>2. Go(w, j)
    BY <1>2 DEF CheckBlocks
  <2> HIDE DEF j
  <2> QED
    BY <1>1, <2>1, <2>2, GoKeeps, QuietTables
<1>3. CASE Blocked(job[w].listing, job[w].stay)
  BY <1>1, <1>3, EndsIdle, QuietTables DEF CheckBlocks
<1> QED
  BY <1>2, <1>3

LEMMA PlaceHoldL ==
  ASSUME LInv, NEW w \in Worker, PlaceHold(w)
  PROVE  LInv'
<1>1. job[w].listing \in Listing
  BY Booking DEF PlaceHold, BookOk
<1>2. \A x \in booked' : x.listing \in Listing
  BY <1>1 DEF PlaceHold, LInv, TypeOK
<1> QED
  BY <1>2, EndsIdle DEF PlaceHold, LInv, TypeOK

LEMMA FaultL ==
  ASSUME LInv, NEW w \in Worker, Fault(w)
  PROVE  LInv'
<1>1. faults' \in 0 .. MaxFaults /\ \A x \in booked' : x.listing \in Listing
  BY CapacityAssumption DEF Fault, LInv, TypeOK, tables
<1> QED
  BY <1>1, EndsIdle DEF Fault, tables

----------------------------------------------------------------------------
(* Every step *)

LEMMA NextL == LInv /\ [Next]_vars => LInv'
<1> SUFFICES ASSUME LInv, [Next]_vars PROVE LInv'
  OBVIOUS
<1>1. ASSUME NEW h \in Host, NEW l \in Listing, NEW c \in Capacity,
             CreateListing(h, l, c)
      PROVE  LInv'
  BY <1>1, CreateListingL
<1>2. ASSUME NEW w \in Worker, NEW h \in Host, NEW l \in Listing,
             \/ StartUpdate(w, h, l) \/ StartPublish(w, h, l)
             \/ StartUnpublish(w, h, l) \/ StartBlock(w, h, l)
             \/ StartUnblock(w, h, l)
      PROVE  LInv'
  BY <1>2, StartCommands
<1>3. ASSUME NEW w \in Worker, NEW l \in Listing, NEW s \in Stays,
             NEW p \in Capacity, StartBook(w, l, s, p)
      PROVE  LInv'
  BY <1>3, StartBookL
<1>4. ASSUME NEW w \in Worker,
             LoadListing(w) \/ LoadBlocks(w) \/ SaveListing(w)
      PROVE  LInv'
  BY <1>4, LoadListingL, LoadBlocksL, SaveListingL
<1>5. ASSUME NEW w \in Worker,
             Snapshot(w) \/ CheckBlocks(w) \/ PlaceHold(w) \/ Fault(w)
      PROVE  LInv'
  BY <1>5, SnapshotL, CheckBlocksL, PlaceHoldL, FaultL
<1>6. CASE UNCHANGED vars
  <2>1. UNCHANGED <<row, blocks, minted, booked, faults, job>>
    BY <1>6 DEF vars
  <2> QED
    BY <2>1
    DEF LInv, TypeOK, Disjoint, OneRowPerId, AllBlocks, JobOk, EditOk, BookOk, BlocksOf
<1> QED
  BY <1>1, <1>2, <1>3, <1>4, <1>5, <1>6 DEF Next

LEMMA InvL == Spec => []LInv
  BY InitL, NextL, PTL DEF Spec

(* Rows, blocks and running handlers keep their types; block ids stay      *)
(* unique in the table although two saves may insert the same block; no    *)
(* command brings up a listing that nobody owns.                           *)
THEOREM ListingsAreTyped == Spec => []TypeOK
<1>1. LInv => TypeOK
  BY DEF LInv
<1> QED
  BY <1>1, InvL, PTL

(* No two blocks of a listing overlap, however many commands save copies   *)
(* that others have overtaken.                                             *)
THEOREM BlocksNeverOverlap == Spec => []BlocksDisjoint
<1>1. LInv => BlocksDisjoint
  BY DEF LInv, Disjoint, BlocksDisjoint
<1> QED
  BY <1>1, InvL, PTL

(* Once a listing exists, only a save of its own host's command changes    *)
(* its row or its blocks.                                                  *)
THEOREM OnlyItsHostWrites == Spec => OwnerOnly
<1> DEFINE Writes(l) == row[l] # NoRow
                          /\ (row'[l] # row[l] \/ BlocksOf(l)' # BlocksOf(l))
           ByOwner(l) == \E w \in Worker : Commits(w) /\ job[w].listing = l
                                             /\ job[w].host = row[l].host
<1>1. LInv /\ [Next]_vars => [\A l \in Listing : Writes(l) => ByOwner(l)]_vars
  <2> SUFFICES ASSUME LInv, Next, NEW l \in Listing, Writes(l) PROVE ByOwner(l)
    OBVIOUS
  <2>1. PICK w \in Worker : SaveListing(w)
    <3>1. ~UNCHANGED <<row, blocks>>
      BY DEF BlocksOf
    <3>2. ASSUME NEW h \in Host, NEW k \in Listing, NEW c \in Capacity
          PROVE  ~CreateListing(h, k, c)
      BY DEF CreateListing, BlocksOf, LInv, TypeOK
    <3>3. ASSUME NEW w \in Worker, NEW h \in Host, NEW k \in Listing,
                 \/ StartUpdate(w, h, k) \/ StartPublish(w, h, k)
                 \/ StartUnpublish(w, h, k) \/ StartBlock(w, h, k)
                 \/ StartUnblock(w, h, k)
          PROVE  UNCHANGED <<row, blocks>>
      BY <3>3 DEF StartUpdate, StartPublish, StartUnpublish, StartBlock, StartUnblock,
         StartEdit, tables
    <3>4. ASSUME NEW w \in Worker, NEW k \in Listing, NEW s \in Stays, NEW c \in Capacity,
                 StartBook(w, k, s, c)
          PROVE  UNCHANGED <<row, blocks>>
      BY <3>4 DEF StartBook, tables
    <3>5. ASSUME NEW w \in Worker,
                 \/ LoadListing(w) \/ LoadBlocks(w) \/ Fault(w)
                 \/ Snapshot(w) \/ CheckBlocks(w) \/ PlaceHold(w)
          PROVE  UNCHANGED <<row, blocks>>
      BY <3>5 DEF LoadListing, LoadBlocks, Snapshot, CheckBlocks, PlaceHold, Fault, tables
    <3> QED
      BY <3>1, <3>2, <3>3, <3>4, <3>5 DEF Next
  <2>2. job[w].listing = l
    BY <2>1, SaveEffect DEF BlocksOf, CopyOk
  <2>3. Commits(w)
    BY <2>1 DEF SaveListing, Commits
  <2> QED
    BY <2>1, <2>2, <2>3, SaveEffect
<1>2. ([][\A l \in Listing : Writes(l) => ByOwner(l)]_vars) => OwnerOnly
  BY DEF OwnerOnly
<1> QED
  BY <1>1, <1>2, InvL, PTL DEF Spec

(* No booking, among any number of handlers, is placed over a block that   *)
(* stands from its request to its hold.                                    *)
THEOREM StandingBlocksHold == Spec => StandingBlockHolds
<1> DEFINE Respects == \A w \in Worker :
             job[w].pc = "placeHold" /\ booked' # booked /\ job'[w] = Idle
               => \A b \in job[w].seen : ~Overlaps(b.stay, job[w].stay)
<1>1. LInv /\ [Next]_vars => [Respects]_vars
  BY Booking DEF BookOk
<1>2. [][Respects]_vars => StandingBlockHolds
  BY DEF StandingBlockHolds
<1> QED
  BY <1>1, <1>2, InvL, PTL DEF Spec
=============================================================================
