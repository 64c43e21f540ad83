---------------------------- MODULE OutboxProofs ----------------------------
(***************************************************************************)
(* Safety of the outbox for any number of rows and ticks, any batch size   *)
(* and any number of failures.                                             *)
(*                                                                         *)
(* The order of publication needs that a batch is closed downwards: of a   *)
(* row it holds, it also holds every row ahead that is not published yet   *)
(* (BatchClosed). That no mail is unexplained needs a potential: the mails *)
(* of a row, the handlers on their way to send one and the ticks that may  *)
(* still publish the row (Owing) never exceed one more than what has gone  *)
(* wrong (Explained).                                                      *)
(***************************************************************************)
EXTENDS Outbox, FiniteSetTheorems, WellFoundedInduction, TLAPS

(* A tick's rows are committed; it stamps what it has published.           *)
TickOk(t) ==
  /\ tick[t].left \subseteq committed
  /\ tick[t].at = "stamp" =>
       tick[t].left # {} /\ First(tick[t].left) \in published

Ahead == \A r \in committed : ahead[r] \subseteq {q \in committed : q < r}

BatchClosed ==
  \A t \in Tick : \A r \in tick[t].left :
    ahead[r] \subseteq published \cup tick[t].left

(* Handlers run for published rows; what goes on to mark has been sent.    *)
HandlersOk ==
  \A r \in Row :
    /\ inflight["look"][r] > 0 \/ inflight["send"][r] > 0 => r \in published
    /\ inflight["mark"][r] > 0 => mails[r] > 0

(* The ticks that will publish r if nothing stops them.                    *)
Owing(r) ==
  {t \in Tick : /\ r \in tick[t].left
                /\ ~(tick[t].at = "stamp" /\ First(tick[t].left) = r)}

Sent(r) == mails[r] + inflight["look"][r] + inflight["send"][r]

Claimed(r) == r \in stamped \/ \E t \in Tick : r \in tick[t].left

Explained(r) ==
  /\ Sent(r) + Cardinality(Owing(r)) <= failures + overlaps + 1
  /\ ~Claimed(r) => Sent(r) <= failures + overlaps

OInv ==
  /\ TypeOK
  /\ \A t \in Tick : TickOk(t)
  /\ Ahead /\ BatchClosed
  /\ HandlersOk
  /\ NothingFabricated /\ PublishedInOrder
  /\ \A r \in Row : Explained(r)

----------------------------------------------------------------------------
(* Sets of rows *)

LEMMA NatsAreWellFounded == IsWellFoundedOn(OpToRel(<, Nat), Nat)
  BY NatLessThanWellFounded

(* The oldest row of a batch.                                              *)
LEMMA FirstIsOldest ==
  ASSUME NEW S, S \subseteq Row, S # {}
  PROVE  First(S) \in S /\ \A q \in S : First(S) <= q
<1>1. S \subseteq Nat
  BY RowAssumption
<1>2. \E r \in S : \A q \in S : r <= q
  <2>1. PICK r \in S : \A q \in S : <<q, r>> \notin OpToRel(<, Nat)
    BY <1>1, NatsAreWellFounded, WFMin
  <2>2. \A q \in S : ~(q < r)
    BY <1>1, <2>1 DEF OpToRel
  <2> QED
    BY <1>1, <2>2
<1> QED
  BY <1>2 DEF First

LEMMA RowsAreFinite ==
  ASSUME NEW S, S \subseteq Row
  PROVE  S \subseteq Nat /\ IsFiniteSet(S) /\ Cardinality(S) \in Nat
<1>1. IsFiniteSet(S)
  BY RowAssumption, FS_Subset
<1> QED
  BY <1>1, RowAssumption, FS_CardinalityType

(* The batch is closed downwards among the pending rows.                   *)
LEMMA OldestIsClosed ==
  ASSUME Pending \subseteq Row, NEW r \in Oldest, NEW q \in Pending, q < r
  PROVE  q \in Oldest
<1> DEFINE Before(x) == {p \in Pending : p < x}
<1>1. r \in Pending /\ Cardinality(Before(r)) < BatchSize /\ Pending \subseteq Nat
  BY RowsAreFinite DEF Oldest
<1>2. Before(q) \subseteq Before(r) /\ Before(r) \subseteq Row /\ Before(q) \subseteq Row
  <2>1. \A p \in Pending : p < q => p < r
    BY <1>1
  <2> QED
    BY <2>1, Zenon
<1>3. Cardinality(Before(q)) <= Cardinality(Before(r))
  BY <1>2, RowsAreFinite, FS_Subset
<1>4. Cardinality(Before(q)) \in Nat /\ Cardinality(Before(r)) \in Nat
  BY <1>2, RowsAreFinite
<1> HIDE DEF Before
<1>5. Cardinality(Before(q)) < BatchSize
  BY <1>1, <1>3, <1>4, BatchAssumption
<1> QED
  BY <1>5 DEF Oldest, Before

----------------------------------------------------------------------------
(* The potential *)

LEMMA OwingIsFinite ==
  ASSUME NEW S, S \subseteq Tick
  PROVE  IsFiniteSet(S) /\ Cardinality(S) \in Nat
<1>1. IsFiniteSet(S)
  BY TickAssumption, FS_Subset
<1> QED
  BY <1>1, FS_CardinalityType

(* Tick t is no longer among the owing, or it is anew.                     *)
LEMMA OneLess ==
  ASSUME NEW S, S \subseteq Tick, NEW t \in S
  PROVE  Cardinality(S \ {t}) = Cardinality(S) - 1
  BY OwingIsFinite, FS_RemoveElement

LEMMA OneMore ==
  ASSUME NEW S, S \subseteq Tick, NEW t \in Tick, t \notin S
  PROVE  Cardinality(S \cup {t}) = Cardinality(S) + 1
  BY OwingIsFinite, FS_AddElement

LEMMA NoMore ==
  ASSUME NEW S, S \subseteq Tick, NEW T, T \subseteq S
  PROVE  Cardinality(T) <= Cardinality(S)
  BY OwingIsFinite, FS_Subset

LEMMA OwingTicks ==
  ASSUME NEW r
  PROVE  Owing(r) \subseteq Tick /\ Cardinality(Owing(r)) \in Nat
<1>1. Owing(r) \subseteq Tick
  BY DEF Owing
<1> QED
  BY <1>1, OwingIsFinite

LEMMA Counts ==
  ASSUME TypeOK, NEW r \in Row
  PROVE  /\ mails[r] \in Nat /\ inflight["look"][r] \in Nat
         /\ inflight["send"][r] \in Nat /\ inflight["mark"][r] \in Nat
         /\ Sent(r) \in Nat /\ failures \in Nat /\ overlaps \in Nat
  BY LimitAssumption DEF TypeOK, Stage, Sent

----------------------------------------------------------------------------
(* Initial states *)

LEMMA InitO == Init => OInv
<1> SUFFICES ASSUME Init PROVE OInv
  OBVIOUS
<1>1. TypeOK
  BY LimitAssumption DEF Init, TypeOK, Resting, NoHandlers
<1>2. \A r \in Row : Owing(r) = {} /\ Sent(r) = 0
  BY DEF Init, Owing, Resting, Sent, NoHandlers, Stage
<1>3. \A r \in Row : Explained(r)
  BY <1>2, FS_EmptySet DEF Explained, Init
<1>4. \A t \in Tick : TickOk(t)
  BY DEF Init, TickOk, Resting
<1>5. HandlersOk
  BY DEF Init, HandlersOk, NoHandlers, Stage
<1> QED
  BY <1>1, <1>3, <1>4, <1>5
  DEF OInv, Init, Ahead, BatchClosed, Resting, NothingFabricated, PublishedInOrder

----------------------------------------------------------------------------
(* Rows and ticks *)

LEMMA EnqueueO ==
  ASSUME OInv, NEW r \in Row, Enqueue(r)
  PROVE  OInv'
<1>1. /\ r \notin committed /\ committed' = committed \cup {r}
      /\ ahead' = [ahead EXCEPT ![r] = {q \in committed : q < r}]
      /\ UNCHANGED <<stamped, published, tick, inflight, log, mails,
                     overlaps, failures>>
  BY DEF Enqueue, budget
<1>2. \A q \in committed : ahead'[q] = ahead[q]
  BY <1>1 DEF OInv, TypeOK
<1>3. ahead'[r] = {q \in committed : q < r}
  BY <1>1 DEF OInv, TypeOK
<1>4. TypeOK'
  BY <1>1 DEF OInv, TypeOK
<1>5. Ahead'
  BY <1>1, <1>2, <1>3 DEF OInv, Ahead
<1>6. BatchClosed'
  BY <1>1, <1>2 DEF OInv, BatchClosed, TickOk
<1>7. PublishedInOrder'
  BY <1>1, <1>2 DEF OInv, TypeOK, PublishedInOrder
<1>8. \A q \in Row : Explained(q)'
  BY <1>1 DEF OInv, Explained, Sent, Owing, Claimed
<1> QED
  BY <1>1, <1>4, <1>5, <1>6, <1>7, <1>8
  DEF OInv, TickOk, HandlersOk, NothingFabricated

LEMMA StartTickO ==
  ASSUME OInv, NEW t \in Tick, StartTick(t)
  PROVE  OInv'
<1> DEFINE new == [left |-> Oldest, at |-> "publish"]
<1>1. /\ tick[t].left = {} /\ Oldest # {} /\ CountOverlap(t)
      /\ UNCHANGED <<committed, stamped, ahead, published, inflight, log,
                     mails, failures>>
  BY DEF StartTick, table, history
<1>2. \A u \in Tick : tick'[u] = IF u = t THEN new ELSE tick[u]
  BY DEF StartTick, OInv, TypeOK
<1>3. Oldest \subseteq Pending /\ Pending \subseteq Row /\ Pending \subseteq committed
  BY DEF Oldest, Pending, OInv, TypeOK
<1>4. overlaps' = overlaps \/ overlaps' = overlaps + 1
  BY <1>1 DEF CountOverlap
<1>5. TypeOK'
  BY <1>1, <1>2, <1>3, <1>4 DEF OInv, TypeOK, StartTick
<1>6. \A u \in Tick : TickOk(u)'
  BY <1>1, <1>2, <1>3 DEF OInv, TickOk
<1>7. BatchClosed'
  <2>1. ASSUME NEW r \in Oldest, NEW q \in ahead[r]
        PROVE  q \in published \cup Oldest
    <3>1. q \in committed /\ q < r
      BY <1>3 DEF OInv, Ahead
    <3>2. CASE q \in stamped
      BY <3>2 DEF OInv, NothingFabricated
    <3>3. CASE q \notin stamped
      BY <1>3, <3>1, <3>3, OldestIsClosed DEF Pending
    <3> QED
      BY <3>2, <3>3
  <2> QED
    BY <1>1, <1>2, <2>1 DEF OInv, BatchClosed
<1>8. ASSUME NEW r \in Row PROVE Explained(r)'
  <2>1. Explained(r) /\ t \notin Owing(r) /\ Sent(r)' = Sent(r)
    BY <1>1 DEF OInv, Owing, Sent
  <2>2. /\ Sent(r) \in Nat /\ failures \in Nat /\ overlaps \in Nat
        /\ Owing(r) \subseteq Tick /\ Cardinality(Owing(r)) \in Nat
    BY Counts, OwingTicks DEF OInv
  <2>3. CASE r \notin Oldest
    <3>1. Owing(r)' = Owing(r) /\ (Claimed(r)' <=> Claimed(r))
      BY <1>1, <1>2, <2>3 DEF Owing, Claimed
    <3> QED
      BY <1>1, <1>4, <2>1, <2>2, <3>1 DEF Explained
  <2>4. CASE r \in Oldest
    <3>1. Owing(r)' = Owing(r) \cup {t}
      BY <1>1, <1>2, <2>4 DEF Owing
    <3>2. Cardinality(Owing(r)') = Cardinality(Owing(r)) + 1
      BY <2>1, <2>2, <3>1, OneMore
    <3>3. Claimed(r)'
      BY <1>2, <2>4 DEF Claimed
    <3>4. CASE \E u \in Tick \ {t} : tick[u].left # {}
      <4>1. overlaps' = overlaps + 1
        BY <1>1, <3>4 DEF CountOverlap
      <4> QED
        BY <1>1, <2>1, <2>2, <3>2, <3>3, <4>1 DEF Explained
    <3>5. CASE ~\E u \in Tick \ {t} : tick[u].left # {}
      <4>1. ~Claimed(r) /\ Owing(r) = {}
        BY <1>1, <1>3, <2>4, <3>5 DEF Claimed, Owing, Pending
      <4>2. Cardinality(Owing(r)) = 0
        BY <4>1, FS_EmptySet
      <4> QED
        BY <1>1, <1>4, <2>1, <2>2, <3>2, <3>3, <4>1, <4>2 DEF Explained
    <3> QED
      BY <3>4, <3>5
  <2> QED
    BY <2>3, <2>4
<1> QED
  BY <1>1, <1>5, <1>6, <1>7, <1>8
  DEF OInv, Ahead, HandlersOk, NothingFabricated, PublishedInOrder

(* A tick at work has an oldest row.                                       *)
LEMMA AtWork ==
  ASSUME OInv, NEW t \in Tick, tick[t].left # {}
  PROVE  LET r == First(tick[t].left)
         IN  /\ r \in tick[t].left /\ r \in Row /\ r \in committed
             /\ \A q \in tick[t].left : r <= q
<1>1. tick[t].left \subseteq committed /\ committed \subseteq Row
  BY DEF OInv, TypeOK, TickOk
<1> QED
  BY <1>1, FirstIsOldest

LEMMA PublishO ==
  ASSUME OInv, NEW t \in Tick, Publish(t)
  PROVE  OInv'
<1> DEFINE r == First(tick[t].left)
<1>1. /\ tick[t].left # {} /\ tick[t].at = "publish"
      /\ published' = published \cup {r}
      /\ inflight' = [inflight EXCEPT !["look"][r] = @ + 1]
      /\ UNCHANGED <<committed, stamped, ahead, log, mails, overlaps, failures>>
  BY DEF Publish, table, budget
<1>2. /\ r \in tick[t].left /\ r \in Row /\ r \in committed
      /\ \A q \in tick[t].left : r <= q
  BY <1>1, AtWork
<1>3. \A u \in Tick : tick'[u].left = tick[u].left
                        /\ tick'[u].at = (IF u = t THEN "stamp" ELSE tick[u].at)
  BY DEF Publish, OInv, TypeOK
<1>4. /\ inflight \in [Stage -> [Row -> Nat]]
      /\ inflight' \in [Stage -> [Row -> Nat]]
      /\ \A q \in Row : inflight'["look"][q] = (IF q = r THEN inflight["look"][q] + 1
                                                         ELSE inflight["look"][q])
      /\ inflight'["send"] = inflight["send"] /\ inflight'["mark"] = inflight["mark"]
  BY <1>1, <1>2 DEF OInv, TypeOK, Stage
<1> HIDE DEF r
<1>5. TypeOK'
  <2>1. tick' \in [Tick -> [left : SUBSET Row, at : {"publish", "stamp"}]]
    BY DEF Publish, OInv, TypeOK
  <2> QED
    BY <1>1, <1>2, <1>4, <2>1 DEF OInv, TypeOK
<1>6. \A u \in Tick : TickOk(u)'
  BY <1>1, <1>3 DEF OInv, TickOk, r
<1>7. BatchClosed'
  BY <1>1, <1>3 DEF OInv, BatchClosed
<1>8. PublishedInOrder'
  <2>1. ASSUME NEW q \in ahead[r] PROVE q \in published
    <3>1. q \in published \cup tick[t].left
      BY <1>2 DEF OInv, BatchClosed
    <3>2. q < r /\ q \in Nat /\ r \in Nat
      BY <1>2, RowAssumption DEF OInv, Ahead, TypeOK
    <3> QED
      BY <1>2, <3>1, <3>2
  <2> QED
    BY <1>1, <2>1 DEF OInv, PublishedInOrder
<1>9. HandlersOk'
  BY <1>1, <1>4 DEF OInv, HandlersOk, Stage
<1>10. ASSUME NEW q \in Row PROVE Explained(q)'
  <2>1. /\ Explained(q) /\ (Claimed(q)' <=> Claimed(q))
    BY <1>1, <1>3 DEF OInv, Claimed
  <2>2. /\ Sent(q) \in Nat /\ failures \in Nat /\ overlaps \in Nat
        /\ inflight["look"][q] \in Nat /\ inflight["send"][q] \in Nat /\ mails[q] \in Nat
        /\ Owing(q) \subseteq Tick /\ Cardinality(Owing(q)) \in Nat
    BY Counts, OwingTicks DEF OInv
  <2>3. CASE q # r
    <3>1. Sent(q)' = Sent(q)
      BY <1>1, <1>4, <2>3 DEF Sent
    <3>2. Owing(q)' = Owing(q)
      BY <1>1, <1>3, <2>3 DEF Owing, r
    <3> QED
      BY <1>1, <2>1, <3>1, <3>2 DEF Explained
  <2>4. CASE q = r
    <3>1. Sent(q)' = Sent(q) + 1
      BY <1>1, <1>4, <2>2, <2>4 DEF Sent
    <3>2. t \in Owing(q) /\ Owing(q)' = Owing(q) \ {t}
      BY <1>1, <1>2, <1>3, <2>4 DEF Owing, r
    <3>3. Cardinality(Owing(q)') = Cardinality(Owing(q)) - 1
      BY <2>2, <3>2, OneLess
    <3>4. Claimed(q)
      BY <1>2, <2>4 DEF Claimed
    <3> QED
      BY <1>1, <2>1, <2>2, <3>1, <3>3, <3>4 DEF Explained
  <2> QED
    BY <2>3, <2>4
<1> QED
  BY <1>1, <1>5, <1>6, <1>7, <1>8, <1>9, <1>10
  DEF OInv, Ahead, NothingFabricated

(* Nobody owes the stamped row any more than before; the others stay owed. *)
LEMMA StampO ==
  ASSUME OInv, NEW t \in Tick, Stamp(t)
  PROVE  OInv'
<1> DEFINE r == First(tick[t].left)
           left == tick[t].left \ {r}
<1>1. /\ tick[t].left # {} /\ tick[t].at = "stamp"
      /\ stamped' = stamped \cup {r}
      /\ UNCHANGED <<committed, ahead, published, inflight, log, mails,
                     overlaps, failures>>
  BY DEF Stamp, history, budget
<1>2. r \in tick[t].left /\ r \in Row /\ r \in committed
  BY <1>1, AtWork
<1>3. r \in published
  BY <1>1 DEF OInv, TickOk
<1>4. \A u \in Tick : tick'[u] = IF u = t THEN [left |-> left, at |-> "publish"]
                                          ELSE tick[u]
  BY DEF Stamp, OInv, TypeOK
<1>5. TypeOK'
  BY <1>1, <1>2, <1>3, <1>4 DEF OInv, TypeOK, Stamp
<1> HIDE DEF r
<1>6. \A u \in Tick : TickOk(u)'
  BY <1>1, <1>4 DEF OInv, TickOk
<1>7. BatchClosed'
  BY <1>1, <1>3, <1>4 DEF OInv, BatchClosed
<1>8. ASSUME NEW q \in Row PROVE Explained(q)'
  <2>1. Explained(q) /\ Sent(q)' = Sent(q)
    BY <1>1 DEF OInv, Sent
  <2>2. Owing(q)' = Owing(q)
    BY <1>1, <1>4 DEF Owing, r
  <2>3. Claimed(q) => Claimed(q)'
    <3>1. CASE q = r
      BY <1>1, <3>1 DEF Claimed
    <3>2. CASE q # r
      BY <1>1, <1>4, <3>2 DEF Claimed
    <3> QED
      BY <3>1, <3>2
  <2> QED
    BY <1>1, <2>1, <2>2, <2>3 DEF Explained
<1> QED
  BY <1>1, <1>3, <1>5, <1>6, <1>7, <1>8
  DEF OInv, Ahead, HandlersOk, NothingFabricated, PublishedInOrder

(* A step in which something goes wrong: some ticks stop, handlers die, and
   nothing that was owed or on its way grows.                              *)
LEMMA Wrong ==
  ASSUME OInv, Fails,
         tick' = [u \in Tick |-> tick'[u]],
         \A u \in Tick : tick'[u] \in {Resting, tick[u]},
         inflight' \in [Stage -> [Row -> Nat]],
         \A s \in Stage, r \in Row : inflight'[s][r] <= inflight[s][r],
         UNCHANGED <<committed, ahead, stamped, published, log, mails, overlaps>>
  PROVE  OInv'
<1>1. /\ failures' = failures + 1 /\ failures' \in 0 .. MaxFailures
  BY LimitAssumption DEF Fails, OInv, TypeOK
<1>2. \A u \in Tick : tick'[u] = Resting \/ tick'[u] = tick[u]
  OBVIOUS
<1>3. TypeOK'
  <2>1. Resting \in [left : SUBSET Row, at : {"publish", "stamp"}]
    BY DEF Resting
  <2>2. tick' \in [Tick -> [left : SUBSET Row, at : {"publish", "stamp"}]]
    BY <2>1 DEF OInv, TypeOK
  <2> QED
    BY <1>1, <2>2 DEF OInv, TypeOK
<1>4. /\ \A u \in Tick : TickOk(u)'
      /\ BatchClosed'
  BY <1>2 DEF OInv, TickOk, BatchClosed, Resting
<1>5. HandlersOk'
  <2>1. \A r \in Row : /\ inflight["look"][r] \in Nat /\ inflight'["look"][r] \in Nat
                       /\ inflight["send"][r] \in Nat /\ inflight'["send"][r] \in Nat
                       /\ inflight["mark"][r] \in Nat /\ inflight'["mark"][r] \in Nat
                       /\ inflight'["look"][r] <= inflight["look"][r]
                       /\ inflight'["send"][r] <= inflight["send"][r]
                       /\ inflight'["mark"][r] <= inflight["mark"][r]
    BY DEF OInv, TypeOK, Stage
  <2> QED
    BY <2>1 DEF OInv, HandlersOk
<1>6. ASSUME NEW r \in Row PROVE Explained(r)'
  <2>1. Explained(r) /\ Owing(r)' \subseteq Owing(r)
    BY <1>2 DEF OInv, Owing, Resting
  <2>2. /\ Sent(r) \in Nat /\ failures \in Nat /\ overlaps \in Nat
        /\ Owing(r) \subseteq Tick /\ Cardinality(Owing(r)) \in Nat
    BY Counts, OwingTicks DEF OInv
  <2>3. Sent(r)' \in Nat /\ Sent(r)' <= Sent(r)
    BY DEF OInv, TypeOK, Sent, Stage
  <2>4. Cardinality(Owing(r)') \in Nat /\ Cardinality(Owing(r)') <= Cardinality(Owing(r))
    BY <2>1, <2>2, NoMore, OwingIsFinite
  <2> QED
    BY <1>1, <2>1, <2>2, <2>3, <2>4 DEF Explained
<1> QED
  BY <1>3, <1>4, <1>5, <1>6 DEF OInv, Ahead, NothingFabricated, PublishedInOrder

LEMMA StampFailsO ==
  ASSUME OInv, NEW t \in Tick, StampFails(t)
  PROVE  OInv'
<1>1. /\ tick' = [u \in Tick |-> tick'[u]]
      /\ \A u \in Tick : tick'[u] \in {Resting, tick[u]}
  BY DEF StampFails, OInv, TypeOK
<1>2. \A s \in Stage, r \in Row : inflight'[s][r] <= inflight[s][r]
  BY DEF StampFails, OInv, TypeOK
<1> QED
  BY <1>1, <1>2, Wrong DEF StampFails, table, history, OInv, TypeOK

LEMMA CrashO ==
  ASSUME OInv, Crash
  PROVE  OInv'
<1>1. /\ tick' = [u \in Tick |-> tick'[u]]
      /\ \A u \in Tick : tick'[u] \in {Resting, tick[u]}
  BY DEF Crash
<1>2. /\ inflight' \in [Stage -> [Row -> Nat]]
      /\ \A s \in Stage, r \in Row : inflight'[s][r] <= inflight[s][r]
  BY DEF Crash, NoHandlers, OInv, TypeOK
<1> QED
  BY <1>1, <1>2, Wrong DEF Crash, table, history

LEMMA HandlerFailsO ==
  ASSUME OInv, NEW s \in Stage, NEW r \in Row, HandlerFails(s, r)
  PROVE  OInv'
<1>1. /\ tick' = [u \in Tick |-> tick'[u]]
      /\ \A u \in Tick : tick'[u] \in {Resting, tick[u]}
  BY DEF HandlerFails, OInv, TypeOK
<1>2. /\ inflight \in [Stage -> [Row -> Nat]] /\ inflight[s][r] > 0
      /\ inflight' = [inflight EXCEPT ![s][r] = @ - 1]
  BY DEF HandlerFails, Leave, OInv, TypeOK
<1>3. inflight' \in [Stage -> [Row -> Nat]]
  <2>1. inflight[s] \in [Row -> Nat] /\ inflight[s][r] - 1 \in Nat
    BY <1>2
  <2>2. [inflight[s] EXCEPT ![r] = @ - 1] \in [Row -> Nat]
    BY <2>1
  <2> QED
    BY <1>2, <2>2
<1>4. \A p \in Stage, q \in Row : inflight'[p][q] <= inflight[p][q]
  <2> SUFFICES ASSUME NEW p \in Stage, NEW q \in Row
               PROVE  inflight'[p][q] <= inflight[p][q]
    OBVIOUS
  <2>1. inflight'[p][q] = IF p = s /\ q = r THEN inflight[p][q] - 1 ELSE inflight[p][q]
    BY <1>2
  <2>2. inflight[p][q] \in Nat
    BY <1>2
  <2> QED
    BY <2>1, <2>2
<1> QED
  BY <1>1, <1>3, <1>4, Wrong DEF HandlerFails, table, history

----------------------------------------------------------------------------
(* The notification handler *)

(* A step of one handler: what it takes with it is not more than it was.   *)
LEMMA HandlerStep ==
  ASSUME OInv,
         UNCHANGED <<committed, ahead, stamped, published, tick, overlaps, failures>>,
         inflight' \in [Stage -> [Row -> Nat]], mails' \in [Row -> Nat],
         log' \subseteq Row,
         \A q \in Row : Sent(q)' <= Sent(q),
         \A q \in Row :
           /\ inflight'["look"][q] > 0 => inflight["look"][q] > 0
           /\ inflight'["send"][q] > 0
                => inflight["send"][q] > 0 \/ inflight["look"][q] > 0
           /\ inflight'["mark"][q] > 0 => mails'[q] > 0
           /\ q \in log' => mails'[q] > 0
           /\ mails'[q] > 0 => mails[q] > 0 \/ inflight["send"][q] > 0
  PROVE  OInv'
<1>1. TypeOK'
  BY DEF OInv, TypeOK
<1>2. HandlersOk'
  BY DEF OInv, HandlersOk
<1>3. NothingFabricated'
  BY <1>1 DEF OInv, HandlersOk, NothingFabricated, TypeOK
<1>4. ASSUME NEW q \in Row PROVE Explained(q)'
  <2>1. /\ Explained(q) /\ Owing(q)' = Owing(q) /\ Claimed(q)' = Claimed(q)
        /\ Sent(q)' <= Sent(q)
    BY DEF OInv, Owing, Claimed
  <2>2. /\ Sent(q) \in Nat /\ failures \in Nat /\ overlaps \in Nat
        /\ Cardinality(Owing(q)) \in Nat
    BY Counts, OwingTicks DEF OInv
  <2>3. Sent(q)' \in Nat
    BY DEF Sent, Stage
  <2> QED
    BY <2>1, <2>2, <2>3 DEF Explained
<1> QED
  BY <1>1, <1>2, <1>3, <1>4
  DEF OInv, TickOk, Ahead, BatchClosed, PublishedInOrder

(* A handler leaves a stage, or goes on to another one.                    *)
LEMMA Leaves ==
  ASSUME TypeOK, NEW s \in Stage, NEW r \in Row, inflight[s][r] > 0
  PROVE  /\ Leave(s, r) \in [Stage -> [Row -> Nat]]
         /\ \A p \in Stage, q \in Row :
              Leave(s, r)[p][q] =
                IF p = s /\ q = r THEN inflight[p][q] - 1 ELSE inflight[p][q]
<1>1. inflight \in [Stage -> [Row -> Nat]] /\ inflight[s][r] - 1 \in Nat
  BY DEF TypeOK
<1>2. [inflight[s] EXCEPT ![r] = @ - 1] \in [Row -> Nat]
  BY <1>1
<1> QED
  BY <1>1, <1>2 DEF Leave

LEMMA Advances ==
  ASSUME TypeOK, NEW s \in Stage, NEW n \in Stage \ {s}, NEW r \in Row,
         inflight[s][r] > 0
  PROVE  /\ Advance(s, n, r) \in [Stage -> [Row -> Nat]]
         /\ \A p \in Stage, q \in Row :
              Advance(s, n, r)[p][q] =
                IF p = s /\ q = r THEN inflight[p][q] - 1
                ELSE IF p = n /\ q = r THEN inflight[p][q] + 1
                ELSE inflight[p][q]
<1>1. /\ inflight \in [Stage -> [Row -> Nat]]
      /\ inflight[s][r] - 1 \in Nat /\ inflight[n][r] + 1 \in Nat
  BY DEF TypeOK
<1>2. /\ [inflight[s] EXCEPT ![r] = @ - 1] \in [Row -> Nat]
      /\ [inflight[n] EXCEPT ![r] = @ + 1] \in [Row -> Nat]
  BY <1>1
<1> QED
  BY <1>1, <1>2 DEF Advance

LEMMA LookO ==
  ASSUME OInv, NEW r \in Row, Look(r)
  PROVE  OInv'
<1>1. /\ inflight["look"][r] > 0 /\ TypeOK
      /\ UNCHANGED <<committed, ahead, stamped, published, tick, log, mails,
                     overlaps, failures>>
  BY DEF Look, table, history, budget, OInv
<1>2. "look" \in Stage /\ "send" \in Stage \ {"look"} /\ "mark" \in Stage
  BY DEF Stage
<1>3. CASE inflight' = Leave("look", r)
  <2>1. /\ inflight' \in [Stage -> [Row -> Nat]]
        /\ \A q \in Row :
             /\ inflight'["look"][q] = (IF q = r THEN inflight["look"][q] - 1
                                                 ELSE inflight["look"][q])
             /\ inflight'["send"][q] = inflight["send"][q]
             /\ inflight'["mark"][q] = inflight["mark"][q]
    BY <1>1, <1>2, <1>3, Leaves
  <2>2. \A q \in Row : Sent(q)' <= Sent(q)
    BY <1>1, <2>1, Counts DEF Sent
  <2> QED
    BY <1>1, <2>1, <2>2, Counts, HandlerStep
    DEF OInv, TypeOK, HandlersOk, NothingFabricated
<1>4. CASE inflight' = Advance("look", "send", r)
  <2>1. /\ inflight' \in [Stage -> [Row -> Nat]]
        /\ \A q \in Row :
             /\ inflight'["look"][q] = (IF q = r THEN inflight["look"][q] - 1
                                                 ELSE inflight["look"][q])
             /\ inflight'["send"][q] = (IF q = r THEN inflight["send"][q] + 1
                                                 ELSE inflight["send"][q])
             /\ inflight'["mark"][q] = inflight["mark"][q]
    BY <1>1, <1>2, <1>4, Advances
  <2>2. \A q \in Row : Sent(q)' <= Sent(q)
    BY <1>1, <2>1, Counts DEF Sent
  <2> QED
    BY <1>1, <2>1, <2>2, Counts, HandlerStep
    DEF OInv, TypeOK, HandlersOk, NothingFabricated
<1> QED
  BY <1>3, <1>4 DEF Look

LEMMA SendO ==
  ASSUME OInv, NEW r \in Row, Send(r)
  PROVE  OInv'
<1>1. /\ inflight["send"][r] > 0 /\ TypeOK
      /\ mails' = [mails EXCEPT ![r] = @ + 1]
      /\ UNCHANGED <<committed, ahead, stamped, published, tick, log,
                     overlaps, failures>>
  BY DEF Send, table, history, budget, OInv
<1>2. "send" \in Stage /\ "mark" \in Stage \ {"send"} /\ "look" \in Stage
  BY DEF Stage
<1>3. /\ inflight' \in [Stage -> [Row -> Nat]]
      /\ \A q \in Row :
           /\ inflight'["look"][q] = inflight["look"][q]
           /\ inflight'["send"][q] = (IF q = r THEN inflight["send"][q] - 1
                                               ELSE inflight["send"][q])
           /\ inflight'["mark"][q] = (IF q = r THEN inflight["mark"][q] + 1
                                               ELSE inflight["mark"][q])
  BY <1>1, <1>2, Advances DEF Send
<1>4. mails' \in [Row -> Nat]
        /\ \A q \in Row : mails'[q] = IF q = r THEN mails[q] + 1 ELSE mails[q]
  BY <1>1 DEF TypeOK
<1>5. \A q \in Row : Sent(q)' <= Sent(q)
  BY <1>1, <1>3, <1>4, Counts DEF Sent
<1> QED
  BY <1>1, <1>3, <1>4, <1>5, Counts, HandlerStep
  DEF OInv, TypeOK, HandlersOk, NothingFabricated

LEMMA MarkO ==
  ASSUME OInv, NEW r \in Row, Mark(r)
  PROVE  OInv'
<1>1. /\ inflight["mark"][r] > 0 /\ TypeOK /\ log' = log \cup {r}
      /\ UNCHANGED <<committed, ahead, stamped, published, tick, mails,
                     overlaps, failures>>
  BY DEF Mark, table, history, budget, OInv
<1>2. "send" \in Stage /\ "mark" \in Stage /\ "look" \in Stage
  BY DEF Stage
<1>3. /\ inflight' \in [Stage -> [Row -> Nat]]
      /\ \A q \in Row :
           /\ inflight'["look"][q] = inflight["look"][q]
           /\ inflight'["send"][q] = inflight["send"][q]
           /\ inflight'["mark"][q] = (IF q = r THEN inflight["mark"][q] - 1
                                               ELSE inflight["mark"][q])
  BY <1>1, <1>2, Leaves DEF Mark
<1> QED
  BY <1>1, <1>3, Counts, HandlerStep
  DEF Sent, OInv, TypeOK, HandlersOk, NothingFabricated

----------------------------------------------------------------------------
(* Every step *)

LEMMA NextO == OInv /\ [Next]_vars => OInv'
<1> SUFFICES ASSUME OInv, [Next]_vars PROVE OInv'
  OBVIOUS
<1>1. ASSUME NEW r \in Row, Enqueue(r) PROVE OInv'
  BY <1>1, EnqueueO
<1>2. ASSUME NEW r \in Row, Handle(r) PROVE OInv'
  BY <1>2, LookO, SendO, MarkO DEF Handle
<1>3. ASSUME NEW r \in Row, NEW s \in Stage, HandlerFails(s, r) PROVE OInv'
  BY <1>3, HandlerFailsO
<1>4. ASSUME NEW t \in Tick, Relay(t) PROVE OInv'
  BY <1>4, StartTickO, PublishO, StampO DEF Relay
<1>5. ASSUME NEW t \in Tick, StampFails(t) PROVE OInv'
  BY <1>5, StampFailsO
<1>6. CASE Crash
  BY <1>6, CrashO
<1>7. CASE UNCHANGED vars
  <2>1. UNCHANGED <<committed, ahead, stamped, published, tick, inflight, log,
                    mails, overlaps, failures>>
    BY <1>7 DEF vars
  <2> QED
    BY <2>1
    DEF OInv, TypeOK, TickOk, Ahead, BatchClosed, HandlersOk, NothingFabricated,
        PublishedInOrder, Explained, Sent, Owing, Claimed
<1> QED
  BY <1>1, <1>2, <1>3, <1>4, <1>5, <1>6, <1>7 DEF Next, Drained

LEMMA InvO == Spec => []OInv
  BY InitO, NextO, PTL DEF Spec

(* Rows, ticks, handlers and counters keep their types, and nothing is     *)
(* stamped or published that is not in the table.                          *)
THEOREM OutboxIsTyped == Spec => []TypeOK
<1>1. OInv => TypeOK
  BY DEF OInv
<1> QED
  BY <1>1, InvO, PTL

(* However ticks overlap, fail and die: what is stamped was published, what
   the log claims was sent, what was sent was published.                   *)
THEOREM NothingIsFabricated == Spec => []NothingFabricated
<1>1. OInv => NothingFabricated
  BY DEF OInv
<1> QED
  BY <1>1, InvO, PTL

(* A row reaches the bus after every earlier row that was in the table     *)
(* when it came, for any batch size and any number of ticks and crashes.   *)
THEOREM RowsArePublishedInOrder == Spec => []PublishedInOrder
<1>1. OInv => PublishedInOrder
  BY DEF OInv
<1> QED
  BY <1>1, InvO, PTL

(* The safety part of ImplementsDelivery: every step of relay, handlers    *)
(* and failures is an event that becomes owed, a mail for one that is, an  *)
(* admitted mishap, or nothing. In particular the n+1st mail of an event   *)
(* goes out only after n failed calls, crashes or overlapping ticks.       *)
THEOREM OutboxDelivers == Spec => D!DeliveryInit /\ [][D!DeliveryNext]_D!dvars
<1>1. Init => D!DeliveryInit
  BY DEF Init, D!DeliveryInit
<1>2. OInv /\ [Next]_vars => [D!DeliveryNext]_D!dvars
  <2> SUFFICES ASSUME OInv, [Next]_vars PROVE [D!DeliveryNext]_D!dvars
    OBVIOUS
  <2>1. ASSUME NEW r \in Row, Enqueue(r) PROVE D!DeliveryNext
    BY <2>1 DEF Enqueue, budget, D!DeliveryNext, D!Owe
  <2>2. ASSUME NEW r \in Row, Send(r) PROVE D!DeliveryNext
    <3>1. r \in committed
      BY <2>2 DEF OInv, HandlersOk, TypeOK, Send
    <3>2. mails[r] <= failures + overlaps
      <4>1. /\ Sent(r) + Cardinality(Owing(r)) <= failures + overlaps + 1
            /\ inflight["send"][r] > 0
        BY <2>2 DEF OInv, Explained, Send
      <4>2. Cardinality(Owing(r)) \in Nat
        BY OwingTicks
      <4> QED
        BY <4>1, <4>2, Counts DEF OInv, Sent
    <3>3. D!Mail(r)
      BY <2>2, <3>1, <3>2 DEF Send, table, budget, D!Mail
    <3> QED
      BY <3>3 DEF D!DeliveryNext
  <2>3. ASSUME NEW r \in Row, Look(r) \/ Mark(r) PROVE UNCHANGED D!dvars
    BY <2>3 DEF Look, Mark, table, budget, D!dvars
  <2>4. ASSUME NEW t \in Tick, StartTick(t) PROVE [D!DeliveryNext]_D!dvars
    BY <2>4 DEF StartTick, CountOverlap, table, D!DeliveryNext, D!Mishap, D!dvars
  <2>5. ASSUME NEW t \in Tick, Publish(t) \/ Stamp(t) PROVE UNCHANGED D!dvars
    BY <2>5 DEF Publish, Stamp, table, budget, D!dvars
  <2>6. ASSUME NEW t \in Tick, StampFails(t) PROVE D!DeliveryNext
    BY <2>6 DEF StampFails, Fails, table, D!DeliveryNext, D!Mishap
  <2>7. ASSUME NEW r \in Row, NEW s \in Stage, HandlerFails(s, r)
        PROVE  D!DeliveryNext
    BY <2>7 DEF HandlerFails, Fails, table, D!DeliveryNext, D!Mishap
  <2>8. CASE Crash
    BY <2>8 DEF Crash, Fails, table, D!DeliveryNext, D!Mishap
  <2>9. CASE UNCHANGED vars
    BY <2>9 DEF vars, D!dvars
  <2> QED
    BY <2>1, <2>2, <2>3, <2>4, <2>5, <2>6, <2>7, <2>8, <2>9
    DEF Next, Drained, Handle, Relay
<1> QED
  BY <1>1, <1>2, InvO, PTL DEF Spec
=============================================================================
