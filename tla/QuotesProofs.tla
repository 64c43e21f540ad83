---------------------------- MODULE QuotesProofs ----------------------------
(***************************************************************************)
(* For every set of rates, lengths and guests: a guest is charged what the *)
(* pay page showed, the frozen price is the all-in one, and no refund is   *)
(* more than the charge.                                                   *)
(***************************************************************************)
EXTENDS Quotes, TLAPS

----------------------------------------------------------------------------
(* The fee *)

(* The fee of a subtotal is the nearest whole number to its tenth. *)
LEMMA FeeIsNearest ==
  ASSUME NEW s \in Nat
  PROVE  ServiceFee(s) \in Nat /\ 10 * ServiceFee(s) - s \in -4..5
  BY SMT DEF ServiceFee

(* The code multiplies by 0.1 in floating point, that is by Tenth / Scale, the
   double nearest to a tenth. *)
Scale == 36028797018963968         \* 2^55
Tenth == 3602879701896397

(* For every subtotal that a 32-bit column can hold, the exact product
   s * Tenth / Scale is at least the fee of Quotes less a half, which is a
   double, so that the rounded product is, too; and it stays a twentieth below
   the fee and a half, far more than a rounding error. Math.round of the
   rounded product in PricingService.quote is therefore the fee. *)
THEOREM DoublesRoundTheFee ==
  ASSUME NEW s \in Nat, s <= 2147483647
  PROVE  /\ 2 * Scale * ServiceFee(s) <= 2 * s * Tenth + Scale
         /\ 2 * s * Tenth + Scale < 2 * Scale * (ServiceFee(s) + 1) - Scale \div 10
<1> DEFINE q == ServiceFee(s)
           r == s - 10 * q
<1>1. q \in Nat /\ r \in -5 .. 4 /\ s = 10 * q + r
  BY SMT DEF ServiceFee
<1>2. q <= 214748365 /\ (r < 0 => q >= 1)
  BY SMT DEF ServiceFee
<1> HIDE DEF q, r
<1>3. 2 * s * Tenth = 2 * q * Scale + 4 * q + 2 * r * Tenth
  BY <1>1, SMT DEF Scale, Tenth
<1>4. /\ 4 * q + 2 * r * Tenth + Scale >= 0
      /\ 4 * q + 2 * r * Tenth + Scale < 2 * Scale - Scale \div 10
  BY <1>1, <1>2, SMT DEF Scale, Tenth
<1>5. 2 * Scale * (q + 1) = 2 * q * Scale + 2 * Scale /\ 2 * Scale * q = 2 * q * Scale
  BY <1>1, SMT DEF Scale
<1>6. /\ 2 * Scale * q <= 2 * s * Tenth + Scale
      /\ 2 * s * Tenth + Scale < 2 * Scale * (q + 1) - Scale \div 10
  BY <1>1, <1>3, <1>4, <1>5, SMT DEF Scale, Tenth
<1> QED
  BY <1>6, SMT DEF q

(* Two stays booked one after the other cost at most one unit more or less
   than the same nights booked at once: rounding gives nobody a way to save. *)
THEOREM SplittingChangesOneUnit ==
  ASSUME NEW s \in Nat, NEW t \in Nat
  PROVE  ServiceFee(s) + ServiceFee(t) - ServiceFee(s + t) \in -1..1
  BY SMT DEF ServiceFee

LEMMA QuoteIsNatural ==
  ASSUME NEW r \in Nat, NEW n \in Nat
  PROVE  /\ r * n \in Nat /\ Quote(r, n) \in Nat
         /\ 10 * (Quote(r, n) - n * r) - n * r \in -4..5
<1>1. r * n \in Nat /\ n * r = r * n
  BY SMT
<1> DEFINE s == r * n
<1>2. s \in Nat
  BY <1>1
<1>3. ServiceFee(s) \in Nat /\ 10 * ServiceFee(s) - s \in -4..5
  BY <1>2, FeeIsNearest
<1>4. Quote(r, n) = s + ServiceFee(s)
  BY DEF Quote, Subtotal
<1> HIDE DEF s
<1>5. s + ServiceFee(s) \in Nat /\ (s + ServiceFee(s)) - s = ServiceFee(s)
  BY <1>2, <1>3
<1>6. n * r = s
  BY <1>1 DEF s
<1> QED
  BY <1>1, <1>2, <1>3, <1>4, <1>5, <1>6

----------------------------------------------------------------------------
(* The amounts of one guest *)

(* What each stage of a visit v has set, and from what. *)
Untouched(v) == v.shown = None /\ v.asked = None /\ v.charged = None /\ v.refund = None

Priced(v) ==
  /\ v.usedRate \in Rates /\ v.nights \in Lengths
  /\ v.price = Quote(v.usedRate, v.nights) /\ v.price \in 0..MaxInt

Stage(v) ==
  \/ v = Fresh
  \/ v.at = "booked" /\ Priced(v) /\ Untouched(v)
  \/ /\ v.at = "paying" /\ Priced(v)
     /\ v.shown = v.price /\ v.asked \in {None, v.price}
     /\ v.charged = None /\ v.refund = None
  \/ /\ v.at = "paid" /\ Priced(v)
     /\ v.shown = v.price /\ v.asked = v.price /\ v.charged = v.price /\ v.refund = None
  \/ /\ v.at = "cancelled" /\ Priced(v)
     /\ v.shown = v.price /\ v.asked = v.price /\ v.charged = v.price
     /\ v.refund \in {v.price, v.price \div 2}

Visits == [at : {"listing", "booked", "paying", "paid", "cancelled"}, nights : Int,
           price : Int, usedRate : Int, shown : Int, asked : Int, charged : Int, refund : Int]

QInv ==
  /\ rate \in Rates /\ changes \in Nat
  /\ visit \in [Guests -> Visits]
  /\ \A g \in Guests : Stage(visit[g])

LEMMA Naturals ==
  /\ \A r \in Rates : r \in Nat
  /\ \A n \in Lengths : n \in Nat
  BY QuotesAssumption DEF QuotesAssumption

LEMMA InitQ == Init => QInv
<1> SUFFICES ASSUME Init PROVE QInv
  OBVIOUS
<1>1. Fresh \in Visits
  BY DEF Fresh, Visits, None
<1>2. visit \in [Guests -> Visits]
  BY <1>1 DEF Init
<1> QED
  BY <1>2 DEF Init, QInv, Stage

(* One guest's visit becomes another that is in some stage. *)
LEMMA BecomeKeeps ==
  ASSUME QInv, NEW g \in Guests, NEW v \in Visits, Stage(v), Become(g, v),
         UNCHANGED <<rate, changes>>
  PROVE  QInv'
<1>1. visit' = [visit EXCEPT ![g] = v]
  BY DEF Become
<1>2. visit' \in [Guests -> Visits]
  BY <1>1 DEF QInv
<1>3. \A h \in Guests : visit'[h] = IF h = g THEN v ELSE visit[h]
  BY <1>1 DEF QInv
<1>4. \A h \in Guests : Stage(visit'[h])
  BY <1>3 DEF QInv
<1> QED
  BY <1>2, <1>4 DEF QInv, Stage, Priced

LEMMA HalfIsNatural ==
  ASSUME NEW p \in Nat
  PROVE  p \div 2 \in Nat /\ p \div 2 <= p
  BY SMT

LEMMA NextQ == QInv /\ [Next]_qVars => QInv'
<1> SUFFICES ASSUME QInv, [Next]_qVars PROVE QInv'
  OBVIOUS
<1>1. ASSUME NEW r \in Rates, SetRate(r) PROVE QInv'
  BY <1>1 DEF QInv, SetRate
<1>2. ASSUME NEW g \in Guests, NEW n \in Lengths, Reserve(g, n) PROVE QInv'
  <2> DEFINE v == Booked(rate, n)
  <2>1. rate \in Nat /\ n \in Nat /\ Quote(rate, n) \in Nat /\ Quote(rate, n) <= MaxInt
    BY <1>2, Naturals, QuoteIsNatural DEF QInv, Reserve
  <2>2. v \in Visits
    BY <2>1 DEF Visits, Booked, None
  <2>3. Stage(v)
    <3>1. Quote(rate, n) \in 0..MaxInt
      BY <2>1, QuotesAssumption DEF QuotesAssumption
    <3> QED
      BY <3>1 DEF Stage, Priced, Untouched, QInv, Booked
  <2>4. Become(g, v) /\ UNCHANGED <<rate, changes>>
    BY <1>2 DEF Reserve
  <2> HIDE DEF v
  <2> QED
    BY <2>2, <2>3, <2>4, BecomeKeeps
<1>3. ASSUME NEW g \in Guests, OpenPayPage(g) PROVE QInv'
  <2> DEFINE v == [visit[g] EXCEPT !.at = "paying", !.shown = visit[g].price]
  <2>1. visit[g] \in Visits /\ visit[g].at = "booked" /\ Stage(visit[g])
    BY <1>3 DEF QInv, OpenPayPage
  <2>2. Priced(visit[g]) /\ Untouched(visit[g])
    BY <2>1 DEF Stage, Fresh
  <2>3. v \in Visits
    BY <2>1 DEF Visits
  <2>4. Stage(v)
    BY <2>1, <2>2 DEF Stage, Priced, Untouched, Visits
  <2>5. Become(g, v) /\ UNCHANGED <<rate, changes>>
    BY <1>3 DEF OpenPayPage
  <2> HIDE DEF v
  <2> QED
    BY <2>3, <2>4, <2>5, BecomeKeeps
<1>4. ASSUME NEW g \in Guests, CreateIntent(g) PROVE QInv'
  <2> DEFINE v == [visit[g] EXCEPT !.asked = visit[g].price]
  <2>1. visit[g] \in Visits /\ visit[g].at = "paying" /\ Stage(visit[g])
    BY <1>4 DEF QInv, CreateIntent
  <2>2. /\ Priced(visit[g]) /\ visit[g].shown = visit[g].price
        /\ visit[g].charged = None /\ visit[g].refund = None
    BY <2>1 DEF Stage, Fresh
  <2>3. v \in Visits
    BY <2>1 DEF Visits
  <2>4. Stage(v)
    BY <2>1, <2>2 DEF Stage, Priced, Visits
  <2>5. Become(g, v) /\ UNCHANGED <<rate, changes>>
    BY <1>4 DEF CreateIntent
  <2> HIDE DEF v
  <2> QED
    BY <2>3, <2>4, <2>5, BecomeKeeps
<1>5. ASSUME NEW g \in Guests, Pay(g) PROVE QInv'
  <2> DEFINE v == [visit[g] EXCEPT !.at = "paid", !.charged = visit[g].asked]
  <2>1. /\ visit[g] \in Visits /\ visit[g].at = "paying" /\ visit[g].asked # None
        /\ Stage(visit[g])
    BY <1>5 DEF QInv, Pay
  <2>2. /\ Priced(visit[g]) /\ visit[g].shown = visit[g].price
        /\ visit[g].asked = visit[g].price /\ visit[g].refund = None
    BY <2>1 DEF Stage, Fresh
  <2>3. v \in Visits
    BY <2>1 DEF Visits
  <2>4. Stage(v)
    BY <2>1, <2>2 DEF Stage, Priced, Visits
  <2>5. Become(g, v) /\ UNCHANGED <<rate, changes>>
    BY <1>5 DEF Pay
  <2> HIDE DEF v
  <2> QED
    BY <2>3, <2>4, <2>5, BecomeKeeps
<1>6. ASSUME NEW g \in Guests, NEW tier \in {"full", "half"}, Cancel(g, tier) PROVE QInv'
  <2> DEFINE v == [visit[g] EXCEPT !.at = "cancelled", !.refund = RefundOf(visit[g], tier)]
  <2>1. visit[g] \in Visits /\ visit[g].at = "paid" /\ Stage(visit[g])
    BY <1>6 DEF QInv, Cancel
  <2>2. /\ Priced(visit[g]) /\ visit[g].shown = visit[g].price
        /\ visit[g].asked = visit[g].price /\ visit[g].charged = visit[g].price
    BY <2>1 DEF Stage, Fresh
  <2>3. /\ RefundOf(visit[g], tier) \in {visit[g].price, visit[g].price \div 2}
        /\ RefundOf(visit[g], tier) \in Int
    BY <2>2, HalfIsNatural DEF RefundOf, Priced
  <2>4. v \in Visits
    BY <2>1, <2>3 DEF Visits
  <2>5. Stage(v)
    BY <2>1, <2>2, <2>3 DEF Stage, Priced, Visits
  <2>6. Become(g, v) /\ UNCHANGED <<rate, changes>>
    BY <1>6 DEF Cancel
  <2> HIDE DEF v
  <2> QED
    BY <2>4, <2>5, <2>6, BecomeKeeps
<1>7. ASSUME NEW g \in Guests, StartOver(g) PROVE QInv'
  <2>1. Fresh \in Visits /\ Stage(Fresh)
    BY DEF Fresh, Visits, Stage, None
  <2> QED
    BY <1>7, <2>1, BecomeKeeps DEF StartOver
<1>8. CASE UNCHANGED qVars
  BY <1>8 DEF QInv, qVars
<1> QED
  BY <1>1, <1>2, <1>3, <1>4, <1>5, <1>6, <1>7, <1>8 DEF Next, Settled

LEMMA QCorrect == Spec => []QInv
<1>1. Init => QInv
  BY InitQ
<1>2. QInv /\ [Next]_qVars => QInv'
  BY NextQ
<1> QED
  BY <1>1, <1>2, PTL DEF Spec

----------------------------------------------------------------------------
(* Theorems *)

(* Whatever the host does to the rate between the booking, the pay page, the
   intents and the charge, the charge is the total that was shown. *)
THEOREM ChargesAreAsShown == Spec => []ChargedAsShown
<1>1. QInv => ChargedAsShown
  BY DEF QInv, Stage, Fresh, Untouched, ChargedAsShown
<1> QED
  BY <1>1, QCorrect, PTL

(* The price a booking has frozen is within half a unit of nights, rate and a
   tenth, for rates and lengths of any size that the column holds. *)
THEOREM PricesAreAllIn == Spec => []PriceIsAllIn
<1>1. QInv => PriceIsAllIn
  <2> SUFFICES ASSUME QInv, NEW g \in Guests, visit[g].price # None
               PROVE  LET s == visit[g].nights * visit[g].usedRate
                          excess == 10 * (visit[g].price - s) - s
                      IN excess \in -4..5
    BY DEF PriceIsAllIn
  <2>1. Priced(visit[g])
    BY DEF QInv, Stage, Fresh
  <2>2. visit[g].usedRate \in Nat /\ visit[g].nights \in Nat
    <3>1. visit[g].usedRate \in Rates /\ visit[g].nights \in Lengths
      BY <2>1, Zenon DEF Priced
    <3> QED
      BY <3>1, Naturals
  <2> QED
    BY <2>1, <2>2, QuoteIsNatural DEF Priced
<1> QED
  BY <1>1, QCorrect, PTL

(* A refund of either tier is at most the charge. *)
THEOREM RefundsAreWithinCharges == Spec => []RefundWithinCharge
<1>1. QInv => RefundWithinCharge
  <2> SUFFICES ASSUME QInv, NEW g \in Guests, visit[g].refund # None
               PROVE  visit[g].refund <= visit[g].charged
    BY DEF RefundWithinCharge
  <2>1. /\ Priced(visit[g]) /\ visit[g].charged = visit[g].price
        /\ visit[g].refund \in {visit[g].price, visit[g].price \div 2}
    BY DEF QInv, Stage, Fresh, Untouched
  <2>2. visit[g].price \in Nat
    BY <2>1 DEF Priced
  <2> QED
    BY <2>1, <2>2, HalfIsNatural
<1> QED
  BY <1>1, QCorrect, PTL
=============================================================================
