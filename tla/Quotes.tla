------------------------------- MODULE Quotes -------------------------------
(***************************************************************************)
(* What a stay costs, from the listing's rate to the guest's card and      *)
(* back: the quote that a booking freezes, the amounts of the pay page, of *)
(* the intents and of the refund, while the host changes the rate.         *)
(* Amounts are minor units; the columns that hold them are 32-bit          *)
(* integers, MaxInt here.                                                  *)
(***************************************************************************)
EXTENDS Integers

CONSTANTS Guests, Rates, Lengths, \* rates a host may set, lengths of stay in nights
          MinCharge,              \* the smallest amount Stripe takes
          MaxInt, MaxRateChanges

ASSUME QuotesAssumption ==
  MaxInt \in Nat /\ Rates \subseteq 0..MaxInt /\ Lengths \subseteq Nat \ {0}

VARIABLES rate, visit, changes
qVars == <<rate, visit, changes>>

None == -1

(* at: where the guest is; nights, price: of the booking, usedRate the rate it
   was quoted from; shown, asked, charged, refund: the amounts of the pay page,
   the intent, the card and the cancellation. *)
Fresh == [at |-> "listing", nights |-> None, price |-> None, usedRate |-> None,
          shown |-> None, asked |-> None, charged |-> None, refund |-> None]

Amounts == 0..MaxInt \cup {None}

TypeOK ==
  /\ rate \in Rates /\ changes \in 0..MaxRateChanges
  /\ \A g \in Guests :
       /\ visit[g].at \in {"listing", "booked", "paying", "paid", "cancelled"}
       /\ visit[g].usedRate \in Rates \cup {None}
       /\ visit[g].nights \in Lengths \cup {None}
       /\ {visit[g].price, visit[g].shown, visit[g].asked, visit[g].charged, visit[g].refund}
            \subseteq Amounts

Init ==
  /\ rate \in Rates
  /\ visit = [g \in Guests |-> Fresh]
  /\ changes = 0

----------------------------------------------------------------------------
Subtotal(r, n) == r * n

(* Mutant of ServiceFee: rounded down. *)
ServiceFeeFloor(s) == s \div 10

(* Math.round(subtotal * 0.1): to the nearest unit, halves up. *)
ServiceFee(s) == (s + 5) \div 10

(* PricingService.quote *)
Quote(r, n) == Subtotal(r, n) + ServiceFee(Subtotal(r, n))

Become(g, v) == visit' = [visit EXCEPT ![g] = v]

SetRate(r) ==
  /\ changes < MaxRateChanges /\ r # rate
  /\ rate' = r /\ changes' = changes + 1
  /\ UNCHANGED visit

Booked(r, n) ==
  [at |-> "booked", nights |-> n, price |-> Quote(r, n), usedRate |-> r,
   shown |-> None, asked |-> None, charged |-> None, refund |-> None]

(* POST /bookings: the rate of now, whatever the widget showed, with the
   fee its indicative total leaves out.  A price beyond the column fails
   the insert, and nothing is stored. *)
Reserve(g, n) ==
  /\ visit[g].at = "listing"
  /\ Quote(rate, n) <= MaxInt
  /\ Become(g, Booked(rate, n))
  /\ UNCHANGED <<rate, changes>>

(* The pay page is rendered from the booking; its panel asks for an intent
   later, at each mount and each retry. *)
OpenPayPage(g) ==
  /\ visit[g].at = "booked"
  /\ Become(g, [visit[g] EXCEPT !.at = "paying", !.shown = visit[g].price])
  /\ UNCHANGED <<rate, changes>>

(* Mutant of CreateIntent: the amount is quoted again. *)
CreateIntentQuoting(g) ==
  /\ visit[g].at = "paying"
  /\ Quote(rate, visit[g].nights) <= MaxInt
  /\ Become(g, [visit[g] EXCEPT !.asked = Quote(rate, visit[g].nights)])
  /\ UNCHANGED <<rate, changes>>

(* Below Stripe's minimum the call fails and the page has no form to pay. *)
CreateIntent(g) ==
  /\ visit[g].at = "paying"
  /\ visit[g].price >= MinCharge
  /\ Become(g, [visit[g] EXCEPT !.asked = visit[g].price])
  /\ UNCHANGED <<rate, changes>>

(* The card is charged what the intent asks for. *)
Pay(g) ==
  /\ visit[g].at = "paying" /\ visit[g].asked # None
  /\ Become(g, [visit[g] EXCEPT !.at = "paid", !.charged = visit[g].asked])
  /\ UNCHANGED <<rate, changes>>

(* The two tiers with a refund, of the frozen price. *)
RefundOf(v, tier) == IF tier = "full" THEN v.price ELSE v.price \div 2

Cancel(g, tier) ==
  /\ visit[g].at = "paid"
  /\ Become(g, [visit[g] EXCEPT !.at = "cancelled", !.refund = RefundOf(visit[g], tier)])
  /\ UNCHANGED <<rate, changes>>

(* The guest goes on to another stay. *)
StartOver(g) ==
  /\ visit[g].at \in {"booked", "paying", "cancelled"}
  /\ Become(g, Fresh)
  /\ UNCHANGED <<rate, changes>>

(* Every guest has paid and keeps the stay. *)
Settled == (\A g \in Guests : visit[g].at = "paid") /\ UNCHANGED qVars

Next ==
  \/ \E r \in Rates : SetRate(r)
  \/ \E g \in Guests :
       \/ OpenPayPage(g) \/ CreateIntent(g) \/ Pay(g) \/ StartOver(g)
       \/ \E n \in Lengths : Reserve(g, n)
       \/ \E tier \in {"full", "half"} : Cancel(g, tier)
  \/ Settled

Spec == Init /\ [][Next]_qVars

----------------------------------------------------------------------------
(* Properties *)

(* The frozen price is all-in and exact at every rate, also at the edge of
   the column: the nights at the rate of the booking's moment and a tenth of
   them, no further than half a unit from it. *)
PriceIsAllIn ==
  \A g \in Guests : visit[g].price # None =>
    LET s == visit[g].nights * visit[g].usedRate
        excess == 10 * (visit[g].price - s) - s
    IN excess \in -4..5

(* A guest is charged the total the pay page showed, however often the rate
   changes and the intent is created again in between. *)
ChargedAsShown ==
  \A g \in Guests : visit[g].charged # None => visit[g].charged = visit[g].shown

(* No refund exceeds what was charged. *)
RefundWithinCharge ==
  \A g \in Guests : visit[g].refund # None => visit[g].refund <= visit[g].charged
=============================================================================
