------------------------------- MODULE MCApi -------------------------------
(***************************************************************************)
(* Four requests of the API, for TLC: what a stay costs, what a search     *)
(* answers, who waits for a connection, whom the rate limit turns away.    *)
(* They share no state; a behaviour is one of them, and one run checks all.*)
(***************************************************************************)
EXTENDS Quotes, Sequences, TLC

CONSTANTS
  Creates, Others, Conns,
  Visitors, Address, Tasks, Limit, Window,
  Listing, Drafts, Places, Hits, Searches, Addresses, Ranges, Windows, MaxWrites

VARIABLES
  subject,                          \* the one this behaviour is about
  at, left, open, held,
  hits, blocked, served, shown,
  row, blocks, tab, hint, writes

Pool == INSTANCE ConnectionPool
Guard == INSTANCE Throttle
Search == INSTANCE Catalog

ASSUME ApiAssumptions ==
  Pool!PoolAssumption /\ Guard!ThrottleAssumption /\ Search!CatalogAssumption

pool == <<at, left, open, held>>
guard == <<hits, blocked, served, shown>>
search == <<row, blocks, tab, hint, writes>>
apiVars == <<subject, rate, visit, changes, pool, guard, search>>
-----------------------------------------------------------------------------
(* The instances: one web server in front of the API; two listings, "Bay"  *)
(* is part of "Bayside"; blocks that touch a stay and cover it.             *)
WebServer == [v \in Visitors |-> "web"]

MCHits == "bay" :> {"Bay", "Bayside"} @@ "bayside" :> {"Bayside"}
Draft(p, c, price, images) ==
  [place |-> p, capacity |-> c, price |-> price, title |-> 1, images |-> images]
MCDrafts == {Draft("Bay", 1, 2, <<"url">>), Draft("Bayside", 2, 1, <<"url", "text">>)}
Form(p, g, d) == [place |-> p, guests |-> g, dates |-> d]
Typed == {Form("bay", 2, "range")}
Visited == {Form("bayside", -1, "unset")}
Stays == {<<0, 2>>, <<2, 3>>}
Asked == Stays \cup {<<1, 1>>}
-----------------------------------------------------------------------------
ApiInit ==
  /\ subject \in {"price", "search", "pool", "limit"}
  /\ Init /\ Pool!Init /\ Guard!Init /\ Search!Init
  /\ subject # "price" => rate = CHOOSE r \in Rates : TRUE

OfPrice == subject = "price" /\ Next /\ UNCHANGED <<subject, pool, guard, search>>

OfPool ==
  /\ subject = "pool" /\ Pool!Next
  /\ UNCHANGED <<subject, rate, visit, changes, guard, search>>

OfLimit ==
  /\ subject = "limit" /\ Guard!Next
  /\ UNCHANGED <<subject, rate, visit, changes, pool, search>>

OfSearch ==
  /\ subject = "search" /\ Search!Next
  /\ UNCHANGED <<subject, rate, visit, changes, pool, guard>>

ApiNext == OfPrice \/ OfPool \/ OfLimit \/ OfSearch

(* Nobody asks in the other behaviours, so the pool's fairness is idle.    *)
ApiSpec == ApiInit /\ [][ApiNext]_apiVars /\ Pool!Fairness
-----------------------------------------------------------------------------
(* The cards of a search are the published listings that fit it, and a     *)
(* card of a listing that was withdrawn since leads nowhere.               *)
AnswersTheGuest == Search!AnswersTheGuest /\ Search!WithdrawnIsMissing

(* The hint says available exactly if no night of the stay was blocked.    *)
HintTellsNights == Search!HintTellsNights

(* The two limits of the process: the pool is never overdrawn and nothing  *)
(* is held by who has ended, and a window serves an address no more than   *)
(* the limit of every task.                                                *)
LimitsHold == Pool!Accounted /\ Guard!WithinLimits

(* Creates that wait for one another all end.                              *)
EveryRequestEnds == Pool!EveryRequestEnds
-----------------------------------------------------------------------------
(* What comments say of the search and of the limit, and the code does not *)
(* do: no configuration checks these, the README has what TLC shows.       *)
StableOrder == Search!StableOrder
BadParamAlone == Search!BadParamAlone
FormReflectsSearch == Search!FormReflectsSearch
PayloadConforms == Search!PayloadConforms
HintIsOverlap == Search!HintIsOverlap
PerClient == Guard!PerClient
=============================================================================
