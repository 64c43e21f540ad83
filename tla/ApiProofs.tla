----------------------------- MODULE ApiProofs -----------------------------
(***************************************************************************)
(* What the API's four requests of MCApi keep to, for any number of        *)
(* listings, requests, connections, visitors and tasks. Each has its own   *)
(* invariant, and whichever a behaviour is about, its steps are steps of   *)
(* its module.                                                             *)
(***************************************************************************)
EXTENDS MCApi, FiniteSetTheorems, TLAPS

-----------------------------------------------------------------------------
LEMMA InitOfApi == ApiInit => Pool!Init /\ Guard!Init /\ Search!Init
  BY DEF ApiInit

LEMMA StepOfApi ==
  ASSUME [ApiNext]_apiVars
  PROVE  /\ [Pool!Next]_(Pool!vars) /\ [Guard!Next]_(Guard!vars)
         /\ [Search!Next]_(Search!cVars)
  BY DEF ApiNext, OfPrice, OfPool, OfLimit, OfSearch, apiVars, pool, guard, search,
     Pool!vars, Guard!vars, Search!cVars

(* A behaviour of the four is one of the quotes' own, which may stand
   still: what QuotesProofs shows of every price and refund holds here. *)
THEOREM QuotesAreKept == ApiSpec => Spec
<1>1. ApiInit => Init
  BY DEF ApiInit
<1>2. [ApiNext]_apiVars => [Next]_qVars
  BY DEF ApiNext, OfPrice, OfPool, OfLimit, OfSearch, apiVars, qVars
<1> QED
  BY <1>1, <1>2, PTL DEF ApiSpec, Spec

(* What an instance counts is what the library's theorems speak of. *)
LEMMA SameCount ==
  ASSUME NEW S
  PROVE  /\ Search!Cardinality(S) = Cardinality(S)
         /\ Pool!Cardinality(S) = Cardinality(S)
         /\ Guard!Cardinality(S) = Cardinality(S)
<1>1. Search!Cardinality(S) = Cardinality(S)
  BY DEF Search!Cardinality, Cardinality
<1>2. Pool!Cardinality(S) = Cardinality(S)
  BY DEF Pool!Cardinality, Cardinality
<1>3. Guard!Cardinality(S) = Cardinality(S)
  BY DEF Guard!Cardinality, Cardinality
<1> QED
  BY <1>1, <1>2, <1>3

LEMMA SameFinite ==
  ASSUME NEW S
  PROVE  /\ Search!IsFiniteSet(S) <=> IsFiniteSet(S)
         /\ Pool!IsFiniteSet(S) <=> IsFiniteSet(S)
         /\ Guard!IsFiniteSet(S) <=> IsFiniteSet(S)
<1>1. Search!IsFiniteSet(S) <=> IsFiniteSet(S)
  BY DEF Search!IsFiniteSet, IsFiniteSet
<1>2. Pool!IsFiniteSet(S) <=> IsFiniteSet(S)
  BY DEF Pool!IsFiniteSet, IsFiniteSet
<1>3. Guard!IsFiniteSet(S) <=> IsFiniteSet(S)
  BY DEF Guard!IsFiniteSet, IsFiniteSet
<1> QED
  BY <1>1, <1>2, <1>3

-----------------------------------------------------------------------------
(* The search and the hint. *)

TabFields ==
  {"form", "url", "past", "asked", "page", "shown", "opened", "errors", "typed"}
RowFields == {"place", "capacity", "price", "title", "images", "status"}

(* The address of a tab says what was asked for; what is shown of a listing
   comes from a row that a host has saved. *)
AddressIsAsked == DOMAIN tab = TabFields /\ tab.url = tab.asked

RowsAreSaved ==
  /\ DOMAIN row = Listing
  /\ \A l \in Listing :
       row[l] # Search!NoRow => DOMAIN row[l] = RowFields /\ row[l].capacity \in Nat

HintIsComputed ==
  /\ blocks \in [Listing -> SUBSET Ranges]
  /\ hint.known =>
       /\ hint.range \in Windows /\ hint.blocked \subseteq Ranges
       /\ hint.available <=>
            ~ \E b \in hint.blocked : b[1] < hint.range[2] /\ b[2] > hint.range[1]

SearchInv == AddressIsAsked /\ RowsAreSaved /\ HintIsComputed

LEMMA SearchInit == Search!Init => SearchInv
<1> SUFFICES ASSUME Search!Init PROVE SearchInv
  OBVIOUS
<1>1. AddressIsAsked
  BY DEF Search!Init, AddressIsAsked, TabFields
<1>2. RowsAreSaved
  BY DEF Search!Init, RowsAreSaved
<1>3. HintIsComputed
  BY DEF Search!Init, HintIsComputed
<1> QED
  BY <1>1, <1>2, <1>3 DEF SearchInv

LEMMA HostsWrite ==
  ASSUME SearchInv, NEW l \in Listing,
         \/ \E d \in Drafts : Search!Save(l, d)
         \/ Search!Toggle(l)
         \/ \E r \in Ranges : Search!Block(l, r)
  PROVE  SearchInv' /\ UNCHANGED tab
<1>1. CASE \E d \in Drafts : Search!Save(l, d)
  <2> PICK d \in Drafts : Search!Save(l, d)
    BY <1>1
  <2>a. PICK status :
          row' = [row EXCEPT ![l] =
                    [place |-> d.place, capacity |-> d.capacity, price |-> d.price,
                     title |-> d.title, images |-> d.images, status |-> status]]
    BY DEF Search!Save
  <2>b. PICK saved :
          saved = [place |-> d.place, capacity |-> d.capacity, price |-> d.price,
                   title |-> d.title, images |-> d.images, status |-> status]
    OBVIOUS
  <2>1. /\ row' = [row EXCEPT ![l] = saved]
        /\ DOMAIN saved = RowFields /\ saved.capacity = d.capacity
    BY <2>a, <2>b DEF RowFields
  <2>2. d.capacity \in Nat
    BY ApiAssumptions DEF Search!CatalogAssumption
  <2>3. RowsAreSaved'
    BY <2>1, <2>2 DEF SearchInv, RowsAreSaved, Search!NoRow
  <2> QED
    BY <2>3 DEF Search!Save, SearchInv, AddressIsAsked, HintIsComputed
<1>2. CASE Search!Toggle(l)
  <2>1. PICK status : row' = [row EXCEPT ![l] = [row[l] EXCEPT !.status = status]]
    BY <1>2 DEF Search!Toggle
  <2>2. DOMAIN row[l] = RowFields /\ row[l].capacity \in Nat
    BY <1>2 DEF Search!Toggle, SearchInv, RowsAreSaved
  <2>3. PICK saved : saved = [row[l] EXCEPT !.status = status]
    OBVIOUS
  <2>4. DOMAIN saved = RowFields /\ saved.capacity \in Nat
    BY <2>2, <2>3 DEF RowFields
  <2>5. RowsAreSaved'
    BY <2>1, <2>3, <2>4 DEF SearchInv, RowsAreSaved, Search!NoRow
  <2> QED
    BY <1>2, <2>5 DEF Search!Toggle, SearchInv, AddressIsAsked, HintIsComputed
<1>3. CASE \E r \in Ranges : Search!Block(l, r)
  BY <1>3 DEF Search!Block, SearchInv, AddressIsAsked, HintIsComputed, RowsAreSaved
<1> QED
  BY <1>1, <1>2, <1>3

(* A step of the tab other than the arrival of the cards and of the detail. *)
TabStep ==
  \/ \E f \in Searches : Search!Type(f)
  \/ Search!Submit \/ Search!Clear \/ Search!Back \/ Search!Reload
  \/ \E u \in Addresses : Search!Open(u)
  \/ Search!LoadFails
  \/ \E i \in 1 .. Cardinality(Listing) : Search!OpenCard(i)

(* Every way to another address says what is asked for there. *)
LEMMA Navigates ==
  ASSUME DOMAIN tab = TabFields, NEW url
  PROVE  LET t == Search!Navigate(url, url)
         IN  DOMAIN t = TabFields /\ t.url = t.asked /\ t.page = "loading"
  BY DEF Search!Navigate, TabFields

LEMMA TabMoves ==
  ASSUME SearchInv, TabStep
  PROVE  /\ AddressIsAsked' /\ UNCHANGED <<row, blocks, hint>>
         /\ tab.page = "loading" => tab'.page # "cards"
         /\ tab.page = "opening" => tab'.page \notin {"detail", "failed"}
<1> USE DEF TabStep, SearchInv, AddressIsAsked
<1>1. CASE \E f \in Searches : Search!Type(f)
  BY <1>1 DEF Search!Type, TabFields, Search!OnResults
<1>2. CASE Search!Submit
  <2>1. CASE tab' = [tab EXCEPT !.errors = TRUE]
    BY <1>2, <2>1 DEF Search!Submit, TabFields, Search!OnResults
  <2>2. CASE tab' = Search!Navigate(tab.form, tab.form)
    BY <1>2, <2>2, Navigates DEF Search!Submit, Search!OnResults
  <2> QED
    BY <1>2, <2>1, <2>2 DEF Search!Submit, Search!Pushed
<1>3. CASE Search!Clear
  <2> PICK t : t = Search!Navigate(Search!Blank, Search!Blank)
    OBVIOUS
  <2>1. DOMAIN t = TabFields /\ t.url = t.asked /\ t.page = "loading"
    BY Navigates
  <2>2. tab' = [t EXCEPT !.form = Search!Blank]
    BY <1>3 DEF Search!Clear
  <2> QED
    BY <1>3, <2>1, <2>2 DEF Search!Clear, TabFields
<1>4. CASE Search!Back
  BY <1>4, Navigates DEF Search!Back
<1>5. CASE Search!Reload
  BY <1>5 DEF Search!Reload, TabFields
<1>6. CASE \E u \in Addresses : Search!Open(u)
  <2> PICK u \in Addresses : Search!Open(u)
    BY <1>6
  <2> PICK t : t = Search!Navigate(u, u)
    OBVIOUS
  <2>1. DOMAIN t = TabFields /\ t.url = t.asked /\ t.page = "loading"
    BY Navigates
  <2>2. tab' = [t EXCEPT !.form = u, !.past = u]
    BY DEF Search!Open
  <2> QED
    BY <2>1, <2>2 DEF Search!Open, TabFields
<1>7. CASE Search!LoadFails
  BY <1>7 DEF Search!LoadFails, TabFields
<1>8. CASE \E i \in 1 .. Cardinality(Listing) : Search!OpenCard(i)
  BY <1>8 DEF Search!OpenCard, TabFields
<1> QED
  BY <1>1, <1>2, <1>3, <1>4, <1>5, <1>6, <1>7, <1>8

LEMMA SearchIsServed ==
  ASSUME SearchInv,
         \/ Search!Load \/ Search!LoadDetail
         \/ \E l \in Listing, r \in Windows : Search!AskHint(l, r)
  PROVE  SearchInv'
<1>1. CASE Search!Load
  <2> PICK s : tab' = IF \A i \in DOMAIN s : Search!SummaryParses(s[i])
                        THEN [tab EXCEPT !.page = "cards", !.shown = s]
                        ELSE [tab EXCEPT !.page = "failed", !.shown = <<>>]
    BY <1>1 DEF Search!Load
  <2>1. AddressIsAsked'
    BY DEF SearchInv, AddressIsAsked, TabFields
  <2> QED
    BY <1>1, <2>1 DEF SearchInv, RowsAreSaved, HintIsComputed, Search!Load
<1>2. CASE Search!LoadDetail
  <2>1. AddressIsAsked'
    BY <1>2 DEF Search!LoadDetail, SearchInv, AddressIsAsked, TabFields
  <2> QED
    BY <1>2, <2>1 DEF SearchInv, RowsAreSaved, HintIsComputed, Search!LoadDetail
<1>3. CASE \E l \in Listing, r \in Windows : Search!AskHint(l, r)
  <2> PICK l \in Listing, r \in Windows : Search!AskHint(l, r)
    BY <1>3
  <2>1. hint' = [known |-> TRUE, id |-> l, range |-> r, blocked |-> blocks[l],
                 available |-> Search!LooksBookable(l, r)]
    BY DEF Search!AskHint
  <2>2. /\ hint'.range = r /\ hint'.blocked = blocks[l]
        /\ hint'.available <=> ~ \E b \in blocks[l] : b[1] < r[2] /\ b[2] > r[1]
    BY <2>1 DEF Search!LooksBookable
  <2>3. HintIsComputed'
    BY <2>2 DEF Search!AskHint, SearchInv, HintIsComputed
  <2> QED
    BY <2>3 DEF SearchInv, AddressIsAsked, RowsAreSaved, Search!AskHint
<1> QED
  BY <1>1, <1>2, <1>3

LEMMA SearchStep == SearchInv /\ [Search!Next]_(Search!cVars) => SearchInv'
<1> SUFFICES ASSUME SearchInv, [Search!Next]_(Search!cVars) PROVE SearchInv'
  OBVIOUS
<1>1. CASE UNCHANGED Search!cVars
  BY <1>1 DEF Search!cVars, SearchInv, AddressIsAsked, RowsAreSaved, HintIsComputed
<1>2. CASE TabStep
  BY <1>2, TabMoves DEF SearchInv, RowsAreSaved, HintIsComputed
<1>3. ASSUME NEW l \in Listing,
             \/ \E d \in Drafts : Search!Save(l, d)
             \/ Search!Toggle(l)
             \/ \E r \in Ranges : Search!Block(l, r)
      PROVE  SearchInv'
  BY <1>3, HostsWrite
<1>4. ASSUME NEW l \in Listing, NEW r \in Windows, Search!AskHint(l, r) PROVE SearchInv'
  BY <1>4, SearchIsServed
<1>5. CASE Search!Load \/ Search!LoadDetail
  BY <1>5, SearchIsServed
<1> QED
  BY <1>1, <1>2, <1>3, <1>4, <1>5, SameCount DEF Search!Next, TabStep

LEMMA SearchHolds == ApiSpec => []SearchInv
<1>1. ApiInit => SearchInv
  BY InitOfApi, SearchInit
<1>2. SearchInv /\ [ApiNext]_apiVars => SearchInv'
  BY StepOfApi, SearchStep
<1> QED
  BY <1>1, <1>2, PTL DEF ApiSpec

(* Two stays have a night in common if each begins before the other ends. *)
LEMMA SharedNight ==
  ASSUME NEW r, NEW b, r[1] \in Int, r[2] \in Int, r[1] < r[2],
         b[1] \in Int, b[2] \in Int, b[1] < b[2]
  PROVE  Search!Nights(r) \cap Search!Nights(b) # {} <=> b[1] < r[2] /\ b[2] > r[1]
<1>1. \A n : n \in Search!Nights(r) \cap Search!Nights(b)
               <=> n \in Int /\ r[1] <= n /\ n < r[2] /\ b[1] <= n /\ n < b[2]
  BY DEF Search!Nights
<1>2. ASSUME b[1] < r[2], b[2] > r[1]
      PROVE  Search!Nights(r) \cap Search!Nights(b) # {}
  <2>1. CASE r[1] <= b[1]
    <3>1. b[1] \in Search!Nights(r) \cap Search!Nights(b)
      BY <1>1, <1>2, <2>1
    <3> QED
      BY <3>1
  <2>2. CASE b[1] < r[1]
    <3>1. r[1] \in Search!Nights(r) \cap Search!Nights(b)
      BY <1>1, <1>2, <2>2
    <3> QED
      BY <3>1
  <2> QED
    BY <2>1, <2>2
<1> QED
  BY <1>1, <1>2

(* HintTellsNights: the hint says available exactly if no night of the stay
   was blocked, for any listings, blocks and stays asked about. *)
THEOREM HintsTellNights == ApiSpec => []HintTellsNights
<1>1. SearchInv => HintTellsNights
  <2> SUFFICES ASSUME SearchInv, hint.known, hint.range[1] < hint.range[2]
               PROVE  hint.available <=> Search!NoneBlocked
    BY DEF HintTellsNights, Search!HintTellsNights
  <2>1. /\ hint.range[1] \in Int /\ hint.range[2] \in Int
        /\ \A b \in hint.blocked : b[1] \in Int /\ b[2] \in Int /\ b[1] < b[2]
    BY ApiAssumptions DEF SearchInv, HintIsComputed, Search!CatalogAssumption
  <2>2. Search!NoneBlocked <=>
          \A b \in hint.blocked : Search!Nights(hint.range) \cap Search!Nights(b) = {}
    BY DEF Search!NoneBlocked
  <2>3. ASSUME NEW b \in hint.blocked
        PROVE  Search!Nights(hint.range) \cap Search!Nights(b) # {}
                 <=> b[1] < hint.range[2] /\ b[2] > hint.range[1]
    BY <2>1, SharedNight
  <2> QED
    BY <2>2, <2>3 DEF SearchInv, HintIsComputed
<1> QED
  BY <1>1, SearchHolds, PTL

(* An arrangement of a finite set has all of its elements. *)
LEMMA ArrangedIsAll ==
  ASSUME NEW S, IsFiniteSet(S), NEW s \in Search!SetToSeqs(S)
  PROVE  {s[i] : i \in DOMAIN s} = S
<1>1. PICK n : n = Cardinality(S)
  OBVIOUS
<1>2. /\ s \in [1 .. n -> S]
      /\ \A i, j \in 1 .. n : i # j => s[i] # s[j]
  BY <1>1, SameCount DEF Search!SetToSeqs
<1>3. n \in Nat /\ IsFiniteSet(1 .. n) /\ Cardinality(1 .. n) = n
  BY <1>1, FS_CardinalityType, FS_Interval
<1>4. s \in Injection(1 .. n, S)
  BY <1>2 DEF Injection, IsInjective
<1>5. s \in Surjection(1 .. n, S)
  BY <1>1, <1>3, <1>4, FS_Injection
<1> QED
  BY <1>2, <1>5 DEF Surjection

LEMMA CardsAnswer ==
  ASSUME SearchInv, Search!Load, tab'.page = "cards", ~Search!Invalid(tab.asked)
  PROVE  {tab'.shown[i].id : i \in DOMAIN tab'.shown} =
           {l \in Listing : /\ row[l].status = "Published"
                            /\ Search!Fits(tab.asked, Search!Card(l))
                            /\ row[l].capacity >= tab.asked.guests}
<1> DEFINE q == tab.asked
           Found == Search!Matches(q)
           Cards == {Search!Card(l) : l \in Found}
<1>1. Search!ParseSearchParams(tab.url) = q
  BY DEF SearchInv, AddressIsAsked, Search!ParseSearchParams, Search!Invalid
<1>2. PICK s \in Search!SetToSeqs(Cards) : tab'.shown = s
  <2>1. PICK s \in Search!Search(q) :
          tab' = IF \A i \in DOMAIN s : Search!SummaryParses(s[i])
                   THEN [tab EXCEPT !.page = "cards", !.shown = s]
                   ELSE [tab EXCEPT !.page = "failed", !.shown = <<>>]
    BY <1>1 DEF Search!Load
  <2>2. tab'.shown = s
    BY <2>1 DEF SearchInv, AddressIsAsked, TabFields
  <2> QED
    BY <2>2 DEF Search!Search
<1>3. Found = {l \in Listing : /\ row[l].status = "Published"
                               /\ Search!Fits(q, Search!Card(l))
                               /\ row[l].capacity >= q.guests}
  <2> SUFFICES ASSUME NEW l \in Listing, row[l].status = "Published"
               PROVE  /\ q.place # "" => row[l].place \in Hits[q.place]
                      /\ q.guests # Search!Unset => row[l].capacity >= q.guests
                      <=> /\ Search!Fits(q, Search!Card(l))
                          /\ row[l].capacity >= q.guests
    BY DEF Search!Matches
  <2>1. row[l].capacity \in Nat
    BY DEF SearchInv, RowsAreSaved, Search!NoRow
  <2>2. Search!Card(l).place = row[l].place
    BY DEF Search!Card
  <2>3. Search!Fits(q, Search!Card(l)) <=> (q.place # "" => row[l].place \in Hits[q.place])
    BY <2>2 DEF Search!Fits
  <2>4. (q.guests # Search!Unset => row[l].capacity >= q.guests)
          <=> row[l].capacity >= q.guests
    BY <2>1 DEF Search!Unset
  <2> QED
    BY <2>3, <2>4
<1>4. IsFiniteSet(Cards)
  <2>1. IsFiniteSet(Found)
    BY ApiAssumptions, SameFinite, FS_Subset DEF Search!CatalogAssumption, Search!Matches
  <2> QED
    <3> DEFINE f == [l \in Found |-> Search!Card(l)]
    <3>1. f \in Surjection(Found, Cards)
      BY DEF Surjection
    <3> QED
      BY <2>1, <3>1, FS_Surjection
<1>5. {s[i] : i \in DOMAIN s} = Cards
  BY <1>4, ArrangedIsAll
<1>6. \A l : Search!Card(l).id = l
  BY DEF Search!Card
<1>7. {s[i].id : i \in DOMAIN s} = Found
  <2>1. ASSUME NEW i \in DOMAIN s PROVE s[i].id \in Found
    <3>1. s[i] \in Cards
      BY <1>5
    <3> QED
      BY <3>1, <1>6
  <2>2. ASSUME NEW l \in Found PROVE \E i \in DOMAIN s : s[i].id = l
    <3>1. Search!Card(l) \in {s[i] : i \in DOMAIN s}
      BY <1>5
    <3> QED
      BY <3>1, <1>6
  <2> QED
    BY <2>1, <2>2
<1> QED
  BY <1>2, <1>3, <1>7

(* AnswersTheGuest: through form, address, query and rows, the cards that
   arrive are the published listings that fit what was asked for, all of them
   and no other; a card of a listing withdrawn since leads nowhere. For any
   listings, drafts, searches and addresses. *)
THEOREM GuestsAreAnswered == ApiSpec => AnswersTheGuest
<1> DEFINE Answers ==
             Search!Rendered /\ ~Search!Invalid(tab.asked) =>
               {tab'.shown[i].id : i \in DOMAIN tab'.shown} =
                 {l \in Listing : /\ row[l].status = "Published"
                                  /\ Search!Fits(tab.asked, Search!Card(l))
                                  /\ row[l].capacity >= tab.asked.guests}
           Missing ==
             tab.page = "opening" /\ tab'.page \in {"detail", "failed"} =>
               row[tab.opened].status = "Published"
<1>1. ASSUME SearchInv, Search!Next PROVE Answers /\ Missing
  <2>1. CASE Search!Load
    <3>1. Answers
      BY <1>1, <2>1, CardsAnswer DEF Search!Rendered
    <3>2. tab.page # "opening"
      BY <2>1 DEF Search!Load
    <3> QED
      BY <3>1, <3>2
  <2>2. CASE Search!LoadDetail
    <3>1. tab.page # "loading"
      BY <2>2 DEF Search!LoadDetail
    <3>2. tab'.page = IF row[tab.opened].status # "Published" THEN "missing"
                      ELSE IF Search!DetailParses(tab.opened) THEN "detail" ELSE "failed"
      BY <1>1, <2>2 DEF Search!LoadDetail, SearchInv, AddressIsAsked, TabFields
    <3> QED
      BY <3>1, <3>2 DEF Search!Rendered
  <2>3. CASE TabStep
    BY <1>1, <2>3, TabMoves DEF Search!Rendered
  <2>4. CASE UNCHANGED tab
    BY <2>4 DEF Search!Rendered
  <2> QED
    <3>1. ASSUME NEW l \in Listing, NEW w \in Windows, Search!AskHint(l, w)
          PROVE  UNCHANGED tab
      BY <3>1 DEF Search!AskHint
    <3> QED
      BY <1>1, <2>1, <2>2, <2>3, <2>4, <3>1, HostsWrite, SameCount
      DEF Search!Next, TabStep
<1>2. SearchInv /\ [ApiNext]_apiVars
        => [Answers]_(Search!cVars) /\ [Missing]_(Search!cVars)
  BY <1>1, StepOfApi
<1>3. [][Answers]_(Search!cVars) /\ [][Missing]_(Search!cVars) => AnswersTheGuest
  BY DEF AnswersTheGuest, Search!AnswersTheGuest, Search!WithdrawnIsMissing
<1> HIDE DEF Answers, Missing
<1> QED
  BY <1>2, <1>3, SearchHolds, PTL DEF ApiSpec
-----------------------------------------------------------------------------
(* The connections. *)

(* A request holds the connection of its transaction while that is open, and
   one more while a check is under way. *)
HoldsItsOwn(r) ==
  /\ held[r] = (IF open[r] THEN 1 ELSE 0) + (IF at[r] = "checking" THEN 1 ELSE 0)
  /\ open[r] => at[r] \in {"check", "checking", "write"}

PoolInv ==
  /\ at \in [Pool!Requests -> Pool!Stages] /\ open \in [Pool!Requests -> BOOLEAN]
  /\ held \in [Pool!Requests -> 0 .. 2]
  /\ \A r \in Pool!Requests : HoldsItsOwn(r)
  /\ Pool!Taken <= Conns

LEMMA ConnectionsAreFinite ==
  /\ Conns \in Nat /\ Conns > 0
  /\ IsFiniteSet(Pool!InUse) /\ Pool!Taken \in Nat
  /\ Pool!Taken = Cardinality(Pool!InUse)
<1>1. Conns \in Nat /\ Conns > 0
  BY ApiAssumptions DEF Pool!PoolAssumption
<1>2. IsFiniteSet(Pool!Requests)
  BY ApiAssumptions, SameFinite, FS_Union DEF Pool!PoolAssumption, Pool!Requests
<1>3. IsFiniteSet({1, 2})
  <2>1. IsFiniteSet({1})
    BY FS_Singleton
  <2>2. IsFiniteSet({1} \cup {2})
    BY <2>1, FS_AddElement
  <2>3. {1} \cup {2} = {1, 2}
    OBVIOUS
  <2> QED
    BY <2>2, <2>3
<1>4. IsFiniteSet(Pool!Requests \X {1, 2})
  BY <1>2, <1>3, FS_Product
<1>5. IsFiniteSet(Pool!InUse)
  BY <1>4, FS_Subset DEF Pool!InUse
<1>6. Pool!Taken = Cardinality(Pool!InUse)
  BY SameCount DEF Pool!Taken
<1> QED
  BY <1>1, <1>5, <1>6, FS_CardinalityType

LEMMA ConnectionTaken ==
  ASSUME PoolInv, NEW r \in Pool!Requests, Pool!Free,
         held' = [held EXCEPT ![r] = held[r] + 1], held[r] \in {0, 1}
  PROVE  Pool!Taken' <= Conns
<1>1. Pool!InUse' = Pool!InUse \cup {<<r, held[r] + 1>>}
  BY DEF Pool!InUse, PoolInv
<1>2. Cardinality(Pool!InUse') <= Cardinality(Pool!InUse) + 1
  <2> PICK c : c = <<r, held[r] + 1>>
    OBVIOUS
  <2>1. Cardinality(Pool!InUse \cup {c}) =
          IF c \in Pool!InUse THEN Cardinality(Pool!InUse) ELSE Cardinality(Pool!InUse) + 1
    BY ConnectionsAreFinite, FS_AddElement
  <2> QED
    BY <1>1, <2>1, ConnectionsAreFinite
<1>3. Pool!Taken' = Cardinality(Pool!InUse')
  BY SameCount DEF Pool!Taken
<1> QED
  BY <1>2, <1>3, ConnectionsAreFinite DEF Pool!Free

LEMMA ConnectionsReturned ==
  ASSUME PoolInv, held' \in [Pool!Requests -> 0 .. 2],
         \A q \in Pool!Requests : held'[q] <= held[q]
  PROVE  Pool!Taken' <= Conns
<1>1. Pool!InUse' \subseteq Pool!InUse
  BY DEF Pool!InUse, PoolInv
<1>2. Cardinality(Pool!InUse') <= Cardinality(Pool!InUse) /\ IsFiniteSet(Pool!InUse')
  BY <1>1, ConnectionsAreFinite, FS_Subset
<1>3. Pool!Taken' = Cardinality(Pool!InUse') /\ Cardinality(Pool!InUse') \in Nat
  BY <1>2, SameCount, FS_CardinalityType DEF Pool!Taken
<1> QED
  BY <1>2, <1>3, ConnectionsAreFinite DEF PoolInv

LEMMA PoolInit == Pool!Init => PoolInv
<1> SUFFICES ASSUME Pool!Init PROVE PoolInv
  OBVIOUS
<1>1. Pool!InUse = {}
  BY DEF Pool!Init, Pool!InUse
<1>2. Pool!Taken = 0
  BY <1>1, ConnectionsAreFinite, FS_EmptySet
<1> QED
  BY <1>2, ConnectionsAreFinite DEF Pool!Init, PoolInv, HoldsItsOwn, Pool!Stages

(* One step of a request: where it goes, and what it comes to hold. *)
StepsTo(r, place, tx, n) ==
  /\ at' = [at EXCEPT ![r] = place]
  /\ open' = [open EXCEPT ![r] = tx]
  /\ held' = [held EXCEPT ![r] = n]

LEMMA RequestSteps ==
  ASSUME PoolInv, NEW r \in Pool!Requests,
         NEW place \in Pool!Stages, NEW tx \in BOOLEAN, NEW n \in 0 .. 2,
         StepsTo(r, place, tx, n),
         n = (IF tx THEN 1 ELSE 0) + (IF place = "checking" THEN 1 ELSE 0),
         tx => place \in {"check", "checking", "write"},
         n <= held[r] \/ (Pool!Free /\ n = held[r] + 1)
  PROVE  PoolInv'
<1>1. /\ at' \in [Pool!Requests -> Pool!Stages] /\ open' \in [Pool!Requests -> BOOLEAN]
      /\ held' \in [Pool!Requests -> 0 .. 2]
  BY DEF PoolInv, StepsTo
<1>2. \A q \in Pool!Requests : HoldsItsOwn(q)'
  BY DEF PoolInv, HoldsItsOwn, StepsTo
<1>3. Pool!Taken' <= Conns
  <2>1. CASE n <= held[r]
    <3>1. \A q \in Pool!Requests : held'[q] <= held[q]
      BY <2>1 DEF PoolInv, StepsTo
    <3> QED
      BY <1>1, <3>1, ConnectionsReturned
  <2>2. CASE Pool!Free /\ n = held[r] + 1
    <3>1. held[r] \in {0, 1}
      BY <2>2 DEF PoolInv
    <3> QED
      BY <2>2, <3>1, ConnectionTaken DEF StepsTo
  <2> QED
    BY <2>1, <2>2
<1> QED
  BY <1>1, <1>2, <1>3 DEF PoolInv

LEMMA PoolStep == PoolInv /\ [Pool!Next]_(Pool!vars) => PoolInv'
<1> SUFFICES ASSUME PoolInv, [Pool!Next]_(Pool!vars) PROVE PoolInv'
  OBVIOUS
<1>1. CASE UNCHANGED Pool!vars
  BY <1>1 DEF Pool!vars, PoolInv, HoldsItsOwn, Pool!Taken, Pool!InUse
<1>2. ASSUME NEW r \in Pool!Requests,
             \/ Pool!Ask(r) \/ Pool!Step(r)
             \/ Pool!MaxWait(r) \/ Pool!Refused(r) \/ Pool!TxTimeout(r)
      PROVE  PoolInv'
  <2> USE DEF Pool!Stages
  <2>0. /\ at \in [Pool!Requests -> Pool!Stages] /\ open \in [Pool!Requests -> BOOLEAN]
        /\ held \in [Pool!Requests -> 0 .. 2] /\ held[r] \in 0 .. 2
        /\ held[r] = (IF open[r] THEN 1 ELSE 0) + (IF at[r] = "checking" THEN 1 ELSE 0)
        /\ open[r] => at[r] \in {"check", "checking", "write"}
        /\ open = [open EXCEPT ![r] = open[r]] /\ held = [held EXCEPT ![r] = held[r]]
        /\ at = [at EXCEPT ![r] = at[r]] /\ open[r] \in BOOLEAN
    BY DEF PoolInv, HoldsItsOwn
  <2> PICK yes \in BOOLEAN : yes = TRUE
    OBVIOUS
  <2> PICK no \in BOOLEAN : no = FALSE
    OBVIOUS
  <2>1. CASE Pool!Ask(r)
    <3>1. StepsTo(r, "begin", no, 0)
      BY <2>0, <2>1 DEF StepsTo, Pool!Ask, Pool!Goes
    <3> QED
      BY <2>0, <2>1, <3>1, RequestSteps DEF Pool!Ask
  <2>2. CASE Pool!Begin(r)
    <3> PICK place \in {"check", "write"} :
               place = IF r \in Creates THEN "check" ELSE "write"
      OBVIOUS
    <3>1. StepsTo(r, place, yes, 1)
      BY <2>0, <2>2 DEF StepsTo, Pool!Begin, Pool!Goes
    <3>2. Pool!Free /\ 1 = held[r] + 1
      BY <2>0, <2>2 DEF Pool!Begin
    <3>3. 1 = (IF yes THEN 1 ELSE 0) + (IF place = "checking" THEN 1 ELSE 0)
      OBVIOUS
    <3>4. /\ place \in Pool!Stages /\ 1 \in 0 .. 2
          /\ yes => place \in {"check", "checking", "write"}
      OBVIOUS
    <3> HIDE DEF Pool!Stages
    <3> QED
      BY <3>1, <3>2, <3>3, <3>4, RequestSteps
  <2>3. CASE Pool!StartCheck(r)
    <3>1. StepsTo(r, "checking", open[r], held[r] + 1)
      BY <2>0, <2>3 DEF StepsTo, Pool!StartCheck, Pool!Goes
    <3> QED
      BY <2>0, <2>3, <3>1, RequestSteps DEF Pool!StartCheck
  <2>4. CASE Pool!EndCheck(r)
    <3> PICK place \in {"check", "write"} :
               place = IF left[r] = 1 THEN "write" ELSE "check"
      OBVIOUS
    <3>1. StepsTo(r, place, open[r], held[r] - 1)
      BY <2>0, <2>4 DEF StepsTo, Pool!EndCheck, Pool!Goes, Pool!Releases
    <3> QED
      BY <2>0, <2>4, <3>1, RequestSteps DEF Pool!EndCheck
  <2>5. CASE Pool!Write(r)
    <3>0. at[r] = "write" /\ held[r] = IF open[r] THEN 1 ELSE 0
      BY <2>0, <2>5 DEF Pool!Write
    <3>1. CASE open[r]
      <4>1. StepsTo(r, "done", no, held[r] - 1)
        BY <2>0, <2>5, <3>0, <3>1 DEF StepsTo, Pool!Write, Pool!Goes, Pool!Releases
      <4> QED
        BY <2>0, <3>0, <3>1, <4>1, RequestSteps
    <3>2. CASE ~open[r]
      <4>1. StepsTo(r, "failed", no, 0)
        BY <2>0, <2>5, <3>0, <3>2 DEF StepsTo, Pool!Write, Pool!Goes
      <4> QED
        BY <2>0, <4>1, RequestSteps
    <3> QED
      BY <3>1, <3>2
  <2>6. CASE Pool!MaxWait(r)
    <3>1. StepsTo(r, "failed", no, 0)
      BY <2>0, <2>6 DEF StepsTo, Pool!MaxWait, Pool!Goes
    <3> QED
      BY <2>0, <2>6, <3>1, RequestSteps DEF Pool!MaxWait
  <2>7. CASE Pool!Refused(r)
    <3>1. StepsTo(r, "failed", no, 0)
      BY <2>0, <2>7 DEF StepsTo, Pool!Refused, Pool!Goes
    <3> QED
      BY <2>0, <2>7, <3>1, RequestSteps DEF Pool!Refused
  <2>8. CASE Pool!TxTimeout(r)
    <3>1. StepsTo(r, at[r], no, held[r] - 1)
      BY <2>0, <2>8 DEF StepsTo, Pool!TxTimeout, Pool!Releases
    <3> QED
      BY <2>0, <2>8, <3>1, RequestSteps DEF Pool!TxTimeout
  <2> QED
    BY <1>2, <2>1, <2>2, <2>3, <2>4, <2>5, <2>6, <2>7, <2>8 DEF Pool!Step
<1> QED
  BY <1>1, <1>2 DEF Pool!Next

LEMMA PoolIsAccounted == ApiSpec => []Pool!Accounted
<1>1. ApiInit => PoolInv
  BY InitOfApi, PoolInit
<1>2. PoolInv /\ [ApiNext]_apiVars => PoolInv'
  BY StepOfApi, PoolStep
<1>3. PoolInv => Pool!Accounted
  BY DEF PoolInv, HoldsItsOwn, Pool!Accounted
<1> QED
  BY <1>1, <1>2, <1>3, PTL DEF ApiSpec
-----------------------------------------------------------------------------
(* The rate limit. *)

(* An injection says of two sets that one is no larger, and can be followed
   through a step of the model. *)
InjectsInto(S, T) == \E g \in [S -> T] : \A x, y \in S : g[x] = g[y] => x = y

LEMMA InjectionsCompose ==
  ASSUME NEW S, NEW T, NEW U, InjectsInto(S, T), InjectsInto(T, U)
  PROVE  InjectsInto(S, U)
<1>1. PICK g \in [S -> T] : \A x, y \in S : g[x] = g[y] => x = y
  BY DEF InjectsInto
<1>2. PICK h \in [T -> U] : \A x, y \in T : h[x] = h[y] => x = y
  BY DEF InjectsInto
<1> DEFINE f == [x \in S |-> h[g[x]]]
<1>3. f \in [S -> U] /\ \A x, y \in S : f[x] = f[y] => x = y
  BY <1>1, <1>2
<1> QED
  BY <1>3 DEF InjectsInto

LEMMA InjectionsCount ==
  ASSUME NEW S, NEW T, IsFiniteSet(T), InjectsInto(S, T)
  PROVE  IsFiniteSet(S) /\ Cardinality(S) <= Cardinality(T)
<1>1. PICK g \in [S -> T] : \A x, y \in S : g[x] = g[y] => x = y
  BY DEF InjectsInto
<1>2. g \in Injection(S, T)
  BY <1>1 DEF Injection, IsInjective
<1> QED
  BY <1>2, FS_Injection

LEMMA CountInjects ==
  ASSUME NEW S, IsFiniteSet(S), NEW n \in Nat, Cardinality(S) <= n
  PROVE  InjectsInto(S, 1 .. n)
<1>1. PICK c \in Nat : c = Cardinality(S) /\ c <= n
  BY FS_CardinalityType
<1>2. PICK f \in Bijection(1 .. c, S) : TRUE
  BY <1>1, FS_CardinalityType DEF ExistsBijection
<1>3. f \in [1 .. c -> S] /\ \A x \in S : \E i \in 1 .. c : f[i] = x
  BY <1>2 DEF Bijection, Injection, Surjection
<1> DEFINE g == [x \in S |-> CHOOSE i \in 1 .. c : f[i] = x]
<1>4. \A x \in S : g[x] \in 1 .. c /\ f[g[x]] = x
  BY <1>3
<1>5. g \in [S -> 1 .. n]
  BY <1>1, <1>4
<1>6. \A x, y \in S : g[x] = g[y] => x = y
  BY <1>4
<1> HIDE DEF g
<1> QED
  BY <1>5, <1>6 DEF InjectsInto

(* The timers of a counter, and the pages that a task has served to an address. *)
Marks(f) == {m \in (1 .. Window) \X Nat : 1 <= m[2] /\ m[2] <= f[m[1]]}

PagesAt(task, a) ==
  {p \in Visitors \X (1 .. Window) \X Nat :
     Address[p[1]] = a /\ 1 <= p[3] /\ p[3] <= served[<<p[1], task>>][p[2]]}

Counter == [1 .. Window -> Nat]

LEMMA GuardConstants ==
  /\ Limit \in Nat /\ Limit > 0 /\ Window \in Nat /\ Window > 0 /\ IsFiniteSet(Tasks)
  BY ApiAssumptions, SameFinite DEF Guard!ThrottleAssumption

LEMMA TimersAreMarks ==
  ASSUME NEW f \in Counter
  PROVE  /\ Guard!Timers(f) = Marks(f) /\ IsFiniteSet(Marks(f))
         /\ Guard!Total(f) = Cardinality(Marks(f)) /\ Guard!Total(f) \in Nat
<1> DEFINE Row(n) == {<<n, i>> : i \in 1 .. f[n]}
           Rows == {Row(n) : n \in 1 .. Window}
<1>1. Guard!Timers(f) = Marks(f)
  <2>1. \A n \in 1 .. Window : f[n] \in Nat
    BY DEF Counter
  <2> QED
    BY <2>1 DEF Guard!Timers, Marks
<1>2. \A S \in Rows : IsFiniteSet(S)
  <2> SUFFICES ASSUME NEW n \in 1 .. Window PROVE IsFiniteSet(Row(n))
    OBVIOUS
  <2> DEFINE g == [i \in 1 .. f[n] |-> <<n, i>>]
  <2>1. IsFiniteSet(1 .. f[n])
    BY FS_Interval DEF Counter
  <2>2. g \in Surjection(1 .. f[n], Row(n))
    BY DEF Surjection
  <2> QED
    BY <2>1, <2>2, FS_Surjection
<1>3. IsFiniteSet(Rows)
  <2> DEFINE g == [n \in 1 .. Window |-> Row(n)]
  <2> HIDE DEF Row
  <2>1. IsFiniteSet(1 .. Window)
    BY GuardConstants, FS_Interval
  <2>2. g \in Surjection(1 .. Window, Rows)
    BY DEF Surjection
  <2> QED
    BY <2>1, <2>2, FS_Surjection
<1>4. IsFiniteSet(UNION Rows)
  <2> HIDE DEF Rows
  <2> QED
    BY <1>2, <1>3, FS_UNION
<1>5. Guard!Timers(f) = UNION Rows
  BY DEF Guard!Timers
<1>6. Guard!Total(f) = Cardinality(Guard!Timers(f))
  BY SameCount DEF Guard!Total
<1> HIDE DEF Rows
<1> QED
  BY <1>1, <1>4, <1>5, <1>6, FS_CardinalityType

LEMMA TotalOrder ==
  ASSUME NEW f \in Counter, NEW h \in Counter, InjectsInto(Marks(h), Marks(f))
  PROVE  Guard!Total(h) <= Guard!Total(f)
<1>1. Cardinality(Marks(h)) <= Cardinality(Marks(f))
  BY TimersAreMarks, InjectionsCount
<1> QED
  BY <1>1, TimersAreMarks

(* Every page served is a request counted with as many steps left. *)
Pages == Visitors \X (1 .. Window) \X Nat

Matched(P, M) ==
  \E g \in [P -> M] : /\ \A p \in P : g[p][1] = p[2]
                      /\ \A p, q \in P : g[p] = g[q] => p = q

(* The set of pages, the counter and the block of one task and one address. *)
KeyInv(P, f, b) ==
  /\ b = 0 => Guard!Total(f) <= Limit /\ Matched(P, Marks(f))
  /\ b > 0 => InjectsInto(P, 1 .. Limit) /\ \A p \in P : p[2] <= b

GuardTyped ==
  /\ hits \in [Tasks \X Guard!Clients -> Counter]
  /\ served \in [Visitors \X Tasks -> Counter]
  /\ blocked \in [Tasks \X Guard!Clients -> 0 .. Window]

GuardInv ==
  /\ GuardTyped
  /\ \A task \in Tasks, a \in Guard!Clients :
       KeyInv(PagesAt(task, a), hits[<<task, a>>], blocked[<<task, a>>])

LEMMA MatchedIsBounded ==
  ASSUME NEW P, NEW f \in Counter, Matched(P, Marks(f)), Guard!Total(f) <= Limit
  PROVE  InjectsInto(P, 1 .. Limit)
<1>1. InjectsInto(P, Marks(f))
  BY DEF Matched, InjectsInto
<1>2. InjectsInto(Marks(f), 1 .. Limit)
  BY GuardConstants, TimersAreMarks, CountInjects
<1> QED
  BY <1>1, <1>2, InjectionsCompose

LEMMA KeyIsBounded ==
  ASSUME NEW P, NEW f \in Counter, NEW b \in Nat, KeyInv(P, f, b)
  PROVE  InjectsInto(P, 1 .. Limit)
  BY MatchedIsBounded DEF KeyInv

LEMMA HitIsCounted ==
  ASSUME NEW f \in Counter
  PROVE  /\ Guard!Hit(f) \in Counter
         /\ Marks(Guard!Hit(f)) = Marks(f) \cup {<<Window, f[Window] + 1>>}
         /\ <<Window, f[Window] + 1>> \notin Marks(f)
<1>1. Window \in 1 .. Window /\ f[Window] \in Nat
  BY GuardConstants DEF Counter
<1>2. \A n \in 1 .. Window :
        Guard!Hit(f)[n] = IF n = Window THEN f[Window] + 1 ELSE f[n]
  BY <1>1 DEF Guard!Hit, Counter
<1>3. Guard!Hit(f) \in Counter
  BY <1>1 DEF Guard!Hit, Counter
<1>4. \A n \in 1 .. Window : f[n] \in Nat
  BY DEF Counter
<1>5. Marks(Guard!Hit(f)) = Marks(f) \cup {<<Window, f[Window] + 1>>}
  BY <1>1, <1>2, <1>4 DEF Marks
<1>6. <<Window, f[Window] + 1>> \notin Marks(f)
  BY <1>1 DEF Marks
<1> QED
  BY <1>3, <1>5, <1>6

LEMMA MatchedGrows ==
  ASSUME NEW P, NEW f \in Counter, NEW page, page[2] = Window, page \notin P,
         Matched(P, Marks(f))
  PROVE  Matched(P \cup {page}, Marks(Guard!Hit(f)))
<1> PICK mark : mark = <<Window, f[Window] + 1>>
  OBVIOUS
<1>1. Marks(Guard!Hit(f)) = Marks(f) \cup {mark} /\ mark \notin Marks(f) /\ mark[1] = Window
  BY HitIsCounted
<1>2. PICK g \in [P -> Marks(f)] : /\ \A p \in P : g[p][1] = p[2]
                                   /\ \A p, q \in P : g[p] = g[q] => p = q
  BY DEF Matched
<1> DEFINE h == [p \in P \cup {page} |-> IF p = page THEN mark ELSE g[p]]
<1>3. h \in [P \cup {page} -> Marks(f) \cup {mark}]
  BY <1>2
<1>4. \A p \in P \cup {page} : h[p][1] = p[2]
  BY <1>1, <1>2
<1>5. \A p, q \in P \cup {page} : h[p] = h[q] => p = q
  BY <1>1, <1>2
<1> HIDE DEF h
<1> QED
  BY <1>1, <1>3, <1>4, <1>5 DEF Matched

(* A step of time: what had a step more left. *)
Aged(P) == {p \in Pages : <<p[1], p[2] + 1, p[3]>> \in P}

LEMMA OlderIsTyped == ASSUME NEW f \in Counter PROVE Guard!Older(f) \in Counter
  BY GuardConstants DEF Guard!Older, Counter

LEMMA OlderMarks ==
  ASSUME NEW f \in Counter, NEW n, NEW i
  PROVE  <<n, i>> \in Marks(Guard!Older(f))
           <=> n \in 1 .. Window /\ <<n + 1, i>> \in Marks(f)
<1>1. \A m \in 1 .. Window :
        Guard!Older(f)[m] = IF m < Window THEN f[m + 1] ELSE 0
  BY DEF Guard!Older
<1>2. \A m \in 1 .. Window : f[m] \in Nat
  BY DEF Counter
<1>3. ASSUME n \in 1 .. Window
      PROVE  <<n, i>> \in Marks(Guard!Older(f)) <=> <<n + 1, i>> \in Marks(f)
  <2>0. n \in Nat /\ 1 <= n /\ n <= Window /\ Window \in Nat
    BY <1>3, GuardConstants
  <2>1. CASE n < Window
    BY <1>1, <1>2, <1>3, <2>0, <2>1 DEF Marks
  <2>2. CASE n = Window
    BY <1>1, <1>2, <1>3, <2>0, <2>2 DEF Marks
  <2> QED
    BY <2>0, <2>1, <2>2
<1>4. <<n, i>> \in Marks(Guard!Older(f)) => n \in 1 .. Window
  BY DEF Marks
<1> QED
  BY <1>3, <1>4

LEMMA OlderIsNoLarger ==
  ASSUME NEW f \in Counter
  PROVE  Guard!Total(Guard!Older(f)) <= Guard!Total(f)
<1> PICK h \in Counter : h = Guard!Older(f)
  BY OlderIsTyped
<1> DEFINE g == [m \in Marks(h) |-> <<m[1] + 1, m[2]>>]
<1>1. \A m \in Marks(h) : /\ m = <<m[1], m[2]>> /\ m[1] \in Nat
                          /\ <<m[1] + 1, m[2]>> \in Marks(f)
  <2> TAKE m \in Marks(h)
  <2>1. m = <<m[1], m[2]>> /\ m[1] \in Nat
    BY DEF Marks
  <2> QED
    BY <2>1, OlderMarks
<1>2. g \in [Marks(h) -> Marks(f)]
  BY <1>1
<1>3. \A x, y \in Marks(h) : g[x] = g[y] => x = y
  BY <1>1
<1>4. InjectsInto(Marks(h), Marks(f))
  <2> HIDE DEF g
  <2> QED
    BY <1>2, <1>3 DEF InjectsInto
<1> QED
  BY <1>4, TotalOrder

LEMMA MatchedAges ==
  ASSUME NEW P, NEW f \in Counter, Matched(P, Marks(f))
  PROVE  Matched(Aged(P), Marks(Guard!Older(f)))
<1> DEFINE Before(p) == <<p[1], p[2] + 1, p[3]>>
<1>1. PICK g \in [P -> Marks(f)] : /\ \A p \in P : g[p][1] = p[2]
                                   /\ \A p, q \in P : g[p] = g[q] => p = q
  BY DEF Matched
<1> DEFINE h == [p \in Aged(P) |-> <<p[2], g[Before(p)][2]>>]
<1>2. ASSUME NEW p \in Aged(P)
      PROVE  /\ Before(p) \in P /\ p[2] \in 1 .. Window
             /\ g[Before(p)] = <<p[2] + 1, g[Before(p)][2]>>
             /\ h[p] \in Marks(Guard!Older(f))
  <2>1. Before(p) \in P /\ p[2] \in 1 .. Window /\ Before(p)[2] = p[2] + 1
    BY DEF Aged, Pages
  <2>2. g[Before(p)] \in Marks(f) /\ g[Before(p)][1] = p[2] + 1
    BY <1>1, <2>1
  <2>3. g[Before(p)] = <<p[2] + 1, g[Before(p)][2]>>
    BY <2>2 DEF Marks
  <2> PICK i : i = g[Before(p)][2]
    OBVIOUS
  <2>4. <<p[2] + 1, i>> \in Marks(f)
    BY <2>2, <2>3
  <2>5. <<p[2], i>> \in Marks(Guard!Older(f))
    BY <2>1, <2>4, OlderMarks
  <2> QED
    BY <2>1, <2>3, <2>5
<1>3. h \in [Aged(P) -> Marks(Guard!Older(f))]
  BY <1>2
<1>4. \A p \in Aged(P) : h[p][1] = p[2]
  OBVIOUS
<1>5. ASSUME NEW p \in Aged(P), NEW q \in Aged(P), h[p] = h[q]
      PROVE  p = q
  <2>1. p[2] = q[2] /\ g[Before(p)][2] = g[Before(q)][2]
    BY <1>5
  <2>2. g[Before(p)] = g[Before(q)]
    BY <1>2, <2>1
  <2>3. Before(p) = Before(q)
    BY <1>1, <1>2, <2>2
  <2>4. p = <<p[1], p[2], p[3]>> /\ q = <<q[1], q[2], q[3]>>
    BY DEF Aged, Pages
  <2> QED
    BY <2>1, <2>3, <2>4
<1> HIDE DEF h
<1> QED
  BY <1>3, <1>4, <1>5 DEF Matched

LEMMA AgedInjects == ASSUME NEW P PROVE InjectsInto(Aged(P), P)
<1> DEFINE g == [p \in Aged(P) |-> <<p[1], p[2] + 1, p[3]>>]
<1>1. \A p \in Aged(P) : p = <<p[1], p[2], p[3]>> /\ p[2] \in Nat
  BY GuardConstants DEF Aged, Pages
<1>2. g \in [Aged(P) -> P]
  BY DEF Aged
<1>3. \A p, q \in Aged(P) : g[p] = g[q] => p = q
  BY <1>1
<1> HIDE DEF g
<1> QED
  BY <1>2, <1>3 DEF InjectsInto

LEMMA KeyAges ==
  ASSUME NEW P, NEW f \in Counter, NEW b \in 0 .. Window, KeyInv(P, f, b)
  PROVE  KeyInv(Aged(P), IF b = 1 THEN Guard!None ELSE Guard!Older(f),
                IF b = 0 \/ b = 1 THEN 0 ELSE b - 1)
<1>0. b \in Nat /\ Limit \in Nat
  BY GuardConstants
<1>1. CASE b = 0
  <2> PICK h \in Counter : h = Guard!Older(f)
    BY OlderIsTyped
  <2>1. Guard!Total(h) <= Guard!Total(f) /\ Guard!Total(h) \in Nat /\ Guard!Total(f) \in Nat
    BY OlderIsNoLarger, TimersAreMarks
  <2>2. Guard!Total(f) <= Limit /\ Matched(P, Marks(f))
    BY <1>1 DEF KeyInv
  <2>3. Matched(Aged(P), Marks(h))
    BY <2>2, MatchedAges
  <2>4. KeyInv(Aged(P), h, 0)
    BY <1>0, <2>1, <2>2, <2>3 DEF KeyInv
  <2> QED
    BY <1>1, <2>4
<1>2. CASE b = 1
  <2>1. Aged(P) = {}
    <3>1. \A p \in P : p[2] <= 1
      BY <1>2 DEF KeyInv
    <3>2. ASSUME NEW p \in Aged(P) PROVE FALSE
      <4>1. <<p[1], p[2] + 1, p[3]>> \in P /\ p[2] \in Nat /\ p[2] >= 1
        BY GuardConstants DEF Aged, Pages
      <4>2. <<p[1], p[2] + 1, p[3]>>[2] <= 1
        BY <3>1, <4>1
      <4> QED
        BY <4>1, <4>2
    <3> QED
      BY <3>2
  <2>2. Guard!None \in Counter /\ Marks(Guard!None) = {}
    BY DEF Guard!None, Counter, Marks
  <2>3. Guard!Total(Guard!None) = 0
    BY <2>2, TimersAreMarks, FS_EmptySet
  <2>4. Matched({}, {})
    <3> DEFINE g == [p \in {} |-> p]
    <3>1. g \in [{} -> {}]
      OBVIOUS
    <3> QED
      BY <3>1 DEF Matched
  <2>5. KeyInv(Aged(P), Guard!None, 0)
    BY <1>0, GuardConstants, <2>1, <2>2, <2>3, <2>4 DEF KeyInv
  <2> QED
    BY <1>2, <2>5
<1>3. CASE b > 1
  <2>1. InjectsInto(P, 1 .. Limit) /\ \A p \in P : p[2] <= b
    BY <1>3 DEF KeyInv
  <2>2. InjectsInto(Aged(P), 1 .. Limit)
    BY <2>1, AgedInjects, InjectionsCompose
  <2>3. ASSUME NEW p \in Aged(P) PROVE p[2] <= b - 1
    <3>1. <<p[1], p[2] + 1, p[3]>> \in P /\ p[2] \in Nat
      BY GuardConstants DEF Aged, Pages
    <3>2. <<p[1], p[2] + 1, p[3]>>[2] <= b
      BY <2>1, <3>1
    <3> QED
      BY <1>0, <3>1, <3>2
  <2>4. KeyInv(Aged(P), Guard!Older(f), b - 1)
    BY <1>0, <1>3, <2>2, <2>3 DEF KeyInv
  <2> QED
    BY <1>0, <1>3, <2>4
<1> QED
  BY <1>0, <1>1, <1>2, <1>3

(* The pages of a task and an address, as a set of pages. *)
LEMMA PagesAreTyped ==
  ASSUME GuardTyped, NEW task, NEW a
  PROVE  PagesAt(task, a) \subseteq Pages
  BY DEF PagesAt, Pages

LEMMA GuardInit == Guard!Init => GuardInv
<1> SUFFICES ASSUME Guard!Init PROVE GuardInv
  OBVIOUS
<1>1. Guard!None \in Counter /\ Marks(Guard!None) = {} /\ 0 \in 0 .. Window
  BY GuardConstants DEF Guard!None, Counter, Marks
<1>2. GuardTyped
  BY <1>1 DEF Guard!Init, GuardTyped
<1>3. Guard!Total(Guard!None) = 0
  BY <1>1, TimersAreMarks, FS_EmptySet
<1>4. Matched({}, {})
  <2> DEFINE g == [p \in {} |-> p]
  <2>1. g \in [{} -> {}]
    OBVIOUS
  <2> QED
    BY <2>1 DEF Matched
<1>5. ASSUME NEW task \in Tasks, NEW a \in Guard!Clients
      PROVE  KeyInv(PagesAt(task, a), hits[<<task, a>>], blocked[<<task, a>>])
  <2>1. PagesAt(task, a) = {}
    <3>1. \A v \in Visitors, n \in 1 .. Window : served[<<v, task>>][n] = 0
      BY DEF Guard!Init, Guard!None
    <3> QED
      BY <3>1 DEF PagesAt
  <2>2. hits[<<task, a>>] = Guard!None /\ blocked[<<task, a>>] = 0
    BY DEF Guard!Init
  <2> QED
    BY <1>1, <1>3, <1>4, <2>1, <2>2, GuardConstants DEF KeyInv
<1> QED
  BY <1>2, <1>5 DEF GuardInv

LEMMA TimePasses == ASSUME GuardInv, Guard!Tick PROVE GuardInv'
<1>1. GuardTyped
  BY DEF GuardInv
<1>2. /\ hits' = [k \in Tasks \X Guard!Clients |->
                    IF blocked[k] = 1 THEN Guard!None ELSE Guard!Older(hits[k])]
      /\ blocked' = [k \in Tasks \X Guard!Clients |->
                       IF blocked[k] = 0 \/ blocked[k] = 1 THEN 0 ELSE blocked[k] - 1]
      /\ served' = [p \in Visitors \X Tasks |-> Guard!Older(served[p])]
  BY <1>1 DEF Guard!Tick, Guard!Unblocked, GuardTyped
<1>3. GuardTyped'
  <2>1. Guard!None \in Counter /\ Window \in Nat
    BY GuardConstants DEF Guard!None, Counter
  <2>2. \A k \in Tasks \X Guard!Clients :
          (IF blocked[k] = 1 THEN Guard!None ELSE Guard!Older(hits[k])) \in Counter
    BY <1>1, <2>1, OlderIsTyped DEF GuardTyped
  <2>3. \A p \in Visitors \X Tasks : Guard!Older(served[p]) \in Counter
    BY <1>1, OlderIsTyped DEF GuardTyped
  <2>4. \A k \in Tasks \X Guard!Clients :
          (IF blocked[k] = 0 \/ blocked[k] = 1 THEN 0 ELSE blocked[k] - 1) \in 0 .. Window
    <3> TAKE k \in Tasks \X Guard!Clients
    <3> PICK b \in 0 .. Window : b = blocked[k]
      BY <1>1 DEF GuardTyped
    <3> QED
      BY <2>1
  <2> QED
    BY <1>2, <2>2, <2>3, <2>4 DEF GuardTyped
<1>4. ASSUME NEW task \in Tasks, NEW a \in Guard!Clients
      PROVE  KeyInv(PagesAt(task, a)', hits'[<<task, a>>], blocked'[<<task, a>>])
  <2>1. PagesAt(task, a)' = Aged(PagesAt(task, a))
    <3>1. ASSUME NEW p \in Pages, Address[p[1]] = a
          PROVE  p \in PagesAt(task, a)' <=> <<p[1], p[2] + 1, p[3]>> \in PagesAt(task, a)
      <4> PICK v \in Visitors, n \in 1 .. Window, i \in Nat : p = <<v, n, i>>
        BY DEF Pages
      <4>1. PICK f \in Counter : f = served[<<v, task>>]
        BY <1>1 DEF GuardTyped
      <4>2. served'[<<v, task>>] = Guard!Older(f)
        BY <1>2, <4>1
      <4>3. p \in PagesAt(task, a)' <=> <<n, i>> \in Marks(Guard!Older(f))
        BY <3>1, <4>2 DEF PagesAt, Marks
      <4>4. <<v, n + 1, i>> \in PagesAt(task, a) <=> <<n + 1, i>> \in Marks(f)
        BY <3>1, <4>1 DEF PagesAt, Marks
      <4> QED
        BY <4>3, <4>4, OlderMarks
    <3>2. \A p \in PagesAt(task, a)' : p \in Pages /\ Address[p[1]] = a
      BY DEF PagesAt, Pages
    <3>3. \A p \in Aged(PagesAt(task, a)) :
            p \in Pages /\ Address[p[1]] = a /\ <<p[1], p[2] + 1, p[3]>> \in PagesAt(task, a)
      BY DEF Aged, PagesAt
    <3>4. \A p : p \in PagesAt(task, a)' <=> p \in Aged(PagesAt(task, a))
      BY <3>1, <3>2, <3>3 DEF Aged
    <3> QED
      BY <3>4
  <2> PICK f \in Counter, b \in 0 .. Window :
             f = hits[<<task, a>>] /\ b = blocked[<<task, a>>]
    BY <1>1 DEF GuardTyped
  <2>2. KeyInv(PagesAt(task, a), f, b)
    BY DEF GuardInv
  <2>3. KeyInv(Aged(PagesAt(task, a)), IF b = 1 THEN Guard!None ELSE Guard!Older(f),
               IF b = 0 \/ b = 1 THEN 0 ELSE b - 1)
    BY <2>2, KeyAges
  <2>4. /\ hits'[<<task, a>>] = IF b = 1 THEN Guard!None ELSE Guard!Older(f)
        /\ blocked'[<<task, a>>] = IF b = 0 \/ b = 1 THEN 0 ELSE b - 1
    BY <1>2
  <2> QED
    BY <2>1, <2>3, <2>4
<1> QED
  BY <1>3, <1>4 DEF GuardInv

(* A page that the guard lets through is counted. *)
LEMMA PageIsServed ==
  ASSUME GuardInv, NEW v \in Visitors, NEW task \in Tasks,
         LET k == <<task, Address[v]>>
         IN  /\ blocked[k] = 0 /\ ~Guard!OverLimit(Guard!Hit(hits[k]))
             /\ hits' = [hits EXCEPT ![k] = Guard!Hit(hits[k])]
             /\ served' = [served EXCEPT ![<<v, task>>] = Guard!Hit(served[<<v, task>>])]
             /\ UNCHANGED blocked
  PROVE  GuardInv'
<1>1. GuardTyped /\ Address[v] \in Guard!Clients
  BY DEF GuardInv, Guard!Clients
<1> PICK f \in Counter, s \in Counter :
           f = hits[<<task, Address[v]>>] /\ s = served[<<v, task>>]
  BY <1>1 DEF GuardTyped
<1> PICK h \in Counter, u \in Counter : h = Guard!Hit(f) /\ u = Guard!Hit(s)
  BY HitIsCounted
<1>2. /\ hits' = [hits EXCEPT ![<<task, Address[v]>>] = h]
      /\ served' = [served EXCEPT ![<<v, task>>] = u]
  OBVIOUS
<1>3. GuardTyped'
  BY <1>1, <1>2 DEF GuardTyped
<1>4. ASSUME NEW t \in Tasks, NEW a \in Guard!Clients, <<t, a>> # <<task, Address[v]>>
      PROVE  PagesAt(t, a)' = PagesAt(t, a) /\ hits'[<<t, a>>] = hits[<<t, a>>]
  <2>1. hits'[<<t, a>>] = hits[<<t, a>>]
    BY <1>1, <1>2, <1>4 DEF GuardTyped
  <2>2. \A w \in Visitors : Address[w] = a => served'[<<w, t>>] = served[<<w, t>>]
    BY <1>1, <1>2, <1>4 DEF GuardTyped
  <2> QED
    BY <2>1, <2>2 DEF PagesAt
<1>5. KeyInv(PagesAt(task, Address[v])', h, 0)
  <2> DEFINE P == PagesAt(task, Address[v])
             page == <<v, Window, s[Window] + 1>>
  <2>1. Marks(u) = Marks(s) \cup {<<Window, s[Window] + 1>>}
        /\ <<Window, s[Window] + 1>> \notin Marks(s)
    BY HitIsCounted
  <2>2. ASSUME NEW w \in Visitors, NEW n \in 1 .. Window, NEW i \in Nat
        PROVE  /\ <<w, n, i>> \in P <=>
                    Address[w] = Address[v] /\ <<n, i>> \in Marks(served[<<w, task>>])
               /\ <<w, n, i>> \in PagesAt(task, Address[v])' <=>
                    Address[w] = Address[v] /\ <<n, i>> \in Marks(served'[<<w, task>>])
    BY DEF PagesAt, Marks
  <2>3. /\ served'[<<v, task>>] = u
        /\ \A w \in Visitors : w # v => served'[<<w, task>>] = served[<<w, task>>]
    BY <1>1, <1>2 DEF GuardTyped
  <2>4. Window \in 1 .. Window /\ s[Window] + 1 \in Nat
    <3>1. Window \in 1 .. Window
      BY GuardConstants
    <3>2. s[Window] \in Nat
      BY <3>1 DEF Counter
    <3> QED
      BY <3>1, <3>2
  <2>5. page \notin P /\ page[2] = Window
    BY <2>1, <2>2, <2>4
  <2>6. PagesAt(task, Address[v])' = P \cup {page}
    <3>1. ASSUME NEW w \in Visitors, NEW n \in 1 .. Window, NEW i \in Nat
          PROVE  <<w, n, i>> \in PagesAt(task, Address[v])'
                   <=> <<w, n, i>> \in P \/ <<w, n, i>> = page
      <4>1. CASE w = v
        <5>1. <<w, n, i>> = page <=> <<n, i>> = <<Window, s[Window] + 1>>
          BY <4>1
        <5>2. <<w, n, i>> \in PagesAt(task, Address[v])' <=> <<n, i>> \in Marks(u)
          BY <2>2, <2>3, <4>1
        <5>3. <<w, n, i>> \in P <=> <<n, i>> \in Marks(s)
          BY <2>2, <4>1
        <5> HIDE DEF P, page
        <5> QED
          BY <2>1, <5>1, <5>2, <5>3
      <4>2. CASE w # v
        BY <2>2, <2>3, <4>2
      <4> QED
        BY <4>1, <4>2
    <3>2. PagesAt(task, Address[v])' \subseteq Pages /\ P \subseteq Pages /\ page \in Pages
      BY <2>4 DEF PagesAt, Pages
    <3> HIDE DEF P, page
    <3> QED
      BY <3>1, <3>2 DEF Pages
  <2>7. Matched(P, Marks(f)) /\ blocked[<<task, Address[v]>>] = 0
    BY <1>1 DEF GuardInv, KeyInv
  <2>8. Matched(P \cup {page}, Marks(h))
    BY <2>5, <2>7, MatchedGrows
  <2>9. Guard!Total(h) <= Limit
    BY GuardConstants, TimersAreMarks DEF Guard!OverLimit
  <2> QED
    BY <2>6, <2>8, <2>9 DEF KeyInv
<1>6. ASSUME NEW t \in Tasks, NEW a \in Guard!Clients
      PROVE  KeyInv(PagesAt(t, a)', hits'[<<t, a>>], blocked'[<<t, a>>])
  <2>1. CASE <<t, a>> # <<task, Address[v]>>
    BY <1>4, <2>1 DEF GuardInv
  <2>2. CASE t = task /\ a = Address[v]
    <3>1. hits'[<<t, a>>] = h /\ blocked'[<<t, a>>] = 0
      BY <1>1, <1>2, <2>2 DEF GuardTyped
    <3> QED
      BY <1>5, <2>2, <3>1
  <2> QED
    BY <2>1, <2>2
<1> QED
  BY <1>3, <1>6 DEF GuardInv

(* A page beyond the limit blocks the address for a window. *)
LEMMA AddressIsBlocked ==
  ASSUME GuardInv, NEW v \in Visitors, NEW task \in Tasks,
         LET k == <<task, Address[v]>>
         IN  /\ blocked[k] = 0
             /\ hits' = [hits EXCEPT ![k] = Guard!Hit(hits[k])]
             /\ blocked' = [blocked EXCEPT ![k] = Window]
             /\ UNCHANGED served
  PROVE  GuardInv'
<1>1. GuardTyped /\ Address[v] \in Guard!Clients
  BY DEF GuardInv, Guard!Clients
<1> PICK f \in Counter : f = hits[<<task, Address[v]>>]
  BY <1>1 DEF GuardTyped
<1> PICK h \in Counter : h = Guard!Hit(f)
  BY HitIsCounted
<1>2. /\ hits' = [hits EXCEPT ![<<task, Address[v]>>] = h]
      /\ blocked' = [blocked EXCEPT ![<<task, Address[v]>>] = Window]
  OBVIOUS
<1>3. GuardTyped' /\ Window > 0 /\ Window \in Nat
  BY <1>1, <1>2, GuardConstants DEF GuardTyped
<1>4. \A t, a : PagesAt(t, a)' = PagesAt(t, a)
  BY DEF PagesAt
<1>5. ASSUME NEW t \in Tasks, NEW a \in Guard!Clients
      PROVE  KeyInv(PagesAt(t, a)', hits'[<<t, a>>], blocked'[<<t, a>>])
  <2>1. CASE <<t, a>> # <<task, Address[v]>>
    <3>1. hits'[<<t, a>>] = hits[<<t, a>>] /\ blocked'[<<t, a>>] = blocked[<<t, a>>]
      BY <1>1, <1>2, <2>1 DEF GuardTyped
    <3> QED
      BY <1>4, <3>1 DEF GuardInv
  <2>2. CASE t = task /\ a = Address[v]
    <3>1. hits'[<<t, a>>] = h /\ blocked'[<<t, a>>] = Window
      BY <1>1, <1>2, <2>2 DEF GuardTyped
    <3>2. KeyInv(PagesAt(t, a), f, 0)
      BY <2>2 DEF GuardInv
    <3>3. InjectsInto(PagesAt(t, a), 1 .. Limit)
      BY <3>2, KeyIsBounded
    <3>4. \A p \in PagesAt(t, a) : p[2] <= Window
      BY <1>3 DEF PagesAt
    <3>5. KeyInv(PagesAt(t, a), h, Window)
      BY <1>3, <3>3, <3>4 DEF KeyInv
    <3> QED
      BY <1>4, <3>1, <3>5
  <2> QED
    BY <2>1, <2>2
<1> QED
  BY <1>3, <1>5 DEF GuardInv

LEMMA GuardStep == GuardInv /\ [Guard!Next]_(Guard!vars) => GuardInv'
<1> SUFFICES ASSUME GuardInv, [Guard!Next]_(Guard!vars) PROVE GuardInv'
  OBVIOUS
<1>1. ASSUME UNCHANGED <<hits, blocked, served>> PROVE GuardInv'
  <2>1. \A t, a : PagesAt(t, a)' = PagesAt(t, a)
    BY <1>1 DEF PagesAt
  <2> QED
    BY <1>1, <2>1 DEF GuardInv, GuardTyped
<1>2. CASE UNCHANGED Guard!vars
  BY <1>1, <1>2 DEF Guard!vars
<1>3. CASE Guard!Tick
  BY <1>3, TimePasses
<1>4. ASSUME NEW v \in Visitors, NEW task \in Tasks, Guard!OpenPage(v, task)
      PROVE  GuardInv'
  BY <1>1, <1>4, PageIsServed, AddressIsBlocked DEF Guard!OpenPage
<1> QED
  BY <1>2, <1>3, <1>4 DEF Guard!Next

LEMMA GuardHolds == ApiSpec => []GuardInv
<1>1. ApiInit => GuardInv
  BY InitOfApi, GuardInit
<1>2. GuardInv /\ [ApiNext]_apiVars => GuardInv'
  BY StepOfApi, GuardStep
<1> QED
  BY <1>1, <1>2, PTL DEF ApiSpec

(* The pages of an address are those of its tasks, and of each task at most
   the limit. *)
LEMMA WithinLimits == GuardInv => Guard!WithinLimits
<1> SUFFICES ASSUME GuardInv, NEW a \in Guard!Clients
             PROVE  Guard!Cardinality(Guard!PagesOf({v \in Visitors : Address[v] = a}))
                      <= Limit * Guard!Cardinality(Tasks)
  BY DEF Guard!WithinLimits
<1> PICK All : All = Guard!PagesOf({v \in Visitors : Address[v] = a})
  OBVIOUS
<1>1. GuardTyped
  BY DEF GuardInv
<1>2. \A task \in Tasks : InjectsInto(PagesAt(task, a), 1 .. Limit)
  <2> TAKE task \in Tasks
  <2> PICK f \in Counter, b \in Nat :
             f = hits[<<task, a>>] /\ b = blocked[<<task, a>>]
    BY <1>1 DEF GuardTyped
  <2> QED
    BY KeyIsBounded DEF GuardInv
<1> DEFINE Numbers(task, g) ==
             /\ g \in [PagesAt(task, a) -> 1 .. Limit]
             /\ \A x, y \in PagesAt(task, a) : g[x] = g[y] => x = y
           number == [task \in Tasks |-> CHOOSE g : Numbers(task, g)]
<1>3. \A task \in Tasks : Numbers(task, number[task])
  BY <1>2 DEF InjectsInto
<1>4. \A p \in All : /\ p = <<<<p[1][1], p[1][2], p[1][3]>>, p[2]>> /\ p[1][2] \in Tasks
                     /\ <<p[1][1], p[1][3], p[2]>> \in PagesAt(p[1][2], a)
  <2> TAKE p \in All
  <2>1. PICK k \in {v \in Visitors : Address[v] = a} \X Tasks \X (1 .. Window) :
               p \in {<<k, i>> : i \in 1 .. served[<<k[1], k[2]>>][k[3]]}
    BY DEF Guard!PagesOf
  <2>2. PICK i \in 1 .. served[<<k[1], k[2]>>][k[3]] : p = <<k, i>>
    BY <2>1
  <2> PICK v \in Visitors, task \in Tasks, n \in 1 .. Window :
             k = <<v, task, n>> /\ Address[v] = a
    BY <2>1
  <2>3. served[<<v, task>>][n] \in Nat
    <3>1. served[<<v, task>>] \in Counter
      BY <1>1 DEF GuardTyped
    <3> QED
      BY <3>1 DEF Counter
  <2>4. <<v, n, i>> \in PagesAt(task, a)
    BY <2>2, <2>3 DEF PagesAt
  <2> QED
    BY <2>2, <2>4
<1> DEFINE g == [p \in All |-> <<p[1][2], number[p[1][2]][<<p[1][1], p[1][3], p[2]>>]>>]
<1> HIDE DEF number
<1>5. g \in [All -> Tasks \X (1 .. Limit)]
  BY <1>3, <1>4
<1>6. ASSUME NEW p \in All, NEW q \in All, g[p] = g[q] PROVE p = q
  <2>1. /\ p[1][2] = q[1][2]
        /\ number[p[1][2]][<<p[1][1], p[1][3], p[2]>>] = number[q[1][2]][<<q[1][1], q[1][3], q[2]>>]
    BY <1>6
  <2>2. <<p[1][1], p[1][3], p[2]>> = <<q[1][1], q[1][3], q[2]>>
    BY <1>3, <1>4, <2>1
  <2> QED
    BY <1>4, <2>1, <2>2
<1>7. InjectsInto(All, Tasks \X (1 .. Limit))
  <2> HIDE DEF g
  <2> QED
    BY <1>5, <1>6 DEF InjectsInto
<1>8. /\ IsFiniteSet(Tasks \X (1 .. Limit))
      /\ Cardinality(Tasks \X (1 .. Limit)) = Cardinality(Tasks) * Limit
  <2>1. IsFiniteSet(1 .. Limit) /\ Cardinality(1 .. Limit) = Limit
    BY GuardConstants, FS_Interval
  <2> QED
    BY <2>1, GuardConstants, FS_Product
<1>9. Cardinality(All) <= Cardinality(Tasks) * Limit
  BY <1>7, <1>8, InjectionsCount
<1>10. Cardinality(Tasks) \in Nat /\ Limit \in Nat
  BY GuardConstants, FS_CardinalityType
<1>11. Cardinality(Tasks) * Limit = Limit * Cardinality(Tasks)
  BY <1>10
<1> QED
  BY <1>9, <1>11, SameCount

(* LimitsHold: whatever a timeout cuts short, no more connections are in use
   than the pool has, and a request that has ended holds none; and however
   the balancer spreads the pages over the tasks, a window serves an address
   no more than the limit times the tasks. *)
THEOREM LimitsAreKept == ApiSpec => []LimitsHold
<1>1. Pool!Accounted /\ GuardInv => LimitsHold
  BY WithinLimits DEF LimitsHold
<1> QED
  BY <1>1, PoolIsAccounted, GuardHolds, PTL
=============================================================================
