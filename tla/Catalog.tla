------------------------------ MODULE Catalog ------------------------------
(***************************************************************************)
(* Listing search and detail (BC-5): the search form, the address of the   *)
(* results page, the page that reads it back, the two read-side queries,   *)
(* and the hosts whose writes they see.                                    *)
(*                                                                         *)
(* A search crosses four conversions: form to address, address to query,   *)
(* query to WHERE, row to card.  Fields are abstract: a place is the text  *)
(* typed or "", guests a number, dates one of the ways a pair can be.      *)
(* Hits[p] are the locations that contain the text p in any case.          *)
(***************************************************************************)
EXTENDS Integers, FiniteSets, Sequences, SequencesExt

CONSTANTS Listing, Drafts,     \* what a host may save: place, capacity, price, title, images
          Places, Hits,
          Searches, Addresses, \* what a guest types into the form and into the address bar
          Ranges,              \* the stays a host may block
          Windows,             \* the pairs of dates a client may ask about
          MaxWrites

CatalogAssumption ==
  /\ IsFiniteSet(Listing)
  /\ \A d \in Drafts : d.capacity \in Nat
  /\ \A r \in Ranges : r[1] \in Int /\ r[2] \in Int /\ r[1] < r[2]
  /\ \A r \in Windows : r[1] \in Int /\ r[2] \in Int

VARIABLES row, blocks, tab, hint, writes
cVars == <<row, blocks, tab, hint, writes>>

Unset == 0
Malformed == -1

Raw == [place : Places \cup {""}, guests : {Malformed} \cup Nat,
        dates : {"unset", "range", "swapped", "malformed"}]
Blank == [place |-> "", guests |-> Unset, dates |-> "unset"]
NoRow == [status |-> "none"]

(* The upsert contract takes any line of text for an image. *)
Images == {<<>>, <<"url">>, <<"text">>, <<"url", "text">>}

Card(l) == [id |-> l, place |-> row[l].place, price |-> row[l].price, title |-> row[l].title,
            thumb |-> IF row[l].images = <<>> THEN "none" ELSE Head(row[l].images)]
Fits(s, c) == c.place \in (IF s.place = "" THEN {c.place} ELSE Hits[s.place])

TypeOK ==
  /\ \A l \in Listing :
       \/ row[l] = NoRow
       \/ /\ row[l].status \in {"Published", "Unpublished"}
          /\ row[l].images \in Images
  /\ blocks \in [Listing -> SUBSET Ranges]
  /\ tab.form \in Raw /\ tab.url \in Raw /\ tab.past \in Raw /\ tab.asked \in Raw
  /\ tab.page \in {"away", "loading", "cards", "opening", "detail", "missing", "failed", "down"}
  /\ tab.opened \in Listing
  /\ \A i \in DOMAIN tab.shown : tab.shown[i].id \in Listing
  /\ hint.known \in BOOLEAN
  /\ writes \in 0..MaxWrites

Init ==
  /\ row = [l \in Listing |-> NoRow]
  /\ blocks = [l \in Listing |-> {}]
  /\ tab = [form |-> Blank, url |-> Blank, past |-> Blank, asked |-> Blank, page |-> "away",
            shown |-> <<>>, opened |-> CHOOSE l \in Listing : TRUE, errors |-> FALSE, typed |-> FALSE]
  /\ hint = [known |-> FALSE]
  /\ writes = 0

----------------------------------------------------------------------------
(* Hosts *)

HostWrite == writes < MaxWrites /\ writes' = writes + 1

(* Create and full-replace update; a new listing is unpublished. *)
Save(l, d) ==
  /\ HostWrite
  /\ LET status == IF row[l] = NoRow THEN "Unpublished" ELSE row[l].status
     IN row' = [row EXCEPT ![l] =
                  [place |-> d.place, capacity |-> d.capacity, price |-> d.price,
                   title |-> d.title, images |-> d.images, status |-> status]]
  /\ UNCHANGED <<blocks, tab, hint>>

Toggle(l) ==
  /\ HostWrite /\ row[l] # NoRow
  /\ row' = [row EXCEPT ![l].status =
               IF @ = "Published" THEN "Unpublished" ELSE "Published"]
  /\ UNCHANGED <<blocks, tab, hint>>

Block(l, r) ==
  /\ HostWrite /\ row[l] # NoRow
  /\ blocks' = [blocks EXCEPT ![l] = @ \cup {r}]
  /\ UNCHANGED <<row, tab, hint>>

----------------------------------------------------------------------------
(* The search form *)

Invalid(f) == f.dates \in {"swapped", "malformed"} \/ f.guests = Malformed

(* A soft navigation to the page the tab is on: the form stays mounted. *)
Navigate(url, asked) ==
  [tab EXCEPT !.url = url, !.past = tab.url, !.asked = asked, !.page = "loading",
               !.errors = FALSE, !.typed = FALSE]

OnResults == tab.page \in {"cards", "loading"}

Type(f) ==
  /\ OnResults /\ f \in Searches
  /\ tab' = [tab EXCEPT !.form = f, !.typed = TRUE]
  /\ UNCHANGED <<row, blocks, hint, writes>>

(* Mutant of Pushed: the address has no guests. *)
PushedWithoutGuests(f) == [f EXCEPT !.guests = Unset]

(* toQuery and the non-empty parameters of the address; what it trims off a
   place or a number tells no two members of Places or Raw apart. *)
Pushed(f) == f

Submit ==
  /\ OnResults
  /\ tab' = IF Invalid(tab.form) THEN [tab EXCEPT !.errors = TRUE]
                                 ELSE Navigate(Pushed(tab.form), tab.form)
  /\ UNCHANGED <<row, blocks, hint, writes>>

Clear ==
  /\ OnResults
  /\ tab' = [Navigate(Blank, Blank) EXCEPT !.form = Blank]
  /\ UNCHANGED <<row, blocks, hint, writes>>

(* The browser's Back button between two results pages. The page is asked for
   again; that the router may show cards it has kept is left out. *)
Back ==
  /\ OnResults /\ tab.past # tab.url
  /\ tab' = Navigate(tab.past, tab.past)
  /\ UNCHANGED <<row, blocks, hint, writes>>

(* A typed address: a new document, its form seeded from the address. *)
Open(u) ==
  /\ u \in Addresses
  /\ tab' = [Navigate(u, u) EXCEPT !.form = u, !.past = u]
  /\ UNCHANGED <<row, blocks, hint, writes>>

Reload ==
  /\ tab.page \in {"cards", "failed", "down"}
  /\ tab' = [tab EXCEPT !.page = "loading", !.form = tab.url, !.errors = FALSE,
                       !.typed = FALSE]
  /\ UNCHANGED <<row, blocks, hint, writes>>

----------------------------------------------------------------------------
(* The results page and its query *)

(* safeParse of the whole object: one bad parameter and the query is {}.
   Two dates in the wrong order are two dates. *)
ParseSearchParams(u) ==
  IF u.guests = Malformed \/ u.dates = "malformed" THEN Blank ELSE u

(* The WHERE of the search; the dates are not in it. *)
Matches(q) ==
  {l \in Listing : /\ row[l].status = "Published"
                   /\ q.place # "" => row[l].place \in Hits[q.place]
                   /\ q.guests # Unset => row[l].capacity >= q.guests}

(* ORDER BY basePrice, title: PostgreSQL may return ties in any order. *)
Sorted(s) ==
  \A i, j \in DOMAIN s : i < j =>
    \/ s[i].price < s[j].price
    \/ s[i].price = s[j].price /\ s[i].title <= s[j].title

Search(q) == {s \in SetToSeqs({Card(l) : l \in Matches(q)}) : Sorted(s)}

(* listingSummary: a thumbnail is null or a URL. *)
SummaryParses(c) == c.thumb \in {"none", "url"}

(* ListingsPage: search, parse the whole answer, render. *)
Load ==
  /\ tab.page = "loading"
  /\ \E s \in Search(ParseSearchParams(tab.url)) :
       tab' = IF \A i \in DOMAIN s : SummaryParses(s[i])
                THEN [tab EXCEPT !.page = "cards", !.shown = s]
                ELSE [tab EXCEPT !.page = "failed", !.shown = <<>>]
  /\ UNCHANGED <<row, blocks, hint, writes>>

(* The API cannot be reached or answers an error. *)
LoadFails ==
  /\ tab.page \in {"loading", "opening"}
  /\ tab' = [tab EXCEPT !.page = "down", !.shown = <<>>]
  /\ UNCHANGED <<row, blocks, hint, writes>>

----------------------------------------------------------------------------
(* The detail page and its query *)

OpenCard(i) ==
  /\ tab.page = "cards" /\ i \in DOMAIN tab.shown
  /\ tab' = [tab EXCEPT !.page = "opening", !.opened = tab.shown[i].id, !.shown = <<>>]
  /\ UNCHANGED <<row, blocks, hint, writes>>

(* listingDetail: every image is a URL. *)
DetailParses(l) == "text" \notin Range(row[l].images)

LoadDetail ==
  /\ tab.page = "opening"
  /\ tab' = [tab EXCEPT !.page =
               IF row[tab.opened].status # "Published" THEN "missing"
               ELSE IF DetailParses(tab.opened) THEN "detail" ELSE "failed"]
  /\ UNCHANGED <<row, blocks, hint, writes>>

(* Mutant of LooksBookable: a stay that touches a block is refused. *)
LooksBookableTouching(l, r) ==
  ~ \E b \in blocks[l] : b[1] <= r[2] /\ b[2] >= r[1]

(* computeIndicativeAvailable: no block with checkIn < to and checkOut > from. *)
LooksBookable(l, r) ==
  ~ \E b \in blocks[l] : b[1] < r[2] /\ b[2] > r[1]

(* GET /listings/:id?from&to, by a client of the API: the pages of the web
   application send no dates. *)
AskHint(l, r) ==
  /\ row[l].status = "Published"
  /\ hint' = [known |-> TRUE, id |-> l, range |-> r, blocked |-> blocks[l],
              available |-> LooksBookable(l, r)]
  /\ UNCHANGED <<row, blocks, tab, writes>>

Next ==
  \/ \E l \in Listing :
       \/ \E d \in Drafts : Save(l, d)
       \/ Toggle(l)
       \/ \E r \in Ranges : Block(l, r)
       \/ \E r \in Windows : AskHint(l, r)
  \/ \E f \in Searches : Type(f)
  \/ Submit \/ Clear \/ Back \/ Reload
  \/ \E u \in Addresses : Open(u)
  \/ Load \/ LoadFails \/ LoadDetail
  \/ \E i \in 1..Cardinality(Listing) : OpenCard(i)

Spec == Init /\ [][Next]_cVars

----------------------------------------------------------------------------
(* Properties *)

Rendered == tab.page = "loading" /\ tab'.page = "cards"

(* Through the four conversions, the cards that arrive are the published
   listings that fit what the guest asked for, all of them and no other,
   whatever was typed and submitted before. *)
AnswersTheGuest ==
  [][Rendered /\ ~Invalid(tab.asked) =>
       {tab'.shown[i].id : i \in DOMAIN tab'.shown} =
         {l \in Listing : /\ row[l].status = "Published"
                          /\ Fits(tab.asked, Card(l))
                          /\ row[l].capacity >= tab.asked.guests}]_cVars

(* A card clicked after the host has withdrawn the listing leads to the
   not-found page: an unpublished listing is never shown. *)
WithdrawnIsMissing ==
  [][tab.page = "opening" /\ tab'.page \in {"detail", "failed"} =>
       row[tab.opened].status = "Published"]_cVars

Nights(r) == r[1]..(r[2] - 1)

(* The hint of the detail query says available exactly if no night of the
   stay was blocked when it was computed. The query does not say that its
   dates are a stay. *)
NoneBlocked == Nights(hint.range) \cap UNION {Nights(b) : b \in hint.blocked} = {}

HintTellsNights ==
  hint.known /\ hint.range[1] < hint.range[2] => (hint.available <=> NoneBlocked)

(* "Overlap is `[from, to) && [checkIn, checkOut)`.": so a window without a
   night overlaps nothing. *)
HintIsOverlap == hint.known => (hint.available <=> NoneBlocked)

(* "Deterministic ordering keeps search cards stable across requests.": a
   reload without a write in between shows the same cards in the same order. *)
StableOrder ==
  [][tab.page = "loading" /\ tab'.page = "cards" /\ tab.shown # <<>>
       /\ {tab.shown[i] : i \in DOMAIN tab.shown} = {tab'.shown[i] : i \in DOMAIN tab'.shown}
       => tab'.shown = tab.shown]_cVars

(* "Unknown or malformed params are dropped (partial parse)": with one bad
   parameter the others still filter. *)
BadParamAlone ==
  [][Rendered => \A i \in DOMAIN tab'.shown : Fits(tab.url, tab'.shown[i])]_cVars

(* "Seed from the current URL so the form reflects the active search.": when
   the results of a search arrive and nothing has been typed since it was asked
   for, form and address agree. *)
FormReflectsSearch ==
  [][Rendered /\ ~tab.typed => tab.form = tab.url]_cVars

(* "The API validates inbound query params and its response payloads against
   these": no answer of the API fails the page's own parse. *)
PayloadConforms == tab.page # "failed"
=============================================================================
