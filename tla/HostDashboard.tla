---------------------------- MODULE HostDashboard ----------------------------
(***************************************************************************)
(* The host's dashboard with a publish button per card, and the form that  *)
(* creates or edits a listing. The cards are rendered on the server and    *)
(* stay what they were until the page is refreshed; the form is filled     *)
(* from the stored listing and sends all of it back.                       *)
(***************************************************************************)
EXTENDS HostBridge

CONSTANTS
  Listing,
  Text,        \* contents of a field
  Blank,       \* the empty field, one of Text
  MaxFaults,   \* bound: calls and answers lost
  None

TextAssumption == Blank \in Text
FaultsAssumption == MaxFaults \in Nat

VARIABLES
  table,       \* table listing: status, title and description
  tab,         \* what the browser shows
  call,        \* the browser's call, NoCall when there is none
  faults

vars == <<table, tab, call, faults>>
-----------------------------------------------------------------------------
Field == {"title", "description"}
Detail == [title : Text, description : Text]
Row == [status : {"Absent", "Unpublished", "Published"}, detail : Detail]
BLANK == [title |-> Blank, description |-> Blank]
Absent == [status |-> "Absent", detail |-> BLANK]

Tab == [at : {"dashboard", "editor", "leaving", "login"},
        cards : [Listing -> Row],
        submitting : SUBSET Listing,     \* toggles that are busy
        refreshing : BOOLEAN,            \* a server render is on its way
        listing : Listing \cup {None},   \* being edited, None for a new one
        form : Detail, touched : SUBSET Field,
        error : {"none", "refused", "network"}]

Call == [op : {"publish", "unpublish", "create", "update", "none"},
         pc : {"none", "sent", "answered"},
         listing : Listing \cup {None}, body : Detail,
         touched : SUBSET Field,
         status : {0, 200, 201, 401, 409, 500}, lost : BOOLEAN]
NoCall == [op |-> "none", pc |-> "none", listing |-> None, body |-> BLANK,
           touched |-> {}, status |-> 0, lost |-> FALSE]

Dashboard(rows) ==
  [at |-> "dashboard", cards |-> rows, submitting |-> {}, refreshing |-> FALSE,
   listing |-> None, form |-> BLANK, touched |-> {}, error |-> "none"]

Init ==
  /\ table = [l \in Listing |-> Absent]
  /\ tab = Dashboard(table)
  /\ call = NoCall
  /\ faults = 0
-----------------------------------------------------------------------------
(* The publish button: what it does follows from the card, not the table.  *)

Action(card) == IF card.status = "Published" THEN "unpublish" ELSE "publish"

ClickToggle(l) ==
  /\ tab.at = "dashboard"
  /\ tab.cards[l].status # "Absent"
  /\ l \notin tab.submitting
  /\ call = NoCall                     \* bound: one call at a time
  /\ tab' = [tab EXCEPT !.submitting = @ \cup {l}, !.error = "none"]
  /\ call' = [NoCall EXCEPT !.op = Action(tab.cards[l]), !.pc = "sent",
                            !.listing = l]
  /\ UNCHANGED <<table, faults>>

(* The bridge makes a 502 of a 409; all but 401 is shown the same way.     *)
ToggleSettled(t, l, status) ==
  CASE status = 401 -> [t EXCEPT !.at = "login"]
    [] status = 200 -> [t EXCEPT !.refreshing = TRUE, !.submitting = @ \ {l}]
    [] status = 0 -> [t EXCEPT !.error = "network", !.submitting = @ \ {l}]
    [] OTHER -> [t EXCEPT !.error = "refused", !.submitting = @ \ {l}]

(* router.refresh(): the server renders the dashboard anew, the components *)
(* keep their state.                                                       *)
Refreshed ==
  /\ tab.at = "dashboard" /\ tab.refreshing
  /\ tab' = [tab EXCEPT !.cards = table, !.refreshing = FALSE]
  /\ UNCHANGED <<table, call, faults>>
-----------------------------------------------------------------------------
(* Mutant of Prefilled: from the summary, which has no description.        *)
PrefilledFromSummary(row) == [row.detail EXCEPT !.description = Blank]

(* GET /host/listings/:id, every field of a draft, too.                    *)
Prefilled(row) == row.detail

OpenEditor(l) ==
  /\ tab.at = "dashboard" /\ call = NoCall
  /\ tab.cards[l].status # "Absent"
  /\ tab' = [tab EXCEPT !.at = "editor", !.listing = l, !.touched = {},
                        !.form = Prefilled(table[l]), !.error = "none"]
  /\ UNCHANGED <<table, call, faults>>

OpenNew ==
  /\ tab.at = "dashboard" /\ call = NoCall
  /\ tab' = [tab EXCEPT !.at = "editor", !.listing = None, !.form = BLANK,
                        !.touched = {}, !.error = "none"]
  /\ UNCHANGED <<table, call, faults>>

Type(field, text) ==
  /\ tab.at = "editor"
  /\ tab' = [tab EXCEPT !.form[field] = text, !.touched = @ \cup {field}]
  /\ UNCHANGED <<table, call, faults>>

(* The schema wants a title. isSubmitting is the call that is under way;   *)
(* between the answer and the end of the navigation the button is enabled. *)
Submit ==
  /\ tab.at \in {"editor", "leaving"}
  /\ call = NoCall
  /\ tab.form.title # Blank
  /\ tab' = [tab EXCEPT !.error = "none"]
  /\ call' = [NoCall EXCEPT !.op = IF tab.listing = None THEN "create" ELSE "update",
                            !.pc = "sent", !.listing = tab.listing,
                            !.body = tab.form, !.touched = tab.touched]
  /\ UNCHANGED <<table, faults>>

SubmitSettled(t, status) ==
  CASE status = 401 -> [t EXCEPT !.at = "login"]
    [] status \in {200, 201} -> [t EXCEPT !.at = "leaving"]
    [] status = 0 -> [t EXCEPT !.error = "network"]
    [] OTHER -> [t EXCEPT !.error = "refused"]

(* router.push and refresh: the dashboard appears, rendered anew.          *)
Navigated ==
  /\ tab.at = "leaving" /\ call = NoCall
  /\ tab' = Dashboard(table)
  /\ UNCHANGED <<table, call, faults>>

GiveUp ==
  /\ tab.at \in {"editor", "login"} /\ call = NoCall
  /\ tab' = Dashboard(table)
  /\ UNCHANGED <<table, call, faults>>
-----------------------------------------------------------------------------
(* The API, one command at a time (ListingWrites has what happens inside). *)

Answer(status) == call' = [call EXCEPT !.pc = "answered", !.status = status]

ServeToggle ==
  LET target == IF call.op = "publish" THEN "Published" ELSE "Unpublished"
  IN  /\ call.op \in {"publish", "unpublish"} /\ call.pc = "sent"
      /\ IF table[call.listing].status = target
           THEN Answer(StatusFor("InvalidListingState")) /\ UNCHANGED table
           ELSE /\ table' = [table EXCEPT ![call.listing].status = target]
                /\ Answer(200)
      /\ UNCHANGED <<tab, faults>>

ServeUpdate ==
  /\ call.op = "update" /\ call.pc = "sent"
  /\ table' = [table EXCEPT ![call.listing].detail = call.body]
  /\ Answer(200)
  /\ UNCHANGED <<tab, faults>>

ServeCreate ==
  /\ call.op = "create" /\ call.pc = "sent"
  /\ \/ \E l \in Listing :
          /\ table[l] = Absent
          /\ table' = [table EXCEPT ![l] = [status |-> "Unpublished",
                                            detail |-> call.body]]
          /\ Answer(201)
     \/ /\ \A l \in Listing : table[l] # Absent     \* bound on listings
        /\ Answer(500) /\ UNCHANGED table
  /\ UNCHANGED <<tab, faults>>

(* A 500, a 401, or no answer at all, before the commit or after it.       *)
Fault ==
  /\ call # NoCall /\ faults < MaxFaults
  /\ faults' = faults + 1
  /\ \/ \E status \in {0, 401, 500} : Answer(status)
     \/ call' = [call EXCEPT !.pc = "answered", !.lost = TRUE]
  /\ UNCHANGED <<table, tab>>

Relayed ==
  IF call.lost THEN 0
  ELSE CASE call.op = "publish" -> PostPublish(call.status)
         [] call.op = "unpublish" -> PostUnpublish(call.status)
         [] call.op = "create" -> PostListing(call.status)
         [] OTHER -> PatchListing(call.status)

Settle ==
  /\ call.pc = "answered"
  /\ tab' = IF call.op \in {"create", "update"}
              THEN SubmitSettled(tab, Relayed)
              ELSE ToggleSettled(tab, call.listing, Relayed)
  /\ call' = NoCall
  /\ UNCHANGED <<table, faults>>

Serve == ServeToggle \/ ServeUpdate \/ ServeCreate

Browse == OpenNew \/ \E l \in Listing : OpenEditor(l)

Next ==
  \/ \E l \in Listing : ClickToggle(l)
  \/ Browse \/ Submit \/ Navigated \/ GiveUp \/ Refreshed
  \/ \E field \in Field, text \in Text : Type(field, text)
  \/ Serve \/ Fault \/ Settle

Spec == Init /\ [][Next]_vars

(* Calls end.                                                              *)
Fairness == WF_vars(Serve \/ Settle)

FairSpec == Spec /\ Fairness

(* A host who is shown an error tries again and does nothing else.         *)
Retries ==
  /\ Init /\ [][Next /\ (tab.error # "none" => ~Browse)]_vars
  /\ WF_vars(Serve) /\ WF_vars(Settle) /\ WF_vars(Refreshed)
  /\ \A l \in Listing : WF_vars(tab.error # "none" /\ ClickToggle(l))
-----------------------------------------------------------------------------
(* Table, page and call have their types.                                  *)
TypeOK ==
  /\ table \in [Listing -> Row]
  /\ tab \in Tab
  /\ call \in Call
  /\ faults \in 0 .. MaxFaults

(* A toggle's button waits. It must not wait for a remount that never      *)
(* comes (calls are one at a time, so one button waits at most).           *)
Busy == tab.at = "dashboard" /\ tab.submitting # {}

(* The card and the label follow the server: when nothing is under way and *)
(* no error is shown, the dashboard shows the table.                       *)
CardsAreTable ==
  tab.at = "dashboard" /\ call = NoCall /\ ~tab.refreshing /\ tab.error = "none"
    => tab.cards = table

(* A full-replace edit keeps what the host has not touched: a field    *)
(* nobody has typed in since the form was opened is written back as it is. *)
UntouchedFieldsKept ==
  [][call.op = "update" /\ table' # table =>
       \A field \in Field \ call.touched :
           table'[call.listing].detail[field] = table[call.listing].detail[field]]_vars

(* After a network error the host can try again: clicking on, the error    *)
(* goes away in the end.                                                   *)
RetryHeals ==
  tab.at = "dashboard" /\ tab.error = "network"
    ~> tab.error = "none" /\ tab.cards = table
=============================================================================
